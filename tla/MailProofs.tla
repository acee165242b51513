----------------------------- MODULE MailProofs -----------------------------
(***************************************************************************)
(* Proofs about the desk's mail, surveys, notifications and reports, in    *)
(* the terms of Desk: v1, v2, ... are the variables of a part in the       *)
(* order of its INSTANCE.                                                  *)
(***************************************************************************)
EXTENDS Desk, TLAPS, FiniteSetTheorems, SequenceTheorems

(* Numbers have a least one: what the search for the next reminder, the     *)
(* first message of a conversation and sums over rows rest on.             *)
LEMMA LeastNumber ==
  ASSUME NEW T, T \subseteq Nat, T # {}
  PROVE  \E x \in T : \A y \in T : x <= y
<1>1. PICK R : R = OpToRel(<, Nat)
  BY Zenon
<1>2. \A x, y \in Nat : <<x, y>> \in R <=> x < y
  BY <1>1 DEF OpToRel
<1>3. \E x \in T : \A y \in T : ~(<<y, x>> \in R)
  BY <1>1, NatLessThanWellFounded, WFMin, Zenon
<1> HIDE <1>1
<1> QED
  <2>1. PICK x \in T : \A y \in T : ~(<<y, x>> \in R)
    BY <1>3
  <2>2. \A y \in T : ~(y < x)
    BY <1>2, <2>1
  <2> QED BY <2>1, <2>2

-----------------------------------------------------------------------------
(* Mail that goes out (Out)                                                *)

MailRow == [which : 1..MaxSends, token : 1..MaxTokens]
MailRequest == [at : {"idle", "rendered", "addressed", "inserted", "sent"},
                row : MailRows \cup {None}, token : Nat]

OutShape ==
  /\ v1 \in Nat /\ v3 \in Nat /\ v1 <= v3 /\ v3 <= MaxTokens
  /\ v2 \in Requests \cup {None}
  /\ v4 \in [MailRows -> MailRow \cup {None}]
  /\ v5 \in [MailRows -> Requests \cup {None}]
  /\ v6 \in [MailRows -> Seq(Nat)]
  /\ \A e \in MailRows : Len(v6[e]) <= MaxSends
  /\ v9 \in [Requests -> MailRequest]
  /\ v12 \in BOOLEAN

(* What a handler has in hand: the row it works on and a token once it      *)
(* needs one.                                                              *)
HandlerFits(t) ==
  /\ v9[t].at = "idle" => v9[t] = Out!NoMail
  /\ v9[t].at # "idle" => v9[t].row \in MailRows
  /\ v9[t].token <= v3
  /\ v9[t].at \in {"addressed", "inserted", "sent"} => v9[t].token # 0
  /\ v9[t].at = "inserted" => v5[v9[t].row] = t
  /\ v2 = t => v9[t].at \in {"addressed", "inserted", "sent"}

(* The uncommitted row of an event is in the hand of who inserted it.      *)
RowIsHeld(e) ==
  v5[e] # None =>
    /\ v4[e] = None
    /\ v9[v5[e]].row = e
    /\ v9[v5[e]].at \in {"inserted", "sent"}

HasLeft(e) == v4[e] # None \/ (v5[e] # None /\ v9[v5[e]].at = "sent")

(* A mail leaves once, and what leaves again follows a lost send.          *)
SendsFit(e) ==
  /\ HasLeft(e) => Len(v6[e]) >= 1
  /\ e \notin v10 => Len(v6[e]) = (IF HasLeft(e) THEN 1 ELSE 0)

(* While no two handlers drew, there is one token: the ticket's, or the    *)
(* one that is being drawn for it.                                         *)
OneToken ==
  v12 \/
    /\ v2 # None => v1 = 0
    /\ \A t \in Requests : v9[t].token # 0 => v9[t].token = v1 \/ v2 = t
    /\ \A e \in MailRows : v4[e] # None => v4[e].token = v1

OutInv ==
  /\ OutShape
  /\ \A t \in Requests : HandlerFits(t)
  /\ \A e \in MailRows : RowIsHeld(e) /\ SendsFit(e)
  /\ OneToken
  /\ Out!BouncesSuppress

LEMMA NoneIsNoMailRow ==
  ASSUME Out!MailConstants
  PROVE  None \notin MailRow /\ None \notin Requests /\ MaxSends \in Nat /\ MaxTokens \in Nat
<1>1. ASSUME NEW r \in MailRow PROVE r # None
  <2>1. r = [which |-> r.which, token |-> r.token] /\ r.which \in 0..MaxSends /\ r.token \in 0..MaxTokens
    BY DEF MailRow, Out!MailConstants
  <2> QED BY <2>1 DEF Out!MailConstants
<1> QED BY <1>1 DEF Out!MailConstants

LEMMA OutStarts ==
  ASSUME Out!OutboundInit, Out!MailConstants
  PROVE  OutInv
<1> USE NoneIsNoMailRow
<1>1. OutShape
  <2>1. v6 = [e \in MailRows |-> <<>>] /\ v9 = [t \in Requests |-> Out!NoMail]
    BY DEF Out!OutboundInit
  <2>2. v6 \in [MailRows -> Seq(Nat)] /\ \A e \in MailRows : Len(v6[e]) <= MaxSends
    BY <2>1
  <2>3. Out!NoMail \in MailRequest
    BY DEF Out!NoMail, MailRequest
  <2>4. v9 \in [Requests -> MailRequest]
    BY <2>1, <2>3
  <2>5. v1 = 0 /\ v3 = 0 /\ v2 = None /\ v12 = FALSE
        /\ v4 = [e \in MailRows |-> None] /\ v5 = [e \in MailRows |-> None]
    BY DEF Out!OutboundInit, Out!NoToken
  <2>6. v4 \in [MailRows -> MailRow \cup {None}] /\ v5 \in [MailRows -> Requests \cup {None}]
    BY <2>5
  <2>7. v1 \in Nat /\ v3 \in Nat /\ v1 <= v3 /\ v3 <= MaxTokens
    BY <2>5
  <2> QED BY <2>2, <2>4, <2>5, <2>6, <2>7 DEF OutShape
<1>2. \A t \in Requests : HandlerFits(t)
  BY DEF HandlerFits, Out!OutboundInit, Out!NoMail, Out!NoToken
<1>3. \A e \in MailRows : RowIsHeld(e) /\ SendsFit(e)
  BY DEF RowIsHeld, SendsFit, HasLeft, Out!OutboundInit
<1>4. OneToken /\ Out!BouncesSuppress
  BY DEF OneToken, Out!BouncesSuppress, Out!OutboundInit, Out!NoMail, Out!NoToken
<1> QED BY <1>1, <1>2, <1>3, <1>4 DEF OutInv

LEMMA HandleOutboxKeeps ==
  ASSUME OutInv, Out!MailConstants, NEW t \in Requests, Out!HandleOutbox(t)
  PROVE  OutInv'
<1> USE NoneIsNoMailRow
<1> DEFINE r(e) == [at |-> "rendered", row |-> e, token |-> v1]
<1>1. PICK e \in MailRows : v9' = [v9 EXCEPT ![t] = r(e)]
  BY DEF Out!HandleOutbox
<1>2. UNCHANGED <<v1, v2, v3, v4, v5, v6, v7, v8, v10, v11, v12>> /\ v9[t] = Out!NoMail
  BY DEF Out!HandleOutbox
<1>3. r(e) \in MailRequest /\ v9 \in [Requests -> MailRequest]
  BY DEF OutInv, OutShape, MailRequest
<1>4. v9' \in [Requests -> MailRequest] /\ v9'[t] = r(e) /\ \A u \in Requests \ {t} : v9'[u] = v9[u]
  BY <1>1, <1>3
<1>5. OutShape'
  BY <1>2, <1>4 DEF OutInv, OutShape
<1>6. ASSUME NEW u \in Requests PROVE HandlerFits(u)'
  BY <1>2, <1>4 DEF OutInv, OutShape, HandlerFits, Out!NoMail
<1>7. ASSUME NEW x \in MailRows PROVE RowIsHeld(x)' /\ SendsFit(x)'
  <2>1. v5[x] # None => v5[x] # t
    BY <1>2 DEF OutInv, RowIsHeld, Out!NoMail
  <2>2. v5[x] # None => v5[x] \in Requests /\ v9'[v5[x]] = v9[v5[x]]
    BY <1>4, <2>1 DEF OutInv, OutShape
  <2>3. HasLeft(x)' = HasLeft(x)
    BY <1>2, <2>2 DEF HasLeft
  <2> QED BY <1>2, <2>2, <2>3 DEF OutInv, RowIsHeld, SendsFit
<1>8. OneToken'
  BY <1>2, <1>4 DEF OutInv, OneToken
<1> QED BY <1>2, <1>5, <1>6, <1>7, <1>8 DEF OutInv, Out!BouncesSuppress

LEMMA DrawTokenKeeps ==
  ASSUME OutInv, Out!MailConstants, NEW t \in Requests, Out!DrawToken(t)
  PROVE  OutInv'
<1> USE NoneIsNoMailRow
<1>1. /\ v9[t].at = "rendered" /\ v9[t].token = 0 /\ v2 = None /\ v3 < MaxTokens
      /\ v3' = v3 + 1
      /\ v2' = IF v1 = 0 THEN t ELSE None
      /\ v12' = (v12 \/ v1 # 0)
      /\ v9' = [v9 EXCEPT ![t].at = "addressed", ![t].token = v3 + 1]
      /\ UNCHANGED <<v1, v4, v5, v6, v7, v8, v10, v11>>
  BY DEF Out!DrawToken, Out!NeedsToken, Out!NoToken
<1>2. v9 \in [Requests -> MailRequest] /\ v3 \in Nat /\ v1 \in Nat
  BY DEF OutInv, OutShape
<1>3. PICK q : q = [v9[t] EXCEPT !.at = "addressed", !.token = v3 + 1]
  OBVIOUS
<1>4. q \in MailRequest /\ q.at = "addressed" /\ q.token = v3 + 1 /\ q.row = v9[t].row
  <2>1. v9[t] \in MailRequest /\ v3 + 1 \in Nat
    BY <1>2
  <2>2. q = [at |-> "addressed", row |-> v9[t].row, token |-> v3 + 1]
    BY <1>3, <2>1 DEF MailRequest
  <2> QED BY <2>1, <2>2 DEF MailRequest
<1>5. v9' = [v9 EXCEPT ![t] = q]
  BY <1>1, <1>2, <1>3
<1>6. v9' \in [Requests -> MailRequest] /\ v9'[t] = q /\ \A u \in Requests \ {t} : v9'[u] = v9[u]
  BY <1>2, <1>4, <1>5
<1>7. OutShape'
  BY <1>1, <1>6 DEF OutInv, OutShape
<1>8. ASSUME NEW u \in Requests PROVE HandlerFits(u)'
  <2>1. HandlerFits(u)
    BY DEF OutInv
  <2>2. v9[u].token \in Nat
    BY <1>2 DEF MailRequest
  <2>3. CASE u = t
    BY <1>1, <1>2, <1>4, <1>6, <2>1, <2>3 DEF HandlerFits
  <2>4. CASE u # t
    BY <1>1, <1>2, <1>6, <2>1, <2>2, <2>4 DEF HandlerFits
  <2> QED BY <2>3, <2>4
<1>9. ASSUME NEW x \in MailRows PROVE RowIsHeld(x)' /\ SendsFit(x)'
  <2>1. v5[x] # None => v5[x] # t
    BY <1>1 DEF OutInv, RowIsHeld
  <2>2. v5[x] # None => v5[x] \in Requests /\ v9'[v5[x]] = v9[v5[x]]
    BY <1>6, <2>1 DEF OutInv, OutShape
  <2>3. HasLeft(x)' = HasLeft(x)
    BY <1>1, <2>2 DEF HasLeft
  <2> QED BY <1>1, <2>2, <2>3 DEF OutInv, RowIsHeld, SendsFit
<1>10. OneToken'
  BY <1>1, <1>4, <1>6 DEF OutInv, OutShape, OneToken
<1> QED BY <1>1, <1>7, <1>8, <1>9, <1>10 DEF OutInv, Out!BouncesSuppress

LEMMA InsertOutboundKeeps ==
  ASSUME OutInv, Out!MailConstants, NEW t \in Requests, Out!InsertOutbound(t)
  PROVE  OutInv'
<1> USE NoneIsNoMailRow
<1> DEFINE e == v9[t].row
           where == IF v4[e] = None THEN "inserted" ELSE "sent"
<1>1. /\ v9[t].at \in {"rendered", "addressed"} /\ (v9[t].at = "rendered" => v9[t].token # 0)
      /\ v5[e] = None
      /\ v5' = IF v4[e] = None THEN [v5 EXCEPT ![e] = t] ELSE v5
      /\ v9' = [v9 EXCEPT ![t].at = where]
      /\ UNCHANGED <<v1, v2, v3, v4, v6, v7, v8, v10, v11, v12>>
  BY DEF Out!InsertOutbound, Out!NeedsToken, Out!NoToken, Out!Unclaimed
<1>2. v9 \in [Requests -> MailRequest] /\ v5 \in [MailRows -> Requests \cup {None}] /\ e \in MailRows
  BY <1>1 DEF OutInv, OutShape, HandlerFits
<1>3. PICK q : q = [v9[t] EXCEPT !.at = where]
  OBVIOUS
<1>4. q \in MailRequest /\ q.at = where /\ q.token = v9[t].token /\ q.row = e
  BY <1>2, <1>3 DEF MailRequest
<1>5. v9' = [v9 EXCEPT ![t] = q]
  BY <1>1, <1>2, <1>3
<1>6. v9' \in [Requests -> MailRequest] /\ v9'[t] = q /\ \A u \in Requests \ {t} : v9'[u] = v9[u]
  BY <1>2, <1>4, <1>5
<1>7. /\ v5' \in [MailRows -> Requests \cup {None}]
      /\ \A x \in MailRows : v5'[x] = IF x = e /\ v4[e] = None THEN t ELSE v5[x]
  BY <1>1, <1>2
<1>8. OutShape'
  BY <1>1, <1>6, <1>7 DEF OutInv, OutShape
<1> HIDE DEF e, where
<1>9. ASSUME NEW u \in Requests PROVE HandlerFits(u)'
  <2>1. HandlerFits(u) /\ v9[u].row \in MailRows \cup {None}
    BY <1>2 DEF OutInv, MailRequest
  <2>3. CASE u = t
    BY <1>1, <1>2, <1>4, <1>6, <1>7, <2>1, <2>3 DEF HandlerFits, where, e
  <2>4. CASE u # t
    <3>1. v9[u].at = "inserted" => v9[u].row # e
      BY <1>1, <2>1, <2>4 DEF HandlerFits
    <3> QED BY <1>1, <1>2, <1>6, <1>7, <2>1, <2>4, <3>1 DEF HandlerFits
  <2> QED BY <2>3, <2>4
<1>10. ASSUME NEW x \in MailRows PROVE RowIsHeld(x)' /\ SendsFit(x)'
  <2>0. RowIsHeld(x) /\ SendsFit(x)
    BY DEF OutInv
  <2>1. v5[x] # None => v5[x] # t
    BY <1>1, <2>0 DEF RowIsHeld
  <2>2. v5[x] # None => v5[x] \in Requests /\ v9'[v5[x]] = v9[v5[x]] /\ v5'[x] = v5[x]
    BY <1>1, <1>2, <1>6, <1>7, <2>1
  <2>3. RowIsHeld(x)'
    BY <1>1, <1>4, <1>6, <1>7, <2>0, <2>2 DEF RowIsHeld, where, e
  <2>4. HasLeft(x)' = HasLeft(x)
    BY <1>1, <1>4, <1>6, <1>7, <2>2 DEF HasLeft, where, e
  <2> QED BY <1>1, <2>0, <2>3, <2>4 DEF SendsFit
<1>11. OneToken'
  BY <1>1, <1>4, <1>6 DEF OutInv, OneToken
<1> QED BY <1>1, <1>8, <1>9, <1>10, <1>11 DEF OutInv, Out!BouncesSuppress

LEMMA SendKeeps ==
  ASSUME OutInv, Out!MailConstants, NEW t \in Requests, Out!Send(t)
  PROVE  OutInv'
<1> USE NoneIsNoMailRow
<1> DEFINE e == v9[t].row
<1>1. /\ v9[t].at = "inserted" /\ Len(v6[e]) < MaxSends
      /\ v6' = [v6 EXCEPT ![e] = Append(v6[e], v9[t].token)]
      /\ v9' = [v9 EXCEPT ![t].at = "sent"]
      /\ UNCHANGED <<v1, v2, v3, v4, v5, v7, v8, v10, v11, v12>>
  BY DEF Out!Send
<1>2. /\ v9 \in [Requests -> MailRequest] /\ e \in MailRows /\ v5[e] = t /\ v4[e] = None
      /\ v6 \in [MailRows -> Seq(Nat)] /\ v9[t].token \in Nat
  BY <1>1 DEF OutInv, OutShape, HandlerFits, RowIsHeld, MailRequest
<1>3. PICK q : q = [v9[t] EXCEPT !.at = "sent"]
  OBVIOUS
<1>4. q \in MailRequest /\ q.at = "sent" /\ q.token = v9[t].token /\ q.row = e
  BY <1>2, <1>3 DEF MailRequest
<1>5. v9' = [v9 EXCEPT ![t] = q]
  BY <1>1, <1>2, <1>3
<1>6. v9' \in [Requests -> MailRequest] /\ v9'[t] = q /\ \A u \in Requests \ {t} : v9'[u] = v9[u]
  BY <1>2, <1>4, <1>5
<1>7. /\ v6' \in [MailRows -> Seq(Nat)]
      /\ \A x \in MailRows : Len(v6'[x]) = IF x = e THEN Len(v6[x]) + 1 ELSE Len(v6[x])
  BY <1>1, <1>2
<1>8. OutShape'
  <2>1. \A x \in MailRows : Len(v6[x]) \in Nat
    BY <1>2
  <2>2. \A x \in MailRows : Len(v6'[x]) <= MaxSends
    BY <1>1, <1>7, <2>1 DEF OutInv, OutShape
  <2> QED BY <1>1, <1>6, <1>7, <2>2 DEF OutInv, OutShape
<1> HIDE DEF e
<1>9. ASSUME NEW u \in Requests PROVE HandlerFits(u)'
  <2>1. HandlerFits(u)
    BY DEF OutInv
  <2> QED BY <1>1, <1>4, <1>6, <2>1 DEF HandlerFits, e
<1>10. ASSUME NEW x \in MailRows PROVE RowIsHeld(x)' /\ SendsFit(x)'
  <2>0. RowIsHeld(x) /\ SendsFit(x) /\ Len(v6[x]) \in Nat
    BY <1>2 DEF OutInv
  <2>1. CASE x = e
    <3>1. ~HasLeft(x) /\ HasLeft(x)' /\ v9'[v5[x]] = q /\ v5[x] # None
      BY <1>1, <1>2, <1>4, <1>6, <2>1 DEF HasLeft
    <3> QED BY <1>1, <1>2, <1>4, <1>7, <2>0, <2>1, <3>1 DEF RowIsHeld, SendsFit
  <2>2. CASE x # e
    <3>1. v5[x] # None => v5[x] # t
      BY <2>0, <2>2 DEF RowIsHeld, e
    <3>2. v5[x] # None => v5[x] \in Requests /\ v9'[v5[x]] = v9[v5[x]]
      BY <1>6, <3>1 DEF OutInv, OutShape
    <3>3. HasLeft(x)' = HasLeft(x)
      BY <1>1, <3>2 DEF HasLeft
    <3> QED BY <1>1, <1>7, <2>0, <2>2, <3>2, <3>3 DEF RowIsHeld, SendsFit
  <2> QED BY <2>1, <2>2
<1>11. OneToken'
  BY <1>1, <1>4, <1>6 DEF OutInv, OneToken
<1> QED BY <1>1, <1>8, <1>9, <1>10, <1>11 DEF OutInv, Out!BouncesSuppress

LEMMA CommitMailKeeps ==
  ASSUME OutInv, Out!MailConstants, NEW t \in Requests, Out!CommitMail(t)
  PROVE  OutInv'
<1> USE NoneIsNoMailRow
<1> DEFINE e == v9[t].row
           row == [which |-> Len(v6[e]), token |-> v9[t].token]
<1>1. /\ v9[t].at = "sent"
      /\ v1' = IF v2 = t THEN v9[t].token ELSE v1
      /\ v2' = IF v2 = t THEN None ELSE v2
      /\ v4' = IF v5[e] = t THEN [v4 EXCEPT ![e] = row] ELSE v4
      /\ v5' = IF v5[e] = t THEN [v5 EXCEPT ![e] = None] ELSE v5
      /\ v9' = [v9 EXCEPT ![t] = Out!NoMail]
      /\ UNCHANGED <<v3, v6, v7, v8, v10, v11, v12>>
  BY DEF Out!CommitMail
<1>2. /\ v9 \in [Requests -> MailRequest] /\ e \in MailRows /\ v9[t].token \in Nat /\ v9[t].token # 0
      /\ v9[t].token <= v3 /\ v3 <= MaxTokens /\ v3 \in Nat
      /\ v6 \in [MailRows -> Seq(Nat)]
      /\ v4 \in [MailRows -> MailRow \cup {None}]
      /\ v5 \in [MailRows -> Requests \cup {None}]
  BY <1>1 DEF OutInv, OutShape, HandlerFits, MailRequest
<1>3. v5[e] = t => row \in MailRow
  <2>1. SUFFICES ASSUME v5[e] = t PROVE row \in MailRow
    OBVIOUS
  <2>2. SendsFit(e) /\ HasLeft(e) /\ Len(v6[e]) <= MaxSends /\ Len(v6[e]) \in Nat
    BY <1>1, <1>2, <2>1 DEF OutInv, OutShape, HasLeft
  <2>3. Len(v6[e]) \in 1..MaxSends /\ v9[t].token \in 1..MaxTokens
    BY <1>2, <2>2 DEF SendsFit
  <2> QED BY <2>3 DEF MailRow
<1>4. Out!NoMail \in MailRequest /\ Out!NoMail.at = "idle" /\ Out!NoMail.token = 0
  BY DEF Out!NoMail, MailRequest
<1>5. v9' \in [Requests -> MailRequest] /\ v9'[t] = Out!NoMail /\ \A u \in Requests \ {t} : v9'[u] = v9[u]
  BY <1>1, <1>2, <1>4
<1>6. /\ v4' \in [MailRows -> MailRow \cup {None}] /\ v5' \in [MailRows -> Requests \cup {None}]
      /\ \A x \in MailRows : v4'[x] = (IF v5[x] = t THEN row ELSE v4[x]) /\ v5'[x] = (IF v5[x] = t THEN None ELSE v5[x])
  <2>1. \A x \in MailRows : v5[x] = t => x = e
    BY DEF OutInv, RowIsHeld
  <2> QED BY <1>1, <1>2, <1>3, <2>1
<1> HIDE DEF e, row
<1>7. OutShape'
  BY <1>1, <1>2, <1>5, <1>6 DEF OutInv, OutShape
<1>8. ASSUME NEW u \in Requests PROVE HandlerFits(u)'
  <2>1. HandlerFits(u) /\ v9[u].row \in MailRows \cup {None}
    BY <1>2 DEF OutInv, MailRequest
  <2>2. CASE u = t
    BY <1>1, <1>2, <1>4, <1>5, <2>2 DEF HandlerFits
  <2>3. CASE u # t
    <3>1. v9'[u] = v9[u] /\ (v2' = u => v2 = u)
      BY <1>1, <1>5, <2>3
    <3>2. v9[u].at = "inserted" => v5'[v9[u].row] = u
      BY <1>6, <2>1, <2>3 DEF HandlerFits
    <3> QED BY <1>1, <2>1, <3>1, <3>2 DEF HandlerFits
  <2> QED BY <2>2, <2>3
<1>9. ASSUME NEW x \in MailRows PROVE RowIsHeld(x)' /\ SendsFit(x)'
  <2>0. RowIsHeld(x) /\ SendsFit(x)
    BY DEF OutInv
  <2>1. v5'[x] # None => v5'[x] = v5[x] /\ v4'[x] = v4[x] /\ v5[x] \in Requests /\ v9'[v5[x]] = v9[v5[x]]
    BY <1>2, <1>5, <1>6
  <2>2. RowIsHeld(x)'
    BY <2>0, <2>1 DEF RowIsHeld
  <2>3. CASE v5[x] = t
    <3>1. HasLeft(x) /\ HasLeft(x)'
      <4>1. x = e
        BY <2>0, <2>3 DEF RowIsHeld, e
      <4>2. v4'[x] \in MailRow
        BY <1>3, <1>6, <2>3, <4>1
      <4> QED BY <1>1, <2>3, <4>1, <4>2 DEF HasLeft
    <3> QED BY <1>1, <2>0, <2>2, <3>1 DEF SendsFit
  <2>4. CASE v5[x] # t
    <3>1. HasLeft(x)' = HasLeft(x)
      <4>1. v4'[x] = v4[x] /\ v5'[x] = v5[x]
        BY <1>6, <2>4
      <4> QED BY <2>1, <4>1 DEF HasLeft
    <3> QED BY <1>1, <2>0, <2>2, <3>1 DEF SendsFit
  <2> QED BY <2>3, <2>4
<1>10. OneToken'
  <2> SUFFICES ASSUME ~v12
               PROVE  /\ v2' # None => v1' = 0
                      /\ \A u \in Requests : v9'[u].token # 0 => v9'[u].token = v1' \/ v2' = u
                      /\ \A x \in MailRows : v4'[x] # None => v4'[x].token = v1'
    BY <1>1 DEF OneToken
  <2>1. /\ v2 # None => v1 = 0
        /\ \A u \in Requests : v9[u].token # 0 => v9[u].token = v1 \/ v2 = u
        /\ \A x \in MailRows : v4[x] # None => v4[x].token = v1
    BY DEF OutInv, OneToken
  <2>2. v2 # t => v1' = v1 /\ v2' = v2
    BY <1>1
  <2>3. v2 = t => v1 = 0 /\ v2' = None /\ v1' = v9[t].token
    BY <1>1, <2>1
  <2>4. v1' = v9[t].token
    BY <1>2, <2>1, <2>2, <2>3
  <2>5. \A x \in MailRows : v4[x] # None => v4[x].token # 0
    BY <1>2 DEF MailRow
  <2>6. \A u \in Requests : v9'[u].token # 0 => v9'[u].token = v1' \/ v2' = u
    <3> SUFFICES ASSUME NEW u \in Requests, v9'[u].token # 0
                 PROVE  v9'[u].token = v1' \/ v2' = u
      OBVIOUS
    <3>1. u # t /\ v9'[u] = v9[u]
      BY <1>4, <1>5
    <3> QED BY <2>1, <2>2, <2>3, <3>1
  <2>7. \A x \in MailRows : v4'[x] # None => v4'[x].token = v1'
    <3> SUFFICES ASSUME NEW x \in MailRows, v4'[x] # None
                 PROVE  v4'[x].token = v1'
      OBVIOUS
    <3>1. CASE v5[x] = t
      BY <1>6, <2>4, <3>1 DEF row
    <3>2. CASE v5[x] # t
      <4>1. v4[x] # None /\ v4'[x] = v4[x]
        BY <1>6, <3>2
      <4> QED BY <2>1, <2>2, <2>3, <2>5, <4>1
    <3> QED BY <3>1, <3>2
  <2> QED BY <2>1, <2>2, <2>3, <2>6, <2>7
<1> QED BY <1>1, <1>7, <1>8, <1>9, <1>10 DEF OutInv, Out!BouncesSuppress

LEMMA AbortMailKeeps ==
  ASSUME OutInv, Out!MailConstants, NEW t \in Requests, Out!AbortMail(t)
  PROVE  OutInv'
<1> USE NoneIsNoMailRow
<1> DEFINE e == v9[t].row
<1>1. /\ v9[t] # Out!NoMail
      /\ v10' = IF v9[t].at = "sent" /\ v5[e] = t THEN v10 \cup {e} ELSE v10
      /\ v2' = IF v2 = t THEN None ELSE v2
      /\ v5' = [x \in MailRows |-> IF v5[x] = t THEN None ELSE v5[x]]
      /\ v9' = [v9 EXCEPT ![t] = Out!NoMail]
      /\ UNCHANGED <<v1, v3, v4, v6, v7, v8, v11, v12>>
  BY DEF Out!AbortMail
<1>2. /\ v9 \in [Requests -> MailRequest] /\ v5 \in [MailRows -> Requests \cup {None}]
      /\ \A x \in MailRows : v5[x] = t => x = e
  BY DEF OutInv, OutShape, RowIsHeld
<1>4. Out!NoMail \in MailRequest /\ Out!NoMail.at = "idle" /\ Out!NoMail.token = 0
  BY DEF Out!NoMail, MailRequest
<1>5. v9' \in [Requests -> MailRequest] /\ v9'[t] = Out!NoMail /\ \A u \in Requests \ {t} : v9'[u] = v9[u]
  BY <1>1, <1>2, <1>4
<1>6. /\ v5' \in [MailRows -> Requests \cup {None}]
      /\ \A x \in MailRows : v5'[x] = IF v5[x] = t THEN None ELSE v5[x]
  BY <1>1, <1>2
<1>7. OutShape'
  BY <1>1, <1>5, <1>6 DEF OutInv, OutShape
<1> HIDE DEF e
<1>8. ASSUME NEW u \in Requests PROVE HandlerFits(u)'
  <2>1. HandlerFits(u) /\ v9[u].row \in MailRows \cup {None} /\ v3 \in Nat
    BY <1>2 DEF OutInv, MailRequest, OutShape
  <2>2. CASE u = t
    BY <1>1, <1>4, <1>5, <2>1, <2>2 DEF HandlerFits
  <2>3. CASE u # t
    <3>1. v9'[u] = v9[u] /\ (v2' = u => v2 = u)
      BY <1>1, <1>5, <2>3
    <3>2. v9[u].at = "inserted" => v5'[v9[u].row] = u
      BY <1>6, <2>1, <2>3 DEF HandlerFits
    <3> QED BY <1>1, <2>1, <3>1, <3>2 DEF HandlerFits
  <2> QED BY <2>2, <2>3
<1>9. ASSUME NEW x \in MailRows PROVE RowIsHeld(x)' /\ SendsFit(x)'
  <2>0. RowIsHeld(x) /\ SendsFit(x)
    BY DEF OutInv
  <2>1. v5'[x] # None => v5'[x] = v5[x] /\ v5[x] \in Requests /\ v9'[v5[x]] = v9[v5[x]]
    BY <1>2, <1>5, <1>6
  <2>2. RowIsHeld(x)'
    BY <1>1, <2>0, <2>1 DEF RowIsHeld
  <2>3. CASE v5[x] = t
    <3>1. ~HasLeft(x)' /\ x = e /\ v4[x] = None /\ v9[t].at \in {"inserted", "sent"}
      BY <1>1, <1>2, <1>6, <2>0, <2>3 DEF HasLeft, RowIsHeld
    <3>2. v9[t].at = "sent" => x \in v10'
      BY <1>1, <2>3, <3>1
    <3>3. v9[t].at # "sent" => ~HasLeft(x) /\ v10' = v10
      BY <1>1, <2>3, <3>1 DEF HasLeft
    <3> QED BY <1>1, <2>0, <2>2, <3>1, <3>2, <3>3 DEF SendsFit
  <2>4. CASE v5[x] # t
    <3>1. HasLeft(x)' = HasLeft(x)
      BY <1>1, <1>6, <2>1, <2>4 DEF HasLeft
    <3>2. x \in v10 => x \in v10'
      BY <1>1
    <3> QED BY <1>1, <2>0, <2>2, <3>1, <3>2 DEF SendsFit
  <2> QED BY <2>3, <2>4
<1>10. OneToken'
  BY <1>1, <1>4, <1>5 DEF OutInv, OneToken
<1> QED BY <1>1, <1>7, <1>8, <1>9, <1>10 DEF OutInv, Out!BouncesSuppress

LEMMA OutStep ==
  ASSUME OutInv, Out!MailConstants, [Out!OutboundNext]_(Out!outboundVars)
  PROVE  OutInv'
<1>1. CASE UNCHANGED Out!outboundVars
  BY <1>1 DEF OutInv, OutShape, HandlerFits, RowIsHeld, SendsFit, HasLeft, OneToken,
              Out!BouncesSuppress, Out!outboundVars
<1>2. CASE Out!ApplyDeliveryEvent
  <2>1. UNCHANGED <<v1, v2, v3, v4, v5, v6, v9, v10, v12>>
    BY <1>2 DEF Out!ApplyDeliveryEvent
  <2>2. Out!BouncesSuppress'
    <3>1. PICK e \in MailRows, n \in 1..MaxSends :
            /\ v8' = v8 \cup {<<e, n>>}
            /\ (v7' = TRUE /\ UNCHANGED v11) \/ (v11' = v11 \cup {<<e, n>>} /\ UNCHANGED v7)
      BY <1>2 DEF Out!ApplyDeliveryEvent
    <3> QED BY <3>1 DEF OutInv, Out!BouncesSuppress
  <2> QED BY <2>1, <2>2 DEF OutInv, OutShape, HandlerFits, RowIsHeld, SendsFit, HasLeft, OneToken
<1>3. ASSUME NEW t \in Requests,
             Out!HandleOutbox(t) \/ Out!DrawToken(t) \/ Out!InsertOutbound(t) \/ Out!Send(t)
               \/ Out!CommitMail(t) \/ Out!AbortMail(t)
      PROVE  OutInv'
  BY <1>3, HandleOutboxKeeps, DrawTokenKeeps, InsertOutboundKeeps, SendKeeps, CommitMailKeeps, AbortMailKeeps
<1> QED BY <1>1, <1>2, <1>3 DEF Out!OutboundNext

LEMMA OutMeans ==
  ASSUME OutInv, Out!MailConstants
  PROVE  Out!MailOncePerEvent /\ Out!RepliesFindTheTicket /\ Out!BouncesSuppress
<1>1. Out!MailOncePerEvent
  <2> SUFFICES ASSUME NEW e \in MailRows, e \notin v10 PROVE Len(v6[e]) <= 1
    BY DEF Out!MailOncePerEvent
  <2>1. SendsFit(e)
    BY DEF OutInv
  <2>2. Len(v6[e]) \in Nat
    BY DEF OutInv, OutShape
  <2> QED BY <2>1, <2>2 DEF SendsFit
<1>2. Out!RepliesFindTheTicket
  BY DEF OutInv, OneToken, Out!RepliesFindTheTicket
<1> QED BY <1>1, <1>2 DEF OutInv

-----------------------------------------------------------------------------
(* Mail that comes in (Inb)                                                *)

Outcome == [disposition : {"suppressed", "appended", "quarantined", "created"}, ticket : 0..MaxTickets]
MailWork == [at : {"idle", "claimed", "matched", "deciding"}, msg : Nat, match : 0..MaxTickets, known : BOOLEAN]

InShape ==
  /\ v2 \in BOOLEAN /\ v12 \in BOOLEAN
  /\ v3 \subseteq Inb!Messages
  /\ v4 \in [Inb!Messages -> Requests \cup {None}]
  /\ v5 \in [Inb!Messages -> Outcome \cup {None}]
  /\ v6 \in 0..MaxTickets
  /\ v7 \in [Inb!Messages -> Nat]
  /\ v8 \in [Inb!Messages -> {None, "open", "decided"}]
  /\ v9 \in [Inb!Messages -> Requests \cup {None}]
  /\ v10 \in [Inb!Messages -> 0..MaxTickets]
  /\ v11 \in [Requests -> MailWork]

(* A transaction holds the claim of the message, or the item it decides.   *)
WorkFits(t) ==
  /\ v11[t].at = "idle" => v11[t] = Inb!Free
  /\ v11[t].at # "idle" => v11[t].msg \in Inb!Messages
  /\ v11[t].at \in {"claimed", "matched"} => v4[v11[t].msg] = t
  /\ v11[t].at = "deciding" => v9[v11[t].msg] = t

(* A received message has the rows of its disposition, and nothing before. *)
MessageFits(m) ==
  /\ m \in v3 <=> v5[m] # None
  /\ v5[m] = None => v7[m] = 0 /\ v8[m] = None
  /\ v5[m] # None =>
       /\ v7[m] = IF v5[m].disposition = "appended" THEN 1 ELSE 0
       /\ v8[m] # None <=> v5[m].disposition = "quarantined"
       /\ v5[m].disposition \in {"appended", "created"} => v5[m].ticket # 0
  /\ v10[m] # 0 => v8[m] = "decided"
  /\ v4[m] # None => /\ v5[m] = None /\ v11[v4[m]].msg = m
                     /\ v11[v4[m]].at \in {"claimed", "matched"}
  /\ v9[m] # None => /\ v8[m] = "open" /\ v11[v9[m]].msg = m
                     /\ v11[v9[m]].at = "deciding"

MadeTicket == {m \in Inb!Messages : v10[m] # 0 \/ (v5[m] # None /\ v5[m].disposition = "created")}

(* A conversation in order: who has matched a message saw all before it, so *)
(* it found the ticket if there is one.                                    *)
OneThread ==
  \/ v12
  \/ \E m \in Inb!Messages : v8[m] # None
  \/ /\ v6 <= 1
     /\ \A m \in Inb!Messages : v5[m] # None =>
          v5[m].ticket \in {0, 1} /\ \A n \in 1..(m - 1) : v5[n] # None
     /\ \A t \in Requests : v11[t].at = "matched" =>
          /\ v11[t].match \in {0, 1}
          /\ \A n \in 1..(v11[t].msg - 1) : v5[n] # None /\ (v11[t].match = 0 => v5[n].ticket = 0)

InbInv ==
  /\ InShape
  /\ \A t \in Requests : WorkFits(t)
  /\ \A m \in Inb!Messages : MessageFits(m)
  /\ v6 = Cardinality(MadeTicket)
  /\ OneThread

LEMMA NoneIsNoOutcome ==
  ASSUME Inb!MailConstants
  PROVE  /\ None \notin Outcome /\ None \notin Requests /\ None # "open" /\ None # "decided"
         /\ MaxMessages \in Nat /\ MaxTickets \in Nat
<1>1. ASSUME NEW r \in Outcome PROVE r # None
  <2>1. /\ r = [disposition |-> r.disposition, ticket |-> r.ticket] /\ r.ticket \in 0..MaxTickets
        /\ r.disposition \in {"suppressed", "appended", "quarantined", "created"}
    BY DEF Outcome
  <2> QED BY <2>1 DEF Inb!MailConstants
<1> QED BY <1>1 DEF Inb!MailConstants

LEMMA FreeIsWork == ASSUME Inb!MailConstants PROVE Inb!Free \in MailWork /\ Inb!Free.at = "idle"
BY DEF Inb!Free, Inb!NoTicket, MailWork, Inb!MailConstants

LEMMA InbStarts ==
  ASSUME Inb!InboundInit, Inb!MailConstants
  PROVE  InbInv
<1> USE NoneIsNoOutcome, FreeIsWork
<1>1. /\ v2 \in BOOLEAN /\ v3 = {} /\ v12 = FALSE /\ v6 = 0
      /\ v4 = [m \in Inb!Messages |-> None] /\ v5 = [m \in Inb!Messages |-> None]
      /\ v7 = [m \in Inb!Messages |-> 0] /\ v8 = [m \in Inb!Messages |-> None]
      /\ v9 = [m \in Inb!Messages |-> None] /\ v10 = [m \in Inb!Messages |-> 0]
      /\ v11 = [t \in Requests |-> Inb!Free]
  BY DEF Inb!InboundInit, Inb!NoTicket
<1>2. InShape
  <2>1. v4 \in [Inb!Messages -> Requests \cup {None}] /\ v9 \in [Inb!Messages -> Requests \cup {None}]
    BY <1>1
  <2>2. v5 \in [Inb!Messages -> Outcome \cup {None}] /\ v7 \in [Inb!Messages -> Nat]
    BY <1>1
  <2>3. v8 \in [Inb!Messages -> {None, "open", "decided"}] /\ v10 \in [Inb!Messages -> 0..MaxTickets]
    BY <1>1
  <2>4. v11 \in [Requests -> MailWork] /\ v6 \in 0..MaxTickets
    BY <1>1
  <2> QED BY <1>1, <2>1, <2>2, <2>3, <2>4 DEF InShape
<1>3. \A t \in Requests : WorkFits(t)
  BY <1>1 DEF WorkFits
<1>4. \A m \in Inb!Messages : MessageFits(m)
  BY <1>1 DEF MessageFits
<1>5. MadeTicket = {}
  BY <1>1 DEF MadeTicket
<1>6. v6 = Cardinality(MadeTicket)
  BY <1>1, <1>5, FS_EmptySet
<1>7. OneThread
  BY <1>1 DEF OneThread
<1> QED BY <1>2, <1>3, <1>4, <1>6, <1>7 DEF InbInv

LEMMA LargestMessage ==
  ASSUME NEW m \in Nat, NEW S, S \subseteq 1..(m - 1), S # {}
  PROVE  Inb!Max(S) \in S
<1> DEFINE T == {m - x : x \in S}
<1>1. T \subseteq Nat /\ T # {}
  <2>1. \A x \in S : x \in 1..(m - 1)
    OBVIOUS
  <2>2. \A x \in S : m - x \in Nat
    BY <2>1
  <2> QED BY <2>2
<1>2. PICK y \in T : \A z \in T : y <= z
  BY <1>1, LeastNumber
<1>3. PICK x \in S : y = m - x
  OBVIOUS
<1>4. \A z \in S : x >= z
  <2> SUFFICES ASSUME NEW z \in S PROVE x >= z
    OBVIOUS
  <2>1. m - x <= m - z
    BY <1>2, <1>3
  <2> QED BY <2>1
<1> QED BY <1>4 DEF Inb!Max

LEMMA ClaimInboxKeeps ==
  ASSUME InbInv, Inb!MailConstants, NEW t \in Requests, Inb!ClaimInbox(t)
  PROVE  InbInv'
<1> USE NoneIsNoOutcome, FreeIsWork
<1> DEFINE r(m) == [Inb!Free EXCEPT !.at = "claimed", !.msg = m]
<1>1. PICK m \in Inb!Messages :
        /\ m \notin v3 /\ v4[m] = None
        /\ v4' = [v4 EXCEPT ![m] = t]
        /\ v11' = [v11 EXCEPT ![t] = r(m)]
  BY Zenon DEF Inb!ClaimInbox, Inb!Claimable
<1>2. UNCHANGED <<v1, v2, v3, v5, v6, v7, v8, v9, v10, v12>> /\ v11[t] = Inb!Free
  BY DEF Inb!ClaimInbox
<1>3. r(m) \in MailWork /\ r(m).at = "claimed" /\ r(m).msg = m
  <2>1. m \in Nat
    BY DEF Inb!Messages
  <2> QED BY <2>1 DEF MailWork, Inb!Free, Inb!NoTicket
<1>4. v11' \in [Requests -> MailWork] /\ v11'[t] = r(m) /\ \A u \in Requests \ {t} : v11'[u] = v11[u]
  BY <1>1, <1>3 DEF InbInv, InShape
<1>5. /\ v4' \in [Inb!Messages -> Requests \cup {None}]
      /\ \A n \in Inb!Messages : v4'[n] = IF n = m THEN t ELSE v4[n]
  BY <1>1 DEF InbInv, InShape
<1> HIDE DEF r
<1>6. InShape'
  BY <1>2, <1>4, <1>5 DEF InbInv, InShape, Inb!Messages
<1>7. ASSUME NEW u \in Requests PROVE WorkFits(u)'
  <2>1. WorkFits(u)
    BY DEF InbInv
  <2>2. CASE u = t
    BY <1>3, <1>4, <1>5, <2>2 DEF WorkFits, Inb!Messages
  <2>3. CASE u # t
    <3>1. v11'[u] = v11[u]
      BY <1>4, <2>3
    <3>2. v11[u].at \in {"claimed", "matched"} => v11[u].msg # m
      BY <1>1, <2>1 DEF WorkFits
    <3> QED BY <1>2, <1>5, <2>1, <3>1, <3>2 DEF WorkFits, Inb!Messages
  <2> QED BY <2>2, <2>3
<1>8. ASSUME NEW n \in Inb!Messages PROVE MessageFits(n)'
  <2>1. MessageFits(n)
    BY DEF InbInv
  <2>2. v4[n] # t /\ v9[n] # t
    BY <1>2, <2>1 DEF MessageFits
  <2>3. v9[n] # None => v11'[v9[n]] = v11[v9[n]]
    BY <1>4, <2>2 DEF InbInv, InShape
  <2>4. CASE n = m
    BY <1>1, <1>2, <1>3, <1>4, <1>5, <2>1, <2>3, <2>4 DEF MessageFits
  <2>5. CASE n # m
    <3>1. v4'[n] = v4[n] /\ (v4[n] # None => v11'[v4[n]] = v11[v4[n]])
      BY <1>4, <1>5, <2>2, <2>5 DEF InbInv, InShape
    <3> QED BY <1>2, <2>1, <2>3, <3>1 DEF MessageFits
  <2> QED BY <2>4, <2>5
<1>9. (v6 = Cardinality(MadeTicket))'
  BY <1>2 DEF InbInv, MadeTicket, Inb!Messages
<1>10. OneThread'
  BY <1>2, <1>3, <1>4 DEF InbInv, OneThread, Inb!Messages
<1> QED BY <1>6, <1>7, <1>8, <1>9, <1>10 DEF InbInv, Inb!Messages

LEMMA FoundTicket ==
  ASSUME InbInv, Inb!MailConstants, NEW m \in Inb!Messages
  PROVE  /\ Inb!TicketByMessageId(m) \in 0..MaxTickets
         /\ Inb!TicketByMessageId(m) = 0 =>
              \A n \in 1..(m - 1) : v5[n] # None => v5[n].ticket = 0
         /\ Inb!TicketByMessageId(m) # 0 =>
              \E n \in 1..(m - 1) : v5[n] # None /\ v5[n].ticket = Inb!TicketByMessageId(m)
<1> USE NoneIsNoOutcome
<1>0. m \in Nat /\ 1..(m - 1) \subseteq Inb!Messages
  BY DEF Inb!Messages
<1> DEFINE S == Inb!Threaded(m)
<1>1. S = {n \in 1..(m - 1) : v5[n] # None /\ v5[n].ticket # 0}
  BY DEF Inb!Threaded, Inb!NoTicket
<1>2. CASE S = {}
  <2>1. Inb!TicketByMessageId(m) = 0
    BY <1>2 DEF Inb!TicketByMessageId, Inb!NoTicket
  <2> QED BY <1>1, <1>2, <2>1
<1>3. CASE S # {}
  <2>1. Inb!Max(S) \in S
    BY <1>0, <1>1, <1>3, LargestMessage
  <2>2. Inb!TicketByMessageId(m) = v5[Inb!Max(S)].ticket
    BY <1>3 DEF Inb!TicketByMessageId
  <2>3. PICK k \in 1..(m - 1) : k = Inb!Max(S) /\ v5[k] # None /\ v5[k].ticket # 0
    BY <1>1, <2>1
  <2>4. v5[k] \in Outcome
    BY <1>0, <2>3 DEF InbInv, InShape
  <2>5. v5[k].ticket \in 0..MaxTickets
    BY <2>4 DEF Outcome
  <2> QED BY <2>2, <2>3, <2>5
<1> QED BY <1>2, <1>3

LEMMA MatchThreadKeeps ==
  ASSUME InbInv, Inb!MailConstants, NEW t \in Requests, Inb!MatchThread(t)
  PROVE  InbInv'
<1> USE NoneIsNoOutcome, FreeIsWork
<1> DEFINE m == v11[t].msg
           found == Inb!TicketByMessageId(m)
<1>1. /\ v11[t].at = "claimed"
      /\ v11' = [v11 EXCEPT ![t].at = "matched", ![t].match = found, ![t].known = v2]
      /\ v12' = (v12 \/ \E n \in 1..(m - 1) : v5[n] = None)
      /\ UNCHANGED <<v1, v2, v3, v4, v5, v6, v7, v8, v9, v10>>
  BY DEF Inb!MatchThread
<1>2. v11 \in [Requests -> MailWork] /\ m \in Inb!Messages /\ v4[m] = t /\ v2 \in BOOLEAN
  BY <1>1 DEF InbInv, InShape, WorkFits
<1>3. found \in 0..MaxTickets
  BY <1>2, FoundTicket
<1>4. PICK q : q = [v11[t] EXCEPT !.at = "matched", !.match = found, !.known = v2]
  OBVIOUS
<1>5. q \in MailWork /\ q.at = "matched" /\ q.match = found /\ q.msg = m
  <2>1. q = [at |-> "matched", msg |-> m, match |-> found, known |-> v2] /\ m \in Nat
    BY <1>2, <1>4 DEF MailWork
  <2> QED BY <1>2, <1>3, <2>1 DEF MailWork
<1>6. v11' = [v11 EXCEPT ![t] = q]
  BY <1>1, <1>2, <1>4
<1>7. v11' \in [Requests -> MailWork] /\ v11'[t] = q /\ \A u \in Requests \ {t} : v11'[u] = v11[u]
  BY <1>2, <1>5, <1>6
<1> HIDE DEF m, found
<1>8. v12' \in BOOLEAN
  BY <1>1 DEF InbInv, InShape
<1>9. InShape'
  BY <1>1, <1>7, <1>8 DEF InbInv, InShape, Inb!Messages
<1>10. ASSUME NEW u \in Requests PROVE WorkFits(u)'
  <2>1. WorkFits(u)
    BY DEF InbInv
  <2> QED BY <1>1, <1>2, <1>5, <1>7, <2>1 DEF WorkFits, Inb!Messages
<1>11. ASSUME NEW n \in Inb!Messages PROVE MessageFits(n)'
  <2>1. MessageFits(n) /\ v4[n] \in Requests \cup {None} /\ v9[n] \in Requests \cup {None}
    BY DEF InbInv, InShape
  <2>2. v4[n] # None => v11'[v4[n]].msg = n /\ v11'[v4[n]].at \in {"claimed", "matched"}
    BY <1>5, <1>7, <2>1 DEF MessageFits, m
  <2>3. v9[n] # None => v11'[v9[n]].msg = n /\ v11'[v9[n]].at = "deciding"
    BY <1>1, <1>7, <2>1 DEF MessageFits
  <2> QED BY <1>1, <2>1, <2>2, <2>3 DEF MessageFits
<1>12. (v6 = Cardinality(MadeTicket))'
  BY <1>1 DEF InbInv, MadeTicket, Inb!Messages
<1>13. OneThread'
  <2> SUFFICES ASSUME ~v12', ~\E k \in Inb!Messages : v8[k] # None
               PROVE  OneThread'
    BY <1>1 DEF OneThread, Inb!Messages
  <2>1. ~v12 /\ \A n \in 1..(m - 1) : v5[n] # None
    BY <1>1, <1>8
  <2>2. /\ v6 <= 1
        /\ \A k \in Inb!Messages : v5[k] # None => v5[k].ticket \in {0, 1} /\ \A n \in 1..(k - 1) : v5[n] # None
        /\ \A u \in Requests : v11[u].at = "matched" =>
             /\ v11[u].match \in {0, 1}
             /\ \A n \in 1..(v11[u].msg - 1) : v5[n] # None /\ (v11[u].match = 0 => v5[n].ticket = 0)
    BY <2>1 DEF InbInv, OneThread
  <2>3. found \in {0, 1} /\ \A n \in 1..(m - 1) : found = 0 => v5[n].ticket = 0
    <3>1. 1..(m - 1) \subseteq Inb!Messages
      BY <1>2 DEF Inb!Messages
    <3> QED BY <1>2, <2>1, <2>2, <3>1, FoundTicket DEF found
  <2>4. \A u \in Requests : v11'[u].at = "matched" =>
             /\ v11'[u].match \in {0, 1}
             /\ \A n \in 1..(v11'[u].msg - 1) : v5[n] # None /\ (v11'[u].match = 0 => v5[n].ticket = 0)
    BY <1>5, <1>7, <2>1, <2>2, <2>3
  <2> QED BY <1>1, <2>2, <2>4 DEF OneThread, Inb!Messages
<1> QED BY <1>9, <1>10, <1>11, <1>12, <1>13 DEF InbInv, Inb!Messages

LEMMA CommitInboundKeeps ==
  ASSUME InbInv, Inb!MailConstants, NEW t \in Requests, Inb!CommitInbound(t)
  PROVE  InbInv'
<1> USE NoneIsNoOutcome, FreeIsWork
<1> DEFINE m == v11[t].msg
           what == Inb!Disposition(v11[t])
           row == [disposition |-> what, ticket |-> IF what = "created" THEN v6 + 1 ELSE v11[t].match]
<1>1. /\ v11[t].at = "matched"
      /\ what = "created" => v6 < MaxTickets
      /\ v3' = v3 \cup {m}
      /\ v4' = [v4 EXCEPT ![m] = None]
      /\ v6' = v6 + (IF what = "created" THEN 1 ELSE 0)
      /\ v5' = [v5 EXCEPT ![m] = row]
      /\ v7' = [v7 EXCEPT ![m] = @ + (IF what = "appended" THEN 1 ELSE 0)]
      /\ v8' = IF what = "quarantined" THEN [v8 EXCEPT ![m] = "open"] ELSE v8
      /\ v11' = [v11 EXCEPT ![t] = Inb!Free]
      /\ UNCHANGED <<v1, v2, v9, v10, v12>>
  BY DEF Inb!CommitInbound
<1>2. /\ v11 \in [Requests -> MailWork] /\ m \in Inb!Messages /\ v4[m] = t /\ v6 \in 0..MaxTickets
      /\ v11[t].match \in 0..MaxTickets
  BY <1>1 DEF InbInv, InShape, WorkFits, MailWork
<1>3. v5[m] = None /\ v7[m] = 0 /\ v8[m] = None /\ v10[m] = 0 /\ v9[m] = None /\ MessageFits(m)
  <2>1. MessageFits(m) /\ v10[m] \in 0..MaxTickets
    BY <1>2 DEF InbInv, InShape
  <2> QED BY <1>2, <2>1 DEF MessageFits
<1>4. /\ what \in {"suppressed", "appended", "quarantined", "created"}
      /\ what = "appended" => v11[t].match # 0
      /\ what = "created" => v11[t].match = 0
  BY DEF Inb!Disposition, Inb!NoTicket
<1>5. row \in Outcome /\ row.disposition = what /\ (what \in {"appended", "created"} => row.ticket # 0)
  BY <1>1, <1>2, <1>4 DEF Outcome
<1>6. v6' \in 0..MaxTickets
  BY <1>1, <1>2
<1>7. v11' \in [Requests -> MailWork] /\ v11'[t] = Inb!Free /\ \A u \in Requests \ {t} : v11'[u] = v11[u]
  BY <1>1, <1>2
<1>8. /\ v4' \in [Inb!Messages -> Requests \cup {None}] /\ v5' \in [Inb!Messages -> Outcome \cup {None}]
      /\ v8' \in [Inb!Messages -> {None, "open", "decided"}]
      /\ v4'[m] = None /\ v5'[m] = row /\ (v8'[m] = IF what = "quarantined" THEN "open" ELSE None)
      /\ \A n \in Inb!Messages \ {m} : v4'[n] = v4[n] /\ v5'[n] = v5[n] /\ v8'[n] = v8[n]
  BY <1>1, <1>2, <1>3, <1>5 DEF InbInv, InShape
<1>9. /\ v7' \in [Inb!Messages -> Nat] /\ (v7'[m] = IF what = "appended" THEN 1 ELSE 0)
      /\ \A n \in Inb!Messages \ {m} : v7'[n] = v7[n]
  BY <1>1, <1>2, <1>3 DEF InbInv, InShape
<1>10. InShape'
  <2>1. v3' \subseteq Inb!Messages
    BY <1>1, <1>2 DEF InbInv, InShape
  <2> QED BY <1>1, <1>6, <1>7, <1>8, <1>9, <2>1 DEF InbInv, InShape, Inb!Messages
<1>11. ASSUME NEW u \in Requests PROVE WorkFits(u)'
  <2>1. WorkFits(u)
    BY DEF InbInv
  <2>2. CASE u = t
    BY <1>7, <2>2 DEF WorkFits
  <2>3. CASE u # t
    <3>1. v11'[u] = v11[u]
      BY <1>7, <2>3
    <3>2. v11[u].at \in {"claimed", "matched"} => v11[u].msg # m /\ v11[u].msg \in Inb!Messages
      BY <1>2, <2>1, <2>3 DEF WorkFits
    <3> QED BY <1>1, <1>8, <2>1, <3>1, <3>2 DEF WorkFits, Inb!Messages
  <2> QED BY <2>2, <2>3
<1>12. ASSUME NEW n \in Inb!Messages PROVE MessageFits(n)'
  <2>1. MessageFits(n) /\ v4[n] \in Requests \cup {None} /\ v9[n] \in Requests \cup {None}
    BY DEF InbInv, InShape
  <2>2. CASE n = m
    BY <1>1, <1>3, <1>4, <1>5, <1>8, <1>9, <2>2 DEF MessageFits
  <2>3. CASE n # m
    <3>1. /\ v4'[n] = v4[n] /\ v5'[n] = v5[n] /\ v8'[n] = v8[n] /\ v7'[n] = v7[n]
          /\ n \in v3' <=> n \in v3
      BY <1>1, <1>8, <1>9, <2>3
    <3>2. v4[n] # t /\ v9[n] # t
      BY <1>1, <2>1, <2>3 DEF MessageFits
    <3>3. /\ v4[n] # None => v11'[v4[n]] = v11[v4[n]]
          /\ v9[n] # None => v11'[v9[n]] = v11[v9[n]]
      BY <1>7, <2>1, <3>2
    <3> QED BY <1>1, <2>1, <3>1, <3>3 DEF MessageFits
  <2> QED BY <2>2, <2>3
<1> HIDE DEF m, what, row
<1>13. IF what = "created" THEN MadeTicket' = MadeTicket \cup {m} /\ m \notin MadeTicket
                           ELSE MadeTicket' = MadeTicket
  <2>1. m \notin MadeTicket
    BY <1>3 DEF MadeTicket
  <2>2. m \in MadeTicket' <=> what = "created"
    BY <1>1, <1>2, <1>3, <1>5, <1>8 DEF MadeTicket, Inb!Messages
  <2>3. \A n \in Inb!Messages \ {m} : n \in MadeTicket' <=> n \in MadeTicket
    BY <1>1, <1>8 DEF MadeTicket, Inb!Messages
  <2>4. MadeTicket \subseteq Inb!Messages /\ MadeTicket' \subseteq Inb!Messages
    BY DEF MadeTicket, Inb!Messages
  <2> QED BY <1>2, <2>1, <2>2, <2>3, <2>4
<1>14. IsFiniteSet(MadeTicket)
  <2>1. IsFiniteSet(1..MaxMessages)
    BY FS_Interval
  <2> QED BY <2>1, FS_Subset DEF MadeTicket, Inb!Messages
<1>15. (v6 = Cardinality(MadeTicket))'
  BY <1>1, <1>2, <1>13, <1>14, FS_AddElement DEF InbInv
<1>16. OneThread'
  <2> SUFFICES ASSUME ~v12, \A k \in Inb!Messages : v8'[k] = None
               PROVE  OneThread'
    BY <1>1 DEF OneThread, Inb!Messages
  <2>0. what # "quarantined"
    BY <1>2, <1>8
  <2>1. \A k \in Inb!Messages : v8[k] = None
    BY <1>3, <1>8
  <2>2. /\ v6 <= 1
        /\ \A k \in Inb!Messages : v5[k] # None => v5[k].ticket \in {0, 1} /\ \A n \in 1..(k - 1) : v5[n] # None
        /\ \A u \in Requests : v11[u].at = "matched" =>
             /\ v11[u].match \in {0, 1}
             /\ \A n \in 1..(v11[u].msg - 1) : v5[n] # None /\ (v11[u].match = 0 => v5[n].ticket = 0)
    BY <2>1 DEF InbInv, OneThread
  <2>3. \A n \in 1..(m - 1) : v5[n] # None /\ (v11[t].match = 0 => v5[n].ticket = 0)
    BY <1>1, <2>2 DEF m
  <2>4. \A k \in Inb!Messages : k > m => v5[k] = None
    <3> SUFFICES ASSUME NEW k \in Inb!Messages, k > m, v5[k] # None
                 PROVE  FALSE
      OBVIOUS
    <3>1. m \in 1..(k - 1)
      BY <1>2 DEF Inb!Messages
    <3> QED BY <1>3, <2>2, <3>1
  <2>5. what = "created" => v6 = 0
    <3> SUFFICES ASSUME what = "created" PROVE v6 = 0
      OBVIOUS
    <3>1. \A k \in Inb!Messages : k \notin MadeTicket
      <4> SUFFICES ASSUME NEW k \in Inb!Messages, k \in MadeTicket
                   PROVE  FALSE
        OBVIOUS
      <4>1. MessageFits(k)
        BY DEF InbInv
      <4>2. v5[k] # None /\ v5[k].ticket # 0
        BY <2>1, <4>1 DEF MadeTicket, MessageFits
      <4>3. k < m
        BY <1>2, <1>3, <2>4, <4>2 DEF Inb!Messages
      <4>4. k \in 1..(m - 1)
        BY <1>2, <4>3 DEF Inb!Messages
      <4> QED BY <1>4, <2>3, <4>2, <4>4
    <3>2. MadeTicket = {}
      BY <3>1 DEF MadeTicket
    <3> QED BY <3>2, FS_EmptySet DEF InbInv
  <2>6. v6' <= 1 /\ row.ticket \in {0, 1}
    <3>1. v11[t].match \in {0, 1}
      BY <1>1, <2>2
    <3>2. row.ticket = IF what = "created" THEN v6 + 1 ELSE v11[t].match
      BY DEF row
    <3> QED BY <1>1, <1>2, <2>2, <2>5, <3>1, <3>2
  <2>7. ASSUME NEW k \in Inb!Messages, v5'[k] # None
        PROVE  v5'[k].ticket \in {0, 1} /\ \A n \in 1..(k - 1) : v5'[n] # None
    <3>1. 1..(k - 1) \subseteq Inb!Messages
      BY DEF Inb!Messages
    <3>2. row # None
      BY <1>5
    <3>3. \A n \in 1..(k - 1) : v5[n] # None => v5'[n] # None
      BY <1>8, <3>1, <3>2
    <3>4. CASE k = m
      BY <1>8, <2>3, <2>6, <3>3, <3>4
    <3>5. CASE k # m
      BY <1>8, <2>2, <2>7, <3>3, <3>5
    <3> QED BY <3>4, <3>5
  <2>8. ASSUME NEW u \in Requests, v11'[u].at = "matched"
        PROVE  /\ v11'[u].match \in {0, 1}
               /\ \A n \in 1..(v11'[u].msg - 1) : v5'[n] # None /\ (v11'[u].match = 0 => v5'[n].ticket = 0)
    <3>1. u # t /\ v11'[u] = v11[u] /\ v11[u].at = "matched"
      BY <1>7, <2>8
    <3>2. v11[u].msg \in Inb!Messages /\ v4[v11[u].msg] = u
      BY <3>1 DEF InbInv, WorkFits
    <3>3. v5[v11[u].msg] = None /\ v11[u].msg # m
      BY <1>2, <3>1, <3>2 DEF InbInv, MessageFits
    <3>4. v11[u].msg < m
      <4>1. ~(m \in 1..(v11[u].msg - 1))
        BY <1>3, <2>2, <3>1
      <4> QED BY <1>2, <3>2, <3>3, <4>1 DEF Inb!Messages
    <3>5. v11[u].msg \in 1..(m - 1)
      BY <1>2, <3>2, <3>4 DEF Inb!Messages
    <3> QED BY <2>3, <3>3, <3>5
  <2> QED BY <2>6, <2>7, <2>8 DEF OneThread, Inb!Messages
<1> QED BY <1>10, <1>11, <1>12, <1>15, <1>16 DEF InbInv, Inb!Messages

LEMMA OpenItemKeeps ==
  ASSUME InbInv, Inb!MailConstants, NEW t \in Requests, Inb!OpenItem(t)
  PROVE  InbInv'
<1> USE NoneIsNoOutcome, FreeIsWork
<1> DEFINE r(m) == [Inb!Free EXCEPT !.at = "deciding", !.msg = m]
<1>1. PICK m \in Inb!Messages :
        /\ v8[m] = "open" /\ v9[m] = None
        /\ v9' = [v9 EXCEPT ![m] = t]
        /\ v11' = [v11 EXCEPT ![t] = r(m)]
  BY Zenon DEF Inb!OpenItem, Inb!Undecided
<1>2. UNCHANGED <<v1, v2, v3, v4, v5, v6, v7, v8, v10, v12>> /\ v11[t] = Inb!Free
  BY DEF Inb!OpenItem
<1>3. r(m) \in MailWork /\ r(m).at = "deciding" /\ r(m).msg = m
  <2>1. m \in Nat
    BY DEF Inb!Messages
  <2> QED BY <2>1 DEF MailWork, Inb!Free, Inb!NoTicket
<1>4. v11' \in [Requests -> MailWork] /\ v11'[t] = r(m) /\ \A u \in Requests \ {t} : v11'[u] = v11[u]
  BY <1>1, <1>3 DEF InbInv, InShape
<1>5. /\ v9' \in [Inb!Messages -> Requests \cup {None}]
      /\ \A n \in Inb!Messages : v9'[n] = IF n = m THEN t ELSE v9[n]
  BY <1>1 DEF InbInv, InShape
<1> HIDE DEF r
<1>6. InShape'
  BY <1>2, <1>4, <1>5 DEF InbInv, InShape, Inb!Messages
<1>7. ASSUME NEW u \in Requests PROVE WorkFits(u)'
  <2>1. WorkFits(u)
    BY DEF InbInv
  <2>2. CASE u = t
    BY <1>3, <1>4, <1>5, <2>2 DEF WorkFits, Inb!Messages
  <2>3. CASE u # t
    <3>1. v11'[u] = v11[u]
      BY <1>4, <2>3
    <3>2. v11[u].at = "deciding" => v11[u].msg # m
      BY <1>1, <2>1 DEF WorkFits
    <3> QED BY <1>2, <1>5, <2>1, <3>1, <3>2 DEF WorkFits, Inb!Messages
  <2> QED BY <2>2, <2>3
<1>8. ASSUME NEW n \in Inb!Messages PROVE MessageFits(n)'
  <2>1. MessageFits(n)
    BY DEF InbInv
  <2>2. v4[n] # t /\ v9[n] # t
    BY <1>2, <2>1 DEF MessageFits
  <2>3. v4[n] # None => v11'[v4[n]] = v11[v4[n]]
    BY <1>4, <2>2 DEF InbInv, InShape
  <2>4. CASE n = m
    BY <1>1, <1>2, <1>3, <1>4, <1>5, <2>1, <2>3, <2>4 DEF MessageFits
  <2>5. CASE n # m
    <3>1. v9'[n] = v9[n] /\ (v9[n] # None => v11'[v9[n]] = v11[v9[n]])
      BY <1>4, <1>5, <2>2, <2>5 DEF InbInv, InShape
    <3> QED BY <1>2, <2>1, <2>3, <3>1 DEF MessageFits
  <2> QED BY <2>4, <2>5
<1>9. (v6 = Cardinality(MadeTicket))'
  BY <1>2 DEF InbInv, MadeTicket, Inb!Messages
<1>10. OneThread'
  BY <1>2, <1>3, <1>4 DEF InbInv, OneThread, Inb!Messages
<1> QED BY <1>6, <1>7, <1>8, <1>9, <1>10 DEF InbInv, Inb!Messages

LEMMA DecideKeeps ==
  ASSUME InbInv, Inb!MailConstants, NEW t \in Requests, Inb!Decide(t)
  PROVE  InbInv'
<1> USE NoneIsNoOutcome, FreeIsWork
<1> DEFINE m == v11[t].msg
<1>1. /\ v11[t].at = "deciding"
      /\ \/ /\ v6 < MaxTickets /\ v6' = v6 + 1 /\ v2' = TRUE
            /\ v10' = [v10 EXCEPT ![m] = v6 + 1]
         \/ UNCHANGED <<v6, v10, v2>>
      /\ v8' = [v8 EXCEPT ![m] = "decided"]
      /\ v9' = [v9 EXCEPT ![m] = None]
      /\ v11' = [v11 EXCEPT ![t] = Inb!Free]
      /\ UNCHANGED <<v1, v3, v4, v5, v7, v12>>
  BY DEF Inb!Decide
<1>2. v11 \in [Requests -> MailWork] /\ m \in Inb!Messages /\ v9[m] = t /\ v6 \in 0..MaxTickets
  BY <1>1 DEF InbInv, InShape, WorkFits
<1>3. /\ v8[m] = "open" /\ v5[m] # None /\ v5[m].disposition = "quarantined" /\ v10[m] = 0 /\ v4[m] = None
      /\ MessageFits(m)
  <2>1. MessageFits(m) /\ v10[m] \in 0..MaxTickets
    BY <1>2 DEF InbInv, InShape
  <2> QED BY <1>2, <2>1 DEF MessageFits
<1>4. v11' \in [Requests -> MailWork] /\ v11'[t] = Inb!Free /\ \A u \in Requests \ {t} : v11'[u] = v11[u]
  BY <1>1, <1>2
<1>5. /\ v9' \in [Inb!Messages -> Requests \cup {None}] /\ v8' \in [Inb!Messages -> {None, "open", "decided"}]
      /\ v8'[m] = "decided" /\ v9'[m] = None
      /\ \A n \in Inb!Messages \ {m} : v8'[n] = v8[n] /\ v9'[n] = v9[n]
  BY <1>1, <1>2 DEF InbInv, InShape
<1>6. /\ v10' \in [Inb!Messages -> 0..MaxTickets] /\ v6' \in 0..MaxTickets
      /\ \A n \in Inb!Messages \ {m} : v10'[n] = v10[n]
      /\ v6' = v6 + (IF v10'[m] # 0 THEN 1 ELSE 0)
  <2>1. CASE v6 < MaxTickets /\ v6' = v6 + 1 /\ v10' = [v10 EXCEPT ![m] = v6 + 1]
    <3>1. v6 + 1 \in 0..MaxTickets /\ v6 + 1 # 0
      BY <1>2, <2>1
    <3> QED BY <1>2, <2>1, <3>1 DEF InbInv, InShape
  <2>2. CASE UNCHANGED <<v6, v10>>
    BY <1>2, <1>3, <2>2 DEF InbInv, InShape
  <2> QED BY <1>1, <2>1, <2>2
<1>7. v2' \in BOOLEAN
  BY <1>1 DEF InbInv, InShape
<1> HIDE DEF m
<1>8. InShape'
  BY <1>1, <1>4, <1>5, <1>6, <1>7 DEF InbInv, InShape, Inb!Messages
<1>9. ASSUME NEW u \in Requests PROVE WorkFits(u)'
  <2>1. WorkFits(u)
    BY DEF InbInv
  <2>2. CASE u = t
    BY <1>4, <2>2 DEF WorkFits
  <2>3. CASE u # t
    <3>1. v11'[u] = v11[u]
      BY <1>4, <2>3
    <3>2. v11[u].at = "deciding" => v11[u].msg # m /\ v11[u].msg \in Inb!Messages
      BY <1>2, <2>1, <2>3 DEF WorkFits
    <3> QED BY <1>1, <1>5, <2>1, <3>1, <3>2 DEF WorkFits, Inb!Messages
  <2> QED BY <2>2, <2>3
<1>10. ASSUME NEW n \in Inb!Messages PROVE MessageFits(n)'
  <2>1. MessageFits(n) /\ v4[n] \in Requests \cup {None} /\ v9[n] \in Requests \cup {None}
    BY DEF InbInv, InShape
  <2>2. CASE n = m
    BY <1>1, <1>3, <1>5, <2>2 DEF MessageFits
  <2>3. CASE n # m
    <3>1. v8'[n] = v8[n] /\ v9'[n] = v9[n] /\ v10'[n] = v10[n]
      BY <1>5, <1>6, <2>3
    <3>2. v4[n] # t /\ v9[n] # t
      BY <1>1, <2>1, <2>3 DEF MessageFits, m
    <3>3. /\ v4[n] # None => v11'[v4[n]] = v11[v4[n]]
          /\ v9[n] # None => v11'[v9[n]] = v11[v9[n]]
      BY <1>4, <2>1, <3>2
    <3> QED BY <1>1, <2>1, <3>1, <3>3 DEF MessageFits
  <2> QED BY <2>2, <2>3
<1>11. IF v10'[m] # 0 THEN MadeTicket' = MadeTicket \cup {m} /\ m \notin MadeTicket
                      ELSE MadeTicket' = MadeTicket
  <2>1. m \notin MadeTicket
    BY <1>3 DEF MadeTicket
  <2>2. m \in MadeTicket' <=> v10'[m] # 0
    BY <1>1, <1>2, <1>3 DEF MadeTicket, Inb!Messages
  <2>3. \A n \in Inb!Messages \ {m} : n \in MadeTicket' <=> n \in MadeTicket
    BY <1>1, <1>6 DEF MadeTicket, Inb!Messages
  <2>4. MadeTicket \subseteq Inb!Messages /\ MadeTicket' \subseteq Inb!Messages
    BY DEF MadeTicket, Inb!Messages
  <2> QED BY <1>2, <2>1, <2>2, <2>3, <2>4
<1>12. IsFiniteSet(MadeTicket)
  <2>1. IsFiniteSet(1..MaxMessages)
    BY FS_Interval
  <2> QED BY <2>1, FS_Subset DEF MadeTicket, Inb!Messages
<1>13. (v6 = Cardinality(MadeTicket))'
  BY <1>2, <1>6, <1>11, <1>12, FS_AddElement DEF InbInv
<1>14. OneThread'
  BY <1>2, <1>5 DEF OneThread, Inb!Messages
<1> QED BY <1>8, <1>9, <1>10, <1>13, <1>14 DEF InbInv, Inb!Messages

LEMMA AbortInboundKeeps ==
  ASSUME InbInv, Inb!MailConstants, NEW t \in Requests, Inb!AbortInbound(t)
  PROVE  InbInv'
<1> USE NoneIsNoOutcome, FreeIsWork
<1>1. /\ v4' = [m \in Inb!Messages |-> IF v4[m] = t THEN None ELSE v4[m]]
      /\ v9' = [m \in Inb!Messages |-> IF v9[m] = t THEN None ELSE v9[m]]
      /\ v11' = [v11 EXCEPT ![t] = Inb!Free]
      /\ UNCHANGED <<v1, v2, v3, v5, v6, v7, v8, v10, v12>>
  BY DEF Inb!AbortInbound
<1>2. v11' \in [Requests -> MailWork] /\ v11'[t] = Inb!Free /\ \A u \in Requests \ {t} : v11'[u] = v11[u]
  BY <1>1 DEF InbInv, InShape
<1>3. /\ v4' \in [Inb!Messages -> Requests \cup {None}] /\ v9' \in [Inb!Messages -> Requests \cup {None}]
      /\ \A m \in Inb!Messages : /\ v4'[m] = IF v4[m] = t THEN None ELSE v4[m]
                                 /\ v9'[m] = IF v9[m] = t THEN None ELSE v9[m]
  BY <1>1 DEF InbInv, InShape
<1>4. InShape'
  BY <1>1, <1>2, <1>3 DEF InbInv, InShape, Inb!Messages
<1>5. ASSUME NEW u \in Requests PROVE WorkFits(u)'
  <2>1. WorkFits(u)
    BY DEF InbInv
  <2> QED BY <1>1, <1>2, <1>3, <2>1 DEF WorkFits, Inb!Messages
<1>6. ASSUME NEW n \in Inb!Messages PROVE MessageFits(n)'
  <2>1. MessageFits(n) /\ v4[n] \in Requests \cup {None} /\ v9[n] \in Requests \cup {None}
    BY DEF InbInv, InShape
  <2>2. v4'[n] # None => v4'[n] = v4[n] /\ v11'[v4[n]] = v11[v4[n]]
    BY <1>2, <1>3, <2>1
  <2>3. v9'[n] # None => v9'[n] = v9[n] /\ v11'[v9[n]] = v11[v9[n]]
    BY <1>2, <1>3, <2>1
  <2> QED BY <1>1, <2>1, <2>2, <2>3 DEF MessageFits
<1>7. (v6 = Cardinality(MadeTicket))'
  BY <1>1 DEF InbInv, MadeTicket, Inb!Messages
<1>8. OneThread'
  BY <1>1, <1>2 DEF InbInv, OneThread, Inb!Messages
<1> QED BY <1>4, <1>5, <1>6, <1>7, <1>8 DEF InbInv, Inb!Messages

LEMMA InbStep ==
  ASSUME InbInv, Inb!MailConstants, [Inb!InboundNext]_(Inb!inboundVars)
  PROVE  InbInv'
<1>1. CASE UNCHANGED Inb!inboundVars
  BY <1>1 DEF InbInv, InShape, WorkFits, MessageFits, MadeTicket, OneThread, Inb!Messages, Inb!inboundVars
<1>2. ASSUME NEW t \in Requests,
             Inb!ClaimInbox(t) \/ Inb!MatchThread(t) \/ Inb!CommitInbound(t) \/ Inb!OpenItem(t)
               \/ Inb!Decide(t) \/ Inb!AbortInbound(t)
      PROVE  InbInv'
  BY <1>2, ClaimInboxKeeps, MatchThreadKeeps, CommitInboundKeeps, OpenItemKeeps, DecideKeeps, AbortInboundKeeps
<1> QED BY <1>1, <1>2 DEF Inb!InboundNext

LEMMA InbMeans ==
  ASSUME InbInv, Inb!MailConstants
  PROVE  Inb!OneOutcome /\ Inb!OneTicketPerThread
<1> USE NoneIsNoOutcome
<1>1. Inb!OneOutcome
  <2>1. ASSUME NEW m \in Inb!Messages
        PROVE  /\ (m \in v3) = (v5[m] # None)
               /\ v7[m] + (IF v5[m] # None /\ v5[m].disposition = "created" THEN 1 ELSE 0)
                    + (IF v8[m] # None THEN 1 ELSE 0) <= 1
    BY DEF InbInv, MessageFits
  <2>2. MadeTicket = {m \in Inb!Messages : v10[m] # Inb!NoTicket \/ (v5[m] # None /\ v5[m].disposition = "created")}
    BY DEF MadeTicket, Inb!NoTicket
  <2>3. v6 = Cardinality({m \in Inb!Messages :
              v10[m] # Inb!NoTicket \/ (v5[m] # None /\ v5[m].disposition = "created")})
    BY <2>2 DEF InbInv
  <2>4. v6 = Inb!Cardinality({m \in Inb!Messages :
              v10[m] # Inb!NoTicket \/ (v5[m] # None /\ v5[m].disposition = "created")})
    BY <2>3 DEF Cardinality, Inb!Cardinality
  <2> QED BY <2>1, <2>4 DEF Inb!OneOutcome
<1>2. Inb!OneTicketPerThread
  <2> SUFFICES ASSUME ~v12, ~\E m \in Inb!Messages : v8[m] # None
               PROVE  v6 <= 1 /\ \A m \in Inb!Messages :
                        v5[m] # None /\ v5[m].disposition = "appended" => v5[m].ticket = 1
    BY DEF InbInv, InShape, Inb!OneTicketPerThread
  <2> QED BY DEF InbInv, OneThread, MessageFits
<1> QED BY <1>1, <1>2

-----------------------------------------------------------------------------
(* Satisfaction surveys (Cs)                                               *)

SurveyRow == [status : {"none", "sent", "reminded", "answered", "expired", "suppressed"},
              sent : Nat, remindAt : Nat, expiresAt : Nat]
CsatWork == [op : {"idle", "create", "answer", "tick"},
             at : {"start", "decided", "inserted", "read", "responding", "locked"},
             row : SurveyRow, ids : SUBSET Cs!Surveys, done : SUBSET Cs!Surveys,
             mailed : SUBSET Cs!Surveys]

CsatShape ==
  /\ v1 \in [Cs!Surveys -> SurveyRow]
  /\ v2 \subseteq Cs!Surveys
  /\ v3 \in Nat /\ v3 <= MaxDay
  /\ v4 \subseteq Cs!Surveys
  /\ v5 \in [Requests -> CsatWork]
  /\ v6 \in [Cs!Surveys -> Nat]
  /\ v7 \in BOOLEAN

(* The contact has been asked.                                             *)
HasBeenAsked(s) == v1[s].status \notin {"none", "suppressed"}

(* The reminder a row waits for is one of its schedule.                    *)
OnSchedule(s, row) ==
  row.remindAt = Cs!Never \/ \E n \in RemindAfter[s] : row.remindAt = row.sent + n

(* The reminders of the schedule that come before the one it waits for.    *)
RemindersPast(s) == {n \in RemindAfter[s] : v1[s].sent + n < v1[s].remindAt}

(* A committed survey was mailed its prompt and the reminders past.        *)
SurveyFits(s) ==
  /\ v1[s].status = "answered" <=> s \in v2
  /\ v1[s].sent <= v3
  /\ OnSchedule(s, v1[s])
  /\ v6[s] <= IF v1[s].status = "none" THEN 0 ELSE 1 + Cardinality(RemindersPast(s))

(* Who has inserted a survey keeps others from inserting it.               *)
CreatorFits(r) ==
  r.op = "create" =>
    /\ \E s \in Cs!Surveys : r.ids = {s} /\ OnSchedule(s, r.row)
    /\ r.row.status \in {"sent", "suppressed"} /\ r.row.sent <= v3
    /\ r.at = "inserted" => \A s \in r.ids : v1[s].status = "none"
    /\ r.mailed \subseteq r.ids

AnswererFits(r) == r.op = "answer" => \A s \in r.ids : HasBeenAsked(s)

(* The surveys a tick holds stay open and due, and it reminds none it will *)
(* mark as expired.                                                        *)
TickFits(r) ==
  r.op = "tick" =>
    /\ r.row.sent <= v3 /\ r.mailed \subseteq r.ids
    /\ \A s \in r.ids : /\ v1[s].status \in Cs!Open
                        /\ v1[s].remindAt <= r.row.sent \/ v1[s].expiresAt <= r.row.sent
    /\ \A s \in r.mailed : ~(v1[s].expiresAt <= r.row.sent)

SurveyWorkFits(r) == CreatorFits(r) /\ AnswererFits(r) /\ TickFits(r)

(* What the unique indexes and the row locks keep apart.                   *)
WorkApart(r, x) ==
  /\ r.op = "create" /\ r.at = "inserted" /\ x.op = "create" /\ x.at = "inserted" => r.ids \cap x.ids = {}
  /\ r.op = "tick" /\ (x.op = "tick" \/ (x.op = "answer" /\ x.at = "responding")) => r.ids \cap x.ids = {}

(* While no two handlers overlapped, whoever is about to ask for a ticket   *)
(* does so on a day on which nobody was asked.                             *)
CapFits ==
  v7 \/
    /\ \A t, u \in Requests : v5[t].op = "create" /\ v5[u].op = "create" => t = u
    /\ \A t \in Requests : v5[t].op = "create" /\ v5[t].row.status = "sent" /\ Quarter \notin v5[t].ids =>
         \A k \in Cs!Surveys : HasBeenAsked(k) => v1[k].sent # v5[t].row.sent
    /\ \A s, k \in ClosedTickets : HasBeenAsked(s) /\ HasBeenAsked(k) /\ v1[s].sent = v1[k].sent => s = k

CsatInv ==
  /\ CsatShape
  /\ \A s \in Cs!Surveys : SurveyFits(s)
  /\ \A t \in Requests : SurveyWorkFits(v5[t])
  /\ \A t, u \in Requests : t # u => WorkApart(v5[t], v5[u])
  /\ CapFits

LEMMA IdleFits ==
  ASSUME Cs!CsatConstants
  PROVE  /\ Cs!NoSurvey \in SurveyRow /\ Cs!NoCsat \in CsatWork /\ SurveyWorkFits(Cs!NoCsat)
         /\ \A x : WorkApart(Cs!NoCsat, x) /\ WorkApart(x, Cs!NoCsat)
         /\ Cs!NoCsat.op = "idle"
<1>1. Cs!Never \in Nat
  BY DEF Cs!Never, Cs!CsatConstants
<1>2. Cs!NoSurvey \in SurveyRow
  BY <1>1 DEF Cs!NoSurvey, SurveyRow
<1>3. Cs!NoCsat \in CsatWork /\ Cs!NoCsat.op = "idle" /\ Cs!NoCsat.ids = {}
  BY <1>2 DEF Cs!NoCsat, CsatWork
<1> QED BY <1>2, <1>3 DEF SurveyWorkFits, CreatorFits, AnswererFits, TickFits, WorkApart

LEMMA CsatStarts ==
  ASSUME Cs!CsatInit, Cs!CsatConstants
  PROVE  CsatInv
<1>1. /\ v1 = [s \in Cs!Surveys |-> Cs!NoSurvey] /\ v2 = {} /\ v3 = 0 /\ v4 \in Occasions
      /\ v5 = [t \in Requests |-> Cs!NoCsat] /\ v6 = [s \in Cs!Surveys |-> 0] /\ v7 = FALSE
  BY DEF Cs!CsatInit
<1>2. CsatShape
  <2>1. v1 \in [Cs!Surveys -> SurveyRow] /\ v5 \in [Requests -> CsatWork]
    BY <1>1, IdleFits
  <2>2. v6 \in [Cs!Surveys -> Nat] /\ v4 \subseteq Cs!Surveys /\ v3 \in Nat /\ v3 <= MaxDay
    BY <1>1 DEF Cs!CsatConstants
  <2> QED BY <1>1, <2>1, <2>2 DEF CsatShape
<1>3. ASSUME NEW s \in Cs!Surveys PROVE SurveyFits(s) /\ ~HasBeenAsked(s)
  <2>1. /\ v1[s].status = "none" /\ v1[s].sent = 0 /\ v1[s].remindAt = Cs!Never /\ v6[s] = 0
        /\ v3 = 0 /\ s \notin v2
    BY <1>1 DEF Cs!NoSurvey
  <2> QED BY <2>1 DEF SurveyFits, OnSchedule, HasBeenAsked
<1>4. \A t \in Requests : v5[t] = Cs!NoCsat
  BY <1>1
<1>5. CapFits
  <2>1. ClosedTickets \subseteq Cs!Surveys
    BY DEF Cs!Surveys
  <2> QED BY <1>3, <1>4, <2>1, IdleFits DEF CapFits
<1> QED BY <1>2, <1>3, <1>4, <1>5, IdleFits DEF CsatInv

LEMMA NextReminder ==
  ASSUME Cs!CsatConstants, NEW s \in Cs!Surveys, NEW sent \in Nat, NEW after \in Nat, after <= MaxDay
  PROVE  LET d == Cs!NextRemindAt(s, sent, after)
         IN  /\ d \in Nat /\ d > after
             /\ d = Cs!Never \/ \E n \in RemindAfter[s] : d = sent + n
<1> DEFINE due == {d \in {sent + n : n \in RemindAfter[s]} : d > after}
<1>1. \A d \in due : d \in Nat /\ d > after /\ \E n \in RemindAfter[s] : d = sent + n
  BY DEF Cs!CsatConstants
<1>2. Cs!Never \in Nat /\ Cs!Never > after
  BY DEF Cs!CsatConstants, Cs!Never
<1>3. Cs!NextRemindAt(s, sent, after) = IF due = {} THEN Cs!Never ELSE CHOOSE d \in due : \A e \in due : d <= e
  BY DEF Cs!NextRemindAt
<1> HIDE DEF due
<1>4. CASE due = {}
  BY <1>2, <1>3, <1>4
<1>5. CASE due # {}
  <2>1. due \subseteq Nat
    BY <1>1
  <2>2. \E d \in due : \A e \in due : d <= e
    BY <1>5, <2>1, LeastNumber
  <2>3. (CHOOSE d \in due : \A e \in due : d <= e) \in due
    BY <2>2, Zenon
  <2> QED BY <1>1, <1>3, <1>5, <2>3
<1> QED BY <1>4, <1>5

(* Only what one transaction has in hand moves.                            *)
LEMMA WorkMoves ==
  ASSUME CsatInv, UNCHANGED <<v1, v2, v3, v4, v6>>, NEW t \in Requests, NEW q \in CsatWork,
         v5' = [v5 EXCEPT ![t] = q], v7' \in BOOLEAN,
         SurveyWorkFits(q),
         \A w \in Requests \ {t} : WorkApart(q, v5[w]) /\ WorkApart(v5[w], q),
         CapFits'
  PROVE  CsatInv'
<1>1. v5' \in [Requests -> CsatWork] /\ v5'[t] = q /\ \A w \in Requests \ {t} : v5'[w] = v5[w]
  BY DEF CsatInv, CsatShape
<1>2. CsatShape'
  BY <1>1 DEF CsatInv, CsatShape
<1>3. ASSUME NEW s \in Cs!Surveys PROVE SurveyFits(s)'
  <2>1. RemindersPast(s)' = RemindersPast(s)
    BY DEF RemindersPast
  <2> QED BY <2>1 DEF CsatInv, SurveyFits
<1>4. ASSUME NEW w \in Requests PROVE SurveyWorkFits(v5[w])'
  <2>1. SurveyWorkFits(v5'[w])
    BY <1>1 DEF CsatInv
  <2> QED BY <2>1 DEF SurveyWorkFits, CreatorFits, AnswererFits, TickFits, HasBeenAsked
<1>5. ASSUME NEW w \in Requests, NEW x \in Requests, w # x PROVE WorkApart(v5[w], v5[x])'
  <2>1. WorkApart(v5'[w], v5'[x])
    BY <1>1, <1>5 DEF CsatInv
  <2> QED BY <2>1 DEF WorkApart
<1> QED BY <1>2, <1>3, <1>4, <1>5 DEF CsatInv

(* And it begins no survey.                                                *)
LEMMA WorkGoesOn ==
  ASSUME CsatInv, UNCHANGED <<v1, v2, v3, v4, v6, v7>>, NEW t \in Requests, NEW q \in CsatWork,
         v5' = [v5 EXCEPT ![t] = q],
         q.op = "create" => v5[t].op = "create" /\ q.row = v5[t].row /\ q.ids = v5[t].ids,
         SurveyWorkFits(q),
         \A w \in Requests \ {t} : WorkApart(q, v5[w]) /\ WorkApart(v5[w], q)
  PROVE  CsatInv'
<1>1. v5'[t] = q /\ (\A w \in Requests \ {t} : v5'[w] = v5[w]) /\ v7' \in BOOLEAN
  BY DEF CsatInv, CsatShape
<1>2. \A w \in Requests : v5'[w].op = "create" =>
        v5[w].op = "create" /\ v5'[w].row = v5[w].row /\ v5'[w].ids = v5[w].ids
  BY <1>1
<1>3. CapFits'
  BY <1>2 DEF CsatInv, CapFits, HasBeenAsked
<1> QED BY <1>1, <1>3, WorkMoves

LEMMA DecideSurveyKeeps ==
  ASSUME CsatInv, Cs!CsatConstants, NEW t \in Requests, Cs!DecideSurvey(t)
  PROVE  CsatInv'
<1>1. PICK s \in v4, suppressed \in BOOLEAN :
        /\ v1[s].status = "none"
        /\ s # Quarter /\ Cs!SurveyedToday => suppressed
        /\ v5' = [v5 EXCEPT ![t] = [Cs!NoCsat EXCEPT !.op = "create", !.at = "decided", !.ids = {s},
                    !.row = Cs!Survey(s, IF suppressed THEN "suppressed" ELSE "sent")]]
        /\ v7' = (v7 \/ \E u \in Requests : Cs!Creating(u))
  BY Zenon DEF Cs!DecideSurvey
<1>2. UNCHANGED <<v1, v2, v3, v4, v6>>
  BY DEF Cs!DecideSurvey
<1>3. s \in Cs!Surveys /\ v3 \in Nat /\ v3 <= MaxDay
  BY DEF CsatInv, CsatShape
<1>4. PICK row : row = Cs!Survey(s, IF suppressed THEN "suppressed" ELSE "sent")
  OBVIOUS
<1>5. /\ row \in SurveyRow /\ row.sent = v3 /\ OnSchedule(s, row)
      /\ row.status = IF suppressed THEN "suppressed" ELSE "sent"
  <2>1. CASE suppressed
    <3>1. row = [Cs!NoSurvey EXCEPT !.status = "suppressed", !.sent = v3]
      BY <1>4, <2>1 DEF Cs!Survey
    <3>2. row = [status |-> "suppressed", sent |-> v3, remindAt |-> Cs!Never, expiresAt |-> Cs!Never]
      BY <3>1 DEF Cs!NoSurvey
    <3>3. Cs!Never \in Nat
      BY DEF Cs!Never, Cs!CsatConstants
    <3> QED BY <1>3, <2>1, <3>2, <3>3 DEF SurveyRow, OnSchedule
  <2>2. CASE ~suppressed
    <3>1. row = [status |-> "sent", sent |-> v3, remindAt |-> Cs!NextRemindAt(s, v3, v3),
                 expiresAt |-> v3 + ExpireAfter[s]]
      BY <1>4, <2>2 DEF Cs!Survey
    <3>2. PICK d : d = Cs!NextRemindAt(s, v3, v3)
      OBVIOUS
    <3>3. d \in Nat /\ (d = Cs!Never \/ \E n \in RemindAfter[s] : d = v3 + n)
      BY <1>3, <3>2, NextReminder
    <3>4. v3 + ExpireAfter[s] \in Nat
      BY <1>3 DEF Cs!CsatConstants
    <3> QED BY <1>3, <2>2, <3>1, <3>2, <3>3, <3>4 DEF SurveyRow, OnSchedule
  <2> QED BY <2>1, <2>2
<1>6. PICK q : q = [Cs!NoCsat EXCEPT !.op = "create", !.at = "decided", !.ids = {s}, !.row = row]
  OBVIOUS
<1>7. q = [op |-> "create", at |-> "decided", row |-> row, ids |-> {s}, done |-> {}, mailed |-> {}]
  BY <1>6 DEF Cs!NoCsat
<1>8. q \in CsatWork
  BY <1>3, <1>5, <1>7 DEF CsatWork
<1>9. v5' = [v5 EXCEPT ![t] = q]
  BY <1>1, <1>4, <1>6
<1>10. SurveyWorkFits(q)
  BY <1>3, <1>5, <1>7 DEF SurveyWorkFits, CreatorFits, AnswererFits, TickFits
<1>11. \A w \in Requests \ {t} : WorkApart(q, v5[w]) /\ WorkApart(v5[w], q)
  BY <1>7 DEF WorkApart
<1>12. v7' \in BOOLEAN
  BY <1>1 DEF CsatInv, CsatShape
<1>13. CapFits'
  <2>1. CASE v7'
    BY <2>1 DEF CapFits
  <2>2. CASE ~v7'
    <3>1. ~v7 /\ \A u \in Requests : v5[u].op # "create"
      BY <1>1, <2>2 DEF Cs!Creating
    <3>2. v5'[t] = q /\ \A w \in Requests \ {t} : v5'[w].op # "create"
      BY <1>9, <3>1 DEF CsatInv, CsatShape
    <3>3. row.status = "sent" /\ Quarter \notin {s} =>
            \A k \in Cs!Surveys : HasBeenAsked(k) => v1[k].sent # row.sent
      BY <1>1, <1>5 DEF Cs!SurveyedToday, HasBeenAsked
    <3>4. \A x, k \in ClosedTickets : HasBeenAsked(x) /\ HasBeenAsked(k) /\ v1[x].sent = v1[k].sent => x = k
      BY <3>1 DEF CsatInv, CapFits
    <3>5. q.row = row /\ q.ids = {s}
      BY <1>7
    <3>6. \A w \in Requests : v5'[w].op = "create" => w = t
      BY <3>2
    <3>7. \A k : HasBeenAsked(k)' = HasBeenAsked(k) /\ v1'[k] = v1[k]
      BY <1>2 DEF HasBeenAsked
    <3> QED BY <3>2, <3>3, <3>4, <3>5, <3>6, <3>7 DEF CapFits
  <2> QED BY <2>1, <2>2
<1> QED BY <1>2, <1>8, <1>9, <1>10, <1>11, <1>12, <1>13, WorkMoves

LEMMA InsertSurveyKeeps ==
  ASSUME CsatInv, NEW t \in Requests, Cs!InsertSurvey(t)
  PROVE  CsatInv'
<1> DEFINE r == v5[t]
<1>1. /\ r.op = "create" /\ r.at = "decided"
      /\ \A s \in r.ids : /\ v1[s].status = "none"
                          /\ \A u \in Requests : v5[u].op = "create" /\ v5[u].at = "inserted" => s \notin v5[u].ids
      /\ v5' = [v5 EXCEPT ![t].at = "inserted"]
      /\ UNCHANGED <<v1, v2, v3, v4, v6, v7>>
  BY DEF Cs!InsertSurvey, Cs!Creating
<1>2. r \in CsatWork /\ SurveyWorkFits(r)
  BY DEF CsatInv, CsatShape
<1>3. PICK q : q = [r EXCEPT !.at = "inserted"]
  OBVIOUS
<1>4. q = [op |-> r.op, at |-> "inserted", row |-> r.row, ids |-> r.ids, done |-> r.done, mailed |-> r.mailed]
  BY <1>2, <1>3 DEF CsatWork
<1>5. q \in CsatWork
  BY <1>2, <1>4 DEF CsatWork
<1>6. v5' = [v5 EXCEPT ![t] = q]
  BY <1>1, <1>3
<1>7. q.op = "create" /\ q.row = r.row /\ q.ids = r.ids /\ q.mailed = r.mailed
  BY <1>1, <1>4
<1>8. SurveyWorkFits(q)
  BY <1>1, <1>2, <1>7 DEF SurveyWorkFits, CreatorFits, AnswererFits, TickFits
<1>9. \A w \in Requests \ {t} : WorkApart(q, v5[w]) /\ WorkApart(v5[w], q)
  BY <1>1, <1>7 DEF WorkApart
<1> QED BY <1>1, <1>5, <1>6, <1>7, <1>8, <1>9, WorkGoesOn

LEMMA PromptKeeps ==
  ASSUME CsatInv, NEW t \in Requests, Cs!Prompt(t)
  PROVE  CsatInv'
<1> DEFINE r == v5[t]
<1>1. /\ r.op = "create" /\ r.at = "inserted"
      /\ v5' = [v5 EXCEPT ![t].mailed = r.ids]
      /\ UNCHANGED <<v1, v2, v3, v4, v6, v7>>
  BY DEF Cs!Prompt, Cs!Creating
<1>2. r \in CsatWork /\ SurveyWorkFits(r)
  BY DEF CsatInv, CsatShape
<1>3. PICK q : q = [r EXCEPT !.mailed = r.ids]
  OBVIOUS
<1>4. q = [op |-> r.op, at |-> r.at, row |-> r.row, ids |-> r.ids, done |-> r.done, mailed |-> r.ids]
  BY <1>2, <1>3 DEF CsatWork
<1>5. q \in CsatWork
  BY <1>2, <1>4 DEF CsatWork
<1>6. v5' = [v5 EXCEPT ![t] = q]
  BY <1>1, <1>3
<1>7. q.op = "create" /\ q.at = r.at /\ q.row = r.row /\ q.ids = r.ids /\ q.mailed = r.ids
  BY <1>1, <1>4
<1>8. SurveyWorkFits(q)
  BY <1>1, <1>2, <1>7 DEF SurveyWorkFits, CreatorFits, AnswererFits, TickFits
<1>9. \A w \in Requests \ {t} : WorkApart(q, v5[w]) /\ WorkApart(v5[w], q)
  <2>1. \A w \in Requests \ {t} : WorkApart(r, v5[w]) /\ WorkApart(v5[w], r)
    BY DEF CsatInv
  <2> QED BY <1>1, <1>7, <2>1 DEF WorkApart
<1> QED BY <1>1, <1>5, <1>6, <1>7, <1>8, <1>9, WorkGoesOn

LEMMA OpenSurveyKeeps ==
  ASSUME CsatInv, Cs!CsatConstants, NEW t \in Requests, Cs!OpenSurvey(t)
  PROVE  CsatInv'
<1>1. PICK s \in Cs!Surveys :
        /\ v1[s].status \in Cs!Open
        /\ v5' = [v5 EXCEPT ![t] = [Cs!NoCsat EXCEPT !.op = "answer", !.at = "read", !.ids = {s}]]
  BY Zenon DEF Cs!OpenSurvey
<1>2. UNCHANGED <<v1, v2, v3, v4, v6, v7>>
  BY DEF Cs!OpenSurvey
<1>3. PICK q : q = [Cs!NoCsat EXCEPT !.op = "answer", !.at = "read", !.ids = {s}]
  OBVIOUS
<1>4. q = [op |-> "answer", at |-> "read", row |-> Cs!NoSurvey, ids |-> {s}, done |-> {}, mailed |-> {}]
  BY <1>3 DEF Cs!NoCsat
<1>5. q \in CsatWork
  BY <1>4, IdleFits DEF CsatWork
<1>6. v5' = [v5 EXCEPT ![t] = q]
  BY <1>1, <1>3
<1>7. SurveyWorkFits(q)
  BY <1>1, <1>4 DEF SurveyWorkFits, CreatorFits, AnswererFits, TickFits, HasBeenAsked, Cs!Open
<1>8. \A w \in Requests \ {t} : WorkApart(q, v5[w]) /\ WorkApart(v5[w], q)
  BY <1>4 DEF WorkApart
<1>9. q.op # "create"
  BY <1>4
<1> QED BY <1>2, <1>5, <1>6, <1>7, <1>8, <1>9, WorkGoesOn

LEMMA InsertResponseKeeps ==
  ASSUME CsatInv, NEW t \in Requests, Cs!InsertResponse(t)
  PROVE  CsatInv'
<1> DEFINE r == v5[t]
<1>1. /\ r.op = "answer"
      /\ \A s \in r.ids : Cs!Ticking(s) = {}
      /\ v5' = [v5 EXCEPT ![t].at = "responding"]
      /\ UNCHANGED <<v1, v2, v3, v4, v6, v7>>
  BY DEF Cs!InsertResponse
<1>2. r \in CsatWork /\ SurveyWorkFits(r)
  BY DEF CsatInv, CsatShape
<1>3. PICK q : q = [r EXCEPT !.at = "responding"]
  OBVIOUS
<1>4. q = [op |-> r.op, at |-> "responding", row |-> r.row, ids |-> r.ids, done |-> r.done, mailed |-> r.mailed]
  BY <1>2, <1>3 DEF CsatWork
<1>5. q \in CsatWork
  BY <1>2, <1>4 DEF CsatWork
<1>6. v5' = [v5 EXCEPT ![t] = q]
  BY <1>1, <1>3
<1>7. q.op = "answer" /\ q.ids = r.ids
  BY <1>1, <1>4
<1>8. SurveyWorkFits(q)
  BY <1>1, <1>2, <1>7 DEF SurveyWorkFits, CreatorFits, AnswererFits, TickFits
<1>9. \A w \in Requests : v5[w].op = "tick" => v5[w].ids \cap r.ids = {}
  BY <1>1 DEF Cs!Ticking
<1>10. \A w \in Requests \ {t} : WorkApart(q, v5[w]) /\ WorkApart(v5[w], q)
  BY <1>7, <1>9 DEF WorkApart
<1> QED BY <1>1, <1>5, <1>6, <1>7, <1>8, <1>10, WorkGoesOn

LEMMA StartTickKeeps ==
  ASSUME CsatInv, Cs!CsatConstants, NEW t \in Requests, Cs!StartTick(t)
  PROVE  CsatInv'
<1> DEFINE due == {s \in Cs!Surveys : Cs!Due(s)}
<1>1. /\ v5' = [v5 EXCEPT ![t] = [Cs!NoCsat EXCEPT !.op = "tick", !.at = "locked", !.ids = due, !.row.sent = v3]]
      /\ UNCHANGED <<v1, v2, v3, v4, v6, v7>>
  BY DEF Cs!StartTick
<1>2. PICK row : row = [Cs!NoSurvey EXCEPT !.sent = v3]
  OBVIOUS
<1>3. row \in SurveyRow /\ row.sent = v3
  <2>1. row = [status |-> "none", sent |-> v3, remindAt |-> Cs!Never, expiresAt |-> Cs!Never]
    BY <1>2 DEF Cs!NoSurvey
  <2>2. v3 \in Nat /\ Cs!Never \in Nat
    BY DEF CsatInv, CsatShape, Cs!Never, Cs!CsatConstants
  <2> QED BY <2>1, <2>2 DEF SurveyRow
<1>0. PICK q : q = [Cs!NoCsat EXCEPT !.op = "tick", !.at = "locked", !.ids = due, !.row.sent = v3]
  BY Zenon
<1>4. q = [op |-> "tick", at |-> "locked", row |-> row, ids |-> due, done |-> {}, mailed |-> {}]
  BY <1>0, <1>2 DEF Cs!NoCsat
<1>5. v5' = [v5 EXCEPT ![t] = q]
  BY <1>1, <1>0
<1>6. q \in CsatWork
  BY <1>3, <1>4 DEF CsatWork
<1>7. /\ q.op = "tick" /\ q.row.sent = v3 /\ q.mailed = {}
      /\ \A s \in q.ids : s \in Cs!Surveys /\ Cs!Due(s)
  BY <1>3, <1>4
<1> HIDE DEF due
<1>8. SurveyWorkFits(q)
  <2>1. v3 \in Nat
    BY DEF CsatInv, CsatShape
  <2> QED BY <1>7, <2>1 DEF SurveyWorkFits, CreatorFits, AnswererFits, TickFits, Cs!Due
<1>9. \A w \in Requests \ {t} : WorkApart(q, v5[w]) /\ WorkApart(v5[w], q)
  <2>1. \A w \in Requests : v5[w].op = "tick" \/ (v5[w].op = "answer" /\ v5[w].at = "responding") =>
          q.ids \cap v5[w].ids = {}
    BY <1>7 DEF Cs!Due, Cs!Answering, Cs!Ticking
  <2> QED BY <1>7, <2>1 DEF WorkApart
<1> QED BY <1>1, <1>5, <1>6, <1>7, <1>8, <1>9, WorkGoesOn

LEMMA HandleDueKeeps ==
  ASSUME CsatInv, NEW t \in Requests, Cs!HandleDue(t)
  PROVE  CsatInv'
<1> DEFINE r == v5[t]
<1>1. /\ r.op = "tick" /\ UNCHANGED <<v1, v2, v3, v4, v6, v7>>
  BY DEF Cs!HandleDue
<1>2. r \in CsatWork /\ SurveyWorkFits(r)
  BY DEF CsatInv, CsatShape
<1>3. PICK s \in r.ids :
        \/ v5' = [v5 EXCEPT ![t].done = @ \cup {s}]
        \/ /\ ~(v1[s].expiresAt <= r.row.sent)
           /\ v5' = [[v5 EXCEPT ![t].done = @ \cup {s}] EXCEPT ![t].mailed = @ \cup {s}]
  BY DEF Cs!HandleDue, Cs!Expires, Cs!TickDay
<1>4. PICK mailed : /\ \/ mailed = r.mailed
                       \/ mailed = r.mailed \cup {s} /\ ~(v1[s].expiresAt <= r.row.sent)
                    /\ v5' = [v5 EXCEPT ![t] = [op |-> r.op, at |-> r.at, row |-> r.row, ids |-> r.ids,
                                                done |-> r.done \cup {s}, mailed |-> mailed]]
  <2>1. PICK handled : handled = [r EXCEPT !.done = @ \cup {s}]
    OBVIOUS
  <2>2. handled = [op |-> r.op, at |-> r.at, row |-> r.row, ids |-> r.ids,
                   done |-> r.done \cup {s}, mailed |-> r.mailed]
    BY <1>2, <2>1 DEF CsatWork
  <2>3. PICK reminded : reminded = [handled EXCEPT !.mailed = @ \cup {s}]
    OBVIOUS
  <2>4. reminded = [op |-> r.op, at |-> r.at, row |-> r.row, ids |-> r.ids,
                    done |-> r.done \cup {s}, mailed |-> r.mailed \cup {s}]
    BY <2>2, <2>3
  <2>5. v5 \in [Requests -> CsatWork]
    BY DEF CsatInv, CsatShape
  <2>6. [v5 EXCEPT ![t].done = @ \cup {s}] = [v5 EXCEPT ![t] = handled]
    BY <2>1
  <2>7. [[v5 EXCEPT ![t] = handled] EXCEPT ![t].mailed = @ \cup {s}] = [v5 EXCEPT ![t] = reminded]
    BY <2>3, <2>5
  <2>8. \/ v5' = [v5 EXCEPT ![t] = handled]
        \/ v5' = [v5 EXCEPT ![t] = reminded] /\ ~(v1[s].expiresAt <= r.row.sent)
    BY <1>3, <2>6, <2>7
  <2> HIDE DEF r
  <2> QED BY <2>2, <2>4, <2>8
<1>5. PICK q : q = [op |-> r.op, at |-> r.at, row |-> r.row, ids |-> r.ids,
                    done |-> r.done \cup {s}, mailed |-> mailed]
  OBVIOUS
<1>6. v5' = [v5 EXCEPT ![t] = q]
  BY <1>4, <1>5
<1>7. q.op = "tick" /\ q.row = r.row /\ q.ids = r.ids /\ q.mailed = mailed
  BY <1>1, <1>5
<1>8. q \in CsatWork
  BY <1>2, <1>4, <1>5 DEF CsatWork
<1>9. SurveyWorkFits(q)
  BY <1>1, <1>2, <1>4, <1>7 DEF SurveyWorkFits, CreatorFits, AnswererFits, TickFits
<1>10. \A w \in Requests \ {t} : WorkApart(q, v5[w]) /\ WorkApart(v5[w], q)
  <2>1. \A w \in Requests \ {t} : WorkApart(r, v5[w]) /\ WorkApart(v5[w], r)
    BY DEF CsatInv
  <2> QED BY <1>1, <1>7, <2>1 DEF WorkApart
<1> QED BY <1>1, <1>6, <1>7, <1>8, <1>9, <1>10, WorkGoesOn

LEMMA AbortCsatKeeps ==
  ASSUME CsatInv, Cs!CsatConstants, NEW t \in Requests, Cs!AbortCsat(t)
  PROVE  CsatInv'
<1>1. v5' = [v5 EXCEPT ![t] = Cs!NoCsat] /\ UNCHANGED <<v1, v2, v3, v4, v6, v7>>
  BY DEF Cs!AbortCsat
<1> QED BY <1>1, IdleFits, WorkGoesOn

(* A transaction ends and leaves the rows it held settled.                 *)
LEMMA RowsSettle ==
  ASSUME CsatInv, Cs!CsatConstants, NEW t \in Requests, NEW I \in SUBSET Cs!Surveys,
         UNCHANGED <<v3, v4, v7>>, v5' = [v5 EXCEPT ![t] = Cs!NoCsat],
         v2' \subseteq Cs!Surveys, v6' \in [Cs!Surveys -> Nat], v1' \in [Cs!Surveys -> SurveyRow],
         \A s \in Cs!Surveys \ I : v1'[s] = v1[s] /\ v6'[s] = v6[s] /\ (s \in v2' <=> s \in v2),
         \A s \in I : SurveyFits(s)' /\ v1'[s].status # "none",
         \A s \in I : v5[t].op # "create" => HasBeenAsked(s) /\ HasBeenAsked(s)' /\ v1'[s].sent = v1[s].sent,
         v5[t].op = "create" => v5[t].ids = I /\ \A s \in I : v1[s].status = "none" /\ v1'[s] = v5[t].row,
         \A w \in Requests \ {t} :
           (v5[w].op = "create" /\ v5[w].at = "inserted") \/ v5[w].op = "tick" => v5[w].ids \cap I = {}
  PROVE  CsatInv'
<1>0. /\ v5 \in [Requests -> CsatWork] /\ v5'[t] = Cs!NoCsat /\ \A w \in Requests \ {t} : v5'[w] = v5[w]
      /\ Cs!NoCsat.op = "idle" /\ Cs!NoCsat \in CsatWork
  BY IdleFits DEF CsatInv, CsatShape
<1>1. CsatShape'
  BY <1>0 DEF CsatInv, CsatShape
<1>2. ASSUME NEW s \in Cs!Surveys PROVE SurveyFits(s)'
  <2>1. CASE s \in I
    BY <2>1
  <2>2. CASE s \notin I
    <3>1. v1'[s] = v1[s] /\ v6'[s] = v6[s] /\ (s \in v2' <=> s \in v2)
      BY <2>2
    <3>2. RemindersPast(s)' = RemindersPast(s) /\ OnSchedule(s, v1'[s]) = OnSchedule(s, v1[s])
      BY <3>1 DEF RemindersPast
    <3>3. SurveyFits(s)
      BY DEF CsatInv
    <3>4. OnSchedule(s, v1[s])'
      BY <3>1, <3>3 DEF SurveyFits, OnSchedule
    <3> QED BY <3>1, <3>2, <3>3, <3>4 DEF SurveyFits
  <2> QED BY <2>1, <2>2
<1>3. ASSUME NEW w \in Requests PROVE SurveyWorkFits(v5[w])'
  <2>1. CASE w = t
    BY <1>0, <2>1 DEF SurveyWorkFits, CreatorFits, AnswererFits, TickFits
  <2>2. CASE w # t
    <3>0. /\ v5'[w] = v5[w] /\ v5[w] \in CsatWork /\ v5[w].ids \subseteq Cs!Surveys /\ v5[w].mailed \subseteq Cs!Surveys
          /\ CreatorFits(v5[w]) /\ AnswererFits(v5[w]) /\ TickFits(v5[w])
      BY <1>0, <2>2 DEF CsatInv, SurveyWorkFits, CsatWork
    <3>1. CreatorFits(v5[w])'
      <4>1. SUFFICES ASSUME v5[w].op = "create"
                     PROVE  /\ \E s \in Cs!Surveys : v5[w].ids = {s} /\ OnSchedule(s, v5[w].row)
                            /\ v5[w].row.status \in {"sent", "suppressed"} /\ v5[w].row.sent <= v3
                            /\ v5[w].at = "inserted" => \A s \in v5[w].ids : v1'[s].status = "none"
                            /\ v5[w].mailed \subseteq v5[w].ids
        BY <3>0 DEF CreatorFits, OnSchedule
      <4>2. v5[w].at = "inserted" => \A s \in v5[w].ids : s \notin I /\ v1'[s] = v1[s]
        BY <2>2, <3>0, <4>1
      <4> QED BY <3>0, <4>1, <4>2 DEF CreatorFits
    <3>2. AnswererFits(v5[w])'
      <4>1. ASSUME NEW s \in Cs!Surveys, HasBeenAsked(s) PROVE HasBeenAsked(s)'
        BY <4>1 DEF HasBeenAsked
      <4> QED BY <3>0, <4>1 DEF AnswererFits
    <3>3. TickFits(v5[w])'
      <4>1. v5[w].op = "tick" => \A s \in v5[w].ids : s \notin I /\ v1'[s] = v1[s]
        BY <2>2, <3>0
      <4> QED BY <3>0, <4>1 DEF TickFits
    <3> QED BY <3>1, <3>2, <3>3 DEF SurveyWorkFits
  <2> QED BY <2>1, <2>2
<1>4. ASSUME NEW w \in Requests, NEW x \in Requests, w # x PROVE WorkApart(v5[w], v5[x])'
  <2>1. WorkApart(v5[w], v5[x])
    BY <1>4 DEF CsatInv
  <2> QED BY <1>0, <2>1 DEF WorkApart
<1>5. CapFits'
  <2>1. CASE v7
    BY <2>1 DEF CapFits
  <2>2. CASE ~v7
    <3>1. /\ \A w, u \in Requests : v5[w].op = "create" /\ v5[u].op = "create" => w = u
          /\ \A w \in Requests : v5[w].op = "create" /\ v5[w].row.status = "sent" /\ Quarter \notin v5[w].ids =>
               \A k \in Cs!Surveys : HasBeenAsked(k) => v1[k].sent # v5[w].row.sent
          /\ \A s, k \in ClosedTickets : HasBeenAsked(s) /\ HasBeenAsked(k) /\ v1[s].sent = v1[k].sent => s = k
      BY <2>2 DEF CsatInv, CapFits
    <3>2. ClosedTickets \subseteq Cs!Surveys
      BY DEF Cs!Surveys
    <3>3. CASE v5[t].op = "create"
      <4>1. \A w \in Requests : v5'[w].op # "create"
        BY <1>0, <3>1, <3>3
      <4>2. PICK i \in Cs!Surveys : I = {i}
        BY <3>3 DEF CsatInv, SurveyWorkFits, CreatorFits
      <4>3. v1'[i] = v5[t].row
        BY <3>3, <4>2
      <4>4. ASSUME NEW k \in Cs!Surveys \ {i} PROVE HasBeenAsked(k)' = HasBeenAsked(k) /\ v1'[k] = v1[k]
        BY <4>2 DEF HasBeenAsked
      <4>5. HasBeenAsked(i)' => v5[t].row.status = "sent"
        BY <3>3, <4>3 DEF HasBeenAsked, CsatInv, SurveyWorkFits, CreatorFits
      <4>6. i \in ClosedTickets /\ HasBeenAsked(i)' =>
              \A k \in ClosedTickets \ {i} : HasBeenAsked(k)' => v1'[k].sent # v1'[i].sent
        BY <3>1, <3>2, <3>3, <4>2, <4>3, <4>4, <4>5 DEF Cs!CsatConstants
      <4>7. \A s, k \in ClosedTickets : HasBeenAsked(s)' /\ HasBeenAsked(k)' /\ v1'[s].sent = v1'[k].sent => s = k
        BY <3>1, <3>2, <4>4, <4>6
      <4> QED BY <4>1, <4>7 DEF CapFits
    <3>4. CASE v5[t].op # "create"
      <4>1. \A k \in Cs!Surveys : HasBeenAsked(k)' => HasBeenAsked(k) /\ v1'[k].sent = v1[k].sent
        BY <3>4 DEF HasBeenAsked
      <4>2. \A w \in Requests : v5'[w].op = "create" => v5'[w] = v5[w]
        BY <1>0
      <4>3. \A s, k \in ClosedTickets : HasBeenAsked(s)' /\ HasBeenAsked(k)' /\ v1'[s].sent = v1'[k].sent => s = k
        BY <3>1, <3>2, <4>1
      <4>4. \A w \in Requests : v5'[w].op = "create" /\ v5'[w].row.status = "sent" /\ Quarter \notin v5'[w].ids =>
               \A k \in Cs!Surveys : HasBeenAsked(k)' => v1'[k].sent # v5'[w].row.sent
        BY <3>1, <4>1, <4>2
      <4>5. \A w, u \in Requests : v5'[w].op = "create" /\ v5'[u].op = "create" => w = u
        BY <3>1, <4>2
      <4> QED BY <4>3, <4>4, <4>5 DEF CapFits
    <3> QED BY <3>3, <3>4
  <2> QED BY <2>1, <2>2
<1> QED BY <1>1, <1>2, <1>3, <1>4, <1>5 DEF CsatInv

LEMMA RemindersCount ==
  ASSUME Cs!CsatConstants, NEW s \in Cs!Surveys, NEW T \in SUBSET RemindAfter[s]
  PROVE  /\ IsFiniteSet(T) /\ Cardinality(T) \in Nat
         /\ Cardinality(T) <= Cardinality(RemindAfter[s]) /\ Cardinality(RemindAfter[s]) \in Nat
         /\ \A S \in SUBSET T : Cardinality(S) <= Cardinality(T) /\ Cardinality(S) \in Nat
         /\ \A S \in SUBSET T : S # T => Cardinality(S) < Cardinality(T)
<1>1. Cs!IsFiniteSet(RemindAfter[s])
  BY DEF Cs!CsatConstants
<1>2. IsFiniteSet(RemindAfter[s])
  BY <1>1 DEF IsFiniteSet, Cs!IsFiniteSet
<1>3. IsFiniteSet(T) /\ Cardinality(T) <= Cardinality(RemindAfter[s])
  BY <1>2, FS_Subset
<1>4. Cardinality(T) \in Nat /\ Cardinality(RemindAfter[s]) \in Nat
  BY <1>2, <1>3, FS_CardinalityType
<1>5. ASSUME NEW S \in SUBSET T
      PROVE  /\ Cardinality(S) <= Cardinality(T) /\ Cardinality(S) \in Nat
             /\ S # T => Cardinality(S) < Cardinality(T)
  <2>1. IsFiniteSet(S) /\ Cardinality(S) <= Cardinality(T) /\ (Cardinality(S) = Cardinality(T) => S = T)
    BY <1>3, FS_Subset
  <2>2. Cardinality(S) \in Nat
    BY <2>1, FS_CardinalityType
  <2> QED BY <1>4, <2>1, <2>2
<1> QED BY <1>3, <1>4, <1>5

LEMMA CommitSurveyKeeps ==
  ASSUME CsatInv, Cs!CsatConstants, NEW t \in Requests, Cs!CommitSurvey(t)
  PROVE  CsatInv'
<1> DEFINE r == v5[t]
<1>1. /\ r.op = "create" /\ r.at = "inserted"
      /\ v1' = [s \in Cs!Surveys |-> IF s \in r.ids THEN r.row ELSE v1[s]]
      /\ v6' = [s \in Cs!Surveys |-> v6[s] + (IF s \in r.mailed THEN 1 ELSE 0)]
      /\ v5' = [v5 EXCEPT ![t] = Cs!NoCsat]
      /\ UNCHANGED <<v2, v3, v4, v7>>
  BY DEF Cs!CommitSurvey, Cs!Creating, Cs!WithMailOf
<1>2. /\ r \in CsatWork /\ CreatorFits(r) /\ r.row \in SurveyRow /\ r.ids \subseteq Cs!Surveys
      /\ v1 \in [Cs!Surveys -> SurveyRow] /\ v6 \in [Cs!Surveys -> Nat] /\ v2 \subseteq Cs!Surveys
  BY DEF CsatInv, CsatShape, SurveyWorkFits, CsatWork
<1>3. PICK i \in Cs!Surveys : r.ids = {i} /\ OnSchedule(i, r.row)
  BY <1>1, <1>2 DEF CreatorFits
<1>4. /\ v1[i].status = "none" /\ r.mailed \subseteq {i} /\ r.row.status \in {"sent", "suppressed"}
      /\ r.row.sent <= v3
  BY <1>1, <1>2, <1>3 DEF CreatorFits
<1>5. /\ v1' \in [Cs!Surveys -> SurveyRow] /\ v1'[i] = r.row
      /\ \A s \in Cs!Surveys \ {i} : v1'[s] = v1[s]
  BY <1>1, <1>2, <1>3
<1>6. /\ v6' \in [Cs!Surveys -> Nat] /\ v6'[i] <= v6[i] + 1
      /\ \A s \in Cs!Surveys \ {i} : v6'[s] = v6[s]
  <2>1. ASSUME NEW s \in Cs!Surveys
        PROVE  v6'[s] = v6[s] + (IF s \in r.mailed THEN 1 ELSE 0) /\ v6[s] \in Nat
    BY <1>1, <1>2
  <2>2. ASSUME NEW s \in Cs!Surveys
        PROVE  v6'[s] \in Nat /\ v6'[s] <= v6[s] + 1 /\ (s \notin r.mailed => v6'[s] = v6[s])
    BY <2>1
  <2> QED BY <1>1, <1>4, <2>2
<1>7. SurveyFits(i)'
  <2>1. SurveyFits(i) /\ v6[i] = 0
    BY <1>2, <1>4 DEF CsatInv, SurveyFits
  <2>2. i \notin v2
    BY <1>4, <2>1 DEF SurveyFits
  <2>3. Cardinality(RemindersPast(i)') \in Nat
    <3>1. RemindersPast(i)' \in SUBSET RemindAfter[i]
      BY DEF RemindersPast
    <3> QED BY <3>1, RemindersCount
  <2>4. v6'[i] <= 1 + Cardinality(RemindersPast(i)')
    BY <1>6, <2>1, <2>3
  <2>5. OnSchedule(i, v1[i])'
    BY <1>3, <1>5 DEF OnSchedule
  <2> QED BY <1>1, <1>4, <1>5, <2>2, <2>4, <2>5 DEF SurveyFits
<1>8. \A w \in Requests \ {t} :
        (v5[w].op = "create" /\ v5[w].at = "inserted") \/ v5[w].op = "tick" => v5[w].ids \cap {i} = {}
  <2>1. ASSUME NEW w \in Requests \ {t}, v5[w].op = "create" /\ v5[w].at = "inserted"
        PROVE  v5[w].ids \cap {i} = {}
    <3>1. WorkApart(r, v5[w])
      BY DEF CsatInv
    <3> QED BY <1>1, <1>3, <2>1, <3>1 DEF WorkApart
  <2>2. ASSUME NEW w \in Requests \ {t}, v5[w].op = "tick"
        PROVE  v5[w].ids \cap {i} = {}
    <3>1. TickFits(v5[w])
      BY DEF CsatInv, SurveyWorkFits
    <3> QED BY <1>4, <2>2, <3>1 DEF TickFits, Cs!Open
  <2> QED BY <2>1, <2>2
<1>9. v1'[i].status # "none"
  BY <1>4, <1>5
<1>10. PICK I \in SUBSET Cs!Surveys : I = {i}
  OBVIOUS
<1>11. r.ids = I /\ \A s \in I : v1[s].status = "none" /\ v1'[s] = r.row
  BY <1>3, <1>4, <1>5, <1>10
<1>12. \A s \in I : SurveyFits(s)' /\ v1'[s].status # "none"
  BY <1>7, <1>9, <1>10
<1>13. \A s \in Cs!Surveys \ I : v1'[s] = v1[s] /\ v6'[s] = v6[s] /\ (s \in v2' <=> s \in v2)
  BY <1>1, <1>5, <1>6, <1>10
<1>14. v2' \subseteq Cs!Surveys
  BY <1>1, <1>2
<1>15. \A w \in Requests \ {t} :
         (v5[w].op = "create" /\ v5[w].at = "inserted") \/ v5[w].op = "tick" => v5[w].ids \cap I = {}
  BY <1>8, <1>10
<1>16. /\ r.op = "create" /\ UNCHANGED <<v3, v4, v7>> /\ v5' = [v5 EXCEPT ![t] = Cs!NoCsat]
       /\ v1' \in [Cs!Surveys -> SurveyRow] /\ v6' \in [Cs!Surveys -> Nat]
  BY <1>1, <1>5, <1>6
<1>17. /\ \A s \in I : v5[t].op # "create" => HasBeenAsked(s) /\ HasBeenAsked(s)' /\ v1'[s].sent = v1[s].sent
       /\ v5[t].op = "create" => v5[t].ids = I /\ \A s \in I : v1[s].status = "none" /\ v1'[s] = v5[t].row
  BY <1>11, <1>16
<1> HIDE DEF r
<1> QED BY <1>12, <1>13, <1>14, <1>15, <1>16, <1>17, RowsSettle

LEMMA CommitAnswerKeeps ==
  ASSUME CsatInv, Cs!CsatConstants, NEW t \in Requests, Cs!CommitAnswer(t)
  PROVE  CsatInv'
<1> DEFINE r == v5[t]
<1>1. /\ r.op = "answer" /\ r.at = "responding"
      /\ v2' = v2 \cup r.ids
      /\ v1' = [s \in Cs!Surveys |-> IF s \in r.ids THEN [v1[s] EXCEPT !.status = "answered"] ELSE v1[s]]
      /\ v5' = [v5 EXCEPT ![t] = Cs!NoCsat]
      /\ UNCHANGED <<v3, v4, v6, v7>>
  BY DEF Cs!CommitAnswer
<1>2. /\ r \in CsatWork /\ AnswererFits(r) /\ r.ids \in SUBSET Cs!Surveys
      /\ v1 \in [Cs!Surveys -> SurveyRow] /\ v6 \in [Cs!Surveys -> Nat] /\ v2 \subseteq Cs!Surveys
  BY DEF CsatInv, CsatShape, SurveyWorkFits, CsatWork
<1>3. ASSUME NEW s \in r.ids
      PROVE  /\ v1'[s] \in SurveyRow /\ v1'[s].status = "answered"
             /\ v1'[s].sent = v1[s].sent /\ v1'[s].remindAt = v1[s].remindAt
  <2>1. s \in Cs!Surveys /\ v1[s] \in SurveyRow
    BY <1>2
  <2>2. v1'[s] = [v1[s] EXCEPT !.status = "answered"]
    BY <1>1, <2>1
  <2>3. v1'[s] = [status |-> "answered", sent |-> v1[s].sent, remindAt |-> v1[s].remindAt,
                  expiresAt |-> v1[s].expiresAt]
    BY <2>1, <2>2 DEF SurveyRow
  <2>4. v1[s].sent \in Nat /\ v1[s].remindAt \in Nat /\ v1[s].expiresAt \in Nat
    BY <2>1 DEF SurveyRow
  <2> QED BY <2>3, <2>4 DEF SurveyRow
<1>4. \A s \in Cs!Surveys \ r.ids : v1'[s] = v1[s]
  BY <1>1
<1>5. v1' \in [Cs!Surveys -> SurveyRow]
  <2>1. ASSUME NEW s \in Cs!Surveys PROVE v1'[s] \in SurveyRow
    <3>1. v1[s] \in SurveyRow
      BY <1>2
    <3>2. CASE s \in r.ids
      BY <1>3, <3>2
    <3>3. CASE s \notin r.ids
      BY <1>4, <3>1, <3>3
    <3> QED BY <3>2, <3>3
  <2>2. v1' = [s \in Cs!Surveys |-> v1'[s]]
    BY <1>1
  <2> QED BY <2>1, <2>2
<1>6. ASSUME NEW s \in r.ids
      PROVE  /\ SurveyFits(s)' /\ v1'[s].status # "none"
             /\ HasBeenAsked(s) /\ HasBeenAsked(s)' /\ v1'[s].sent = v1[s].sent
  <2>1. s \in Cs!Surveys /\ SurveyFits(s) /\ HasBeenAsked(s)
    BY <1>1, <1>2 DEF CsatInv, AnswererFits
  <2>2. /\ v1'[s].status = "answered" /\ v1'[s].sent = v1[s].sent /\ v1'[s].remindAt = v1[s].remindAt
    BY <1>3
  <2>3. RemindersPast(s)' = RemindersPast(s)
    BY <2>2 DEF RemindersPast
  <2>4. OnSchedule(s, v1[s])'
    BY <2>1, <2>2 DEF SurveyFits, OnSchedule
  <2>5. s \in v2'
    BY <1>1
  <2>6. v6'[s] <= 1 + Cardinality(RemindersPast(s))
    BY <1>1, <2>1 DEF SurveyFits, HasBeenAsked
  <2>7. SurveyFits(s)'
    BY <1>1, <2>1, <2>2, <2>3, <2>4, <2>5, <2>6 DEF SurveyFits
  <2> QED BY <2>1, <2>2, <2>7 DEF HasBeenAsked
<1>7. \A w \in Requests \ {t} :
        (v5[w].op = "create" /\ v5[w].at = "inserted") \/ v5[w].op = "tick" => v5[w].ids \cap r.ids = {}
  <2>1. ASSUME NEW w \in Requests \ {t}, v5[w].op = "create" /\ v5[w].at = "inserted"
        PROVE  v5[w].ids \cap r.ids = {}
    <3>1. CreatorFits(v5[w])
      BY DEF CsatInv, SurveyWorkFits
    <3> QED BY <1>1, <1>2, <2>1, <3>1 DEF CreatorFits, AnswererFits, HasBeenAsked
  <2>2. ASSUME NEW w \in Requests \ {t}, v5[w].op = "tick"
        PROVE  v5[w].ids \cap r.ids = {}
    <3>1. WorkApart(v5[w], r)
      BY DEF CsatInv
    <3> QED BY <1>1, <2>2, <3>1 DEF WorkApart
  <2> QED BY <2>1, <2>2
<1>8. \A s \in Cs!Surveys \ r.ids : v1'[s] = v1[s] /\ v6'[s] = v6[s] /\ (s \in v2' <=> s \in v2)
  BY <1>1, <1>4
<1>9. v2' \subseteq Cs!Surveys /\ v6' \in [Cs!Surveys -> Nat]
  BY <1>1, <1>2
<1>10. r.op # "create" /\ UNCHANGED <<v3, v4, v7>> /\ v5' = [v5 EXCEPT ![t] = Cs!NoCsat]
  BY <1>1
<1>11. \A s \in r.ids : /\ SurveyFits(s)' /\ v1'[s].status # "none"
                        /\ HasBeenAsked(s) /\ HasBeenAsked(s)' /\ v1'[s].sent = v1[s].sent
  BY <1>6
<1>12. PICK I \in SUBSET Cs!Surveys : I = r.ids
  BY <1>2
<1>13. /\ \A s \in Cs!Surveys \ I : v1'[s] = v1[s] /\ v6'[s] = v6[s] /\ (s \in v2' <=> s \in v2)
       /\ \A s \in I : SurveyFits(s)' /\ v1'[s].status # "none"
       /\ \A s \in I : HasBeenAsked(s) /\ HasBeenAsked(s)' /\ v1'[s].sent = v1[s].sent
       /\ \A w \in Requests \ {t} :
            (v5[w].op = "create" /\ v5[w].at = "inserted") \/ v5[w].op = "tick" => v5[w].ids \cap I = {}
  BY <1>7, <1>8, <1>11, <1>12
<1> QED BY <1>5, <1>9, <1>10, <1>13, RowsSettle

LEMMA CommitTickKeeps ==
  ASSUME CsatInv, Cs!CsatConstants, NEW t \in Requests, Cs!CommitTick(t)
  PROVE  CsatInv'
<1> DEFINE r == v5[t]
<1>1. /\ r.op = "tick"
      /\ v1' = [s \in Cs!Surveys |->
           IF s \notin r.ids THEN v1[s]
           ELSE IF v1[s].expiresAt <= r.row.sent THEN [v1[s] EXCEPT !.status = "expired"]
           ELSE [v1[s] EXCEPT !.status = "reminded", !.remindAt = Cs!NextRemindAt(s, v1[s].sent, r.row.sent)]]
      /\ v6' = [s \in Cs!Surveys |-> v6[s] + (IF s \in r.mailed THEN 1 ELSE 0)]
      /\ v5' = [v5 EXCEPT ![t] = Cs!NoCsat]
      /\ UNCHANGED <<v2, v3, v4, v7>>
  BY Zenon DEF Cs!CommitTick, Cs!WithMailOf, Cs!Expires, Cs!TickDay
<1>2. /\ r \in CsatWork /\ TickFits(r) /\ r.ids \in SUBSET Cs!Surveys /\ r.row.sent \in Nat
      /\ v1 \in [Cs!Surveys -> SurveyRow] /\ v6 \in [Cs!Surveys -> Nat] /\ v2 \subseteq Cs!Surveys
      /\ v3 \in Nat /\ v3 <= MaxDay /\ MaxDay \in Nat
  BY DEF CsatInv, CsatShape, SurveyWorkFits, CsatWork, SurveyRow, Cs!CsatConstants
<1>3. r.row.sent <= v3 /\ r.mailed \subseteq r.ids /\ r.row.sent <= MaxDay
  <2>1. r.row.sent <= v3 /\ r.mailed \subseteq r.ids
    BY <1>1, <1>2, Zenon DEF TickFits
  <2> HIDE DEF r
  <2>2. \A n \in Nat : n <= v3 => n <= MaxDay
    BY <1>2
  <2> QED BY <1>2, <2>1, <2>2
<1>4. ASSUME NEW s \in Cs!Surveys
      PROVE  v6'[s] \in Nat /\ v6'[s] <= v6[s] + 1 /\ v6[s] \in Nat /\ (s \notin r.mailed => v6'[s] = v6[s])
  <2>1. v6'[s] = v6[s] + (IF s \in r.mailed THEN 1 ELSE 0) /\ v6[s] \in Nat
    BY <1>1, <1>2, Zenon
  <2> QED BY <2>1
<1>5. ASSUME NEW s \in r.ids
      PROVE  /\ v1'[s] \in SurveyRow /\ SurveyFits(s)' /\ v1'[s].status # "none"
             /\ HasBeenAsked(s) /\ HasBeenAsked(s)' /\ v1'[s].sent = v1[s].sent
  <2>1. /\ s \in Cs!Surveys /\ v1[s] \in SurveyRow /\ SurveyFits(s) /\ v1[s].status \in {"sent", "reminded"}
        /\ v1[s].remindAt <= r.row.sent \/ v1[s].expiresAt <= r.row.sent
    BY <1>1, <1>2, Zenon DEF CsatInv, TickFits, Cs!Open
  <2>2. /\ v1[s].sent \in Nat /\ v1[s].remindAt \in Nat /\ v1[s].expiresAt \in Nat /\ s \notin v2
        /\ HasBeenAsked(s) /\ v1[s].sent <= v3 /\ OnSchedule(s, v1[s])
        /\ v6[s] <= 1 + Cardinality(RemindersPast(s))
    BY <2>1 DEF SurveyRow, SurveyFits, HasBeenAsked
  <2>3. RemindersPast(s) \in SUBSET RemindAfter[s] /\ RemindersPast(s)' \in SUBSET RemindAfter[s]
    BY DEF RemindersPast
  <2>4. CASE v1[s].expiresAt <= r.row.sent
    <3>1. v1'[s] = [v1[s] EXCEPT !.status = "expired"]
      BY <1>1, <2>1, <2>4, Zenon
    <3>2. v1'[s] = [status |-> "expired", sent |-> v1[s].sent, remindAt |-> v1[s].remindAt,
                    expiresAt |-> v1[s].expiresAt]
      BY <2>1, <3>1 DEF SurveyRow
    <3>3. v1'[s] \in SurveyRow
      BY <2>2, <3>2 DEF SurveyRow
    <3>4. /\ v1'[s].status = "expired" /\ v1'[s].sent = v1[s].sent /\ v1'[s].remindAt = v1[s].remindAt
      BY <3>2
    <3>5. s \notin r.mailed
      BY <1>1, <1>2, <2>4, Zenon DEF TickFits
    <3>6. v6'[s] = v6[s] /\ RemindersPast(s)' = RemindersPast(s)
      BY <1>4, <2>1, <3>4, <3>5 DEF RemindersPast
    <3>7. OnSchedule(s, v1[s])'
      BY <2>2, <3>4, SMTT(30) DEF OnSchedule
    <3>8. SurveyFits(s)'
      BY <1>1, <2>2, <3>4, <3>6, <3>7, Zenon DEF SurveyFits
    <3> QED BY <2>2, <3>3, <3>4, <3>8 DEF HasBeenAsked
  <2>5. CASE ~(v1[s].expiresAt <= r.row.sent)
    <3>1. PICK d : d = Cs!NextRemindAt(s, v1[s].sent, r.row.sent)
      OBVIOUS
    <3>2. /\ d \in Nat /\ d > r.row.sent
          /\ d = Cs!Never \/ \E n \in RemindAfter[s] : d = v1[s].sent + n
      BY <1>2, <1>3, <2>1, <2>2, <3>1, NextReminder, SMTT(30)
    <3>3. v1'[s] = [v1[s] EXCEPT !.status = "reminded", !.remindAt = d]
      BY <1>1, <2>1, <2>5, <3>1, Zenon
    <3>4. v1'[s] = [status |-> "reminded", sent |-> v1[s].sent, remindAt |-> d, expiresAt |-> v1[s].expiresAt]
      BY <2>1, <3>3 DEF SurveyRow
    <3>5. v1'[s] \in SurveyRow
      BY <2>2, <3>2, <3>4 DEF SurveyRow
    <3>6. v1'[s].status = "reminded" /\ v1'[s].sent = v1[s].sent /\ v1'[s].remindAt = d
      BY <3>4
    <3>7. v1[s].remindAt <= r.row.sent
      BY <2>1, <2>5
    <3>8. PICK n \in RemindAfter[s] : v1[s].remindAt = v1[s].sent + n
      BY <1>2, <1>3, <2>2, <3>7 DEF OnSchedule, Cs!Never
    <3>9. \A m \in RemindAfter[s] : m \in Nat
      BY <2>1 DEF Cs!CsatConstants
    <3>10. n \in RemindersPast(s)' /\ n \notin RemindersPast(s)
      BY <1>2, <2>2, <3>2, <3>6, <3>7, <3>8, <3>9 DEF RemindersPast
    <3>11. RemindersPast(s) \subseteq RemindersPast(s)'
      BY <1>2, <2>2, <3>2, <3>6, <3>7, <3>9 DEF RemindersPast
    <3>12. Cardinality(RemindersPast(s)) < Cardinality(RemindersPast(s)')
      BY <2>1, <2>3, <3>10, <3>11, RemindersCount
    <3>13. Cardinality(RemindersPast(s)) \in Nat /\ Cardinality(RemindersPast(s)') \in Nat
      BY <2>1, <2>3, RemindersCount
    <3>14. v6'[s] <= 1 + Cardinality(RemindersPast(s)')
      BY <1>4, <2>1, <2>2, <3>12, <3>13
    <3>15. OnSchedule(s, v1[s])'
      BY <3>2, <3>6, SMTT(30) DEF OnSchedule
    <3>16. SurveyFits(s)'
      BY <1>1, <2>2, <3>6, <3>14, <3>15, Zenon DEF SurveyFits
    <3> QED BY <2>2, <3>5, <3>6, <3>16 DEF HasBeenAsked
  <2> QED BY <2>4, <2>5
<1>6. \A s \in Cs!Surveys \ r.ids : v1'[s] = v1[s] /\ v6'[s] = v6[s] /\ (s \in v2' <=> s \in v2)
  BY <1>1, <1>3, <1>4, ZenonT(60)
<1>7. v1' \in [Cs!Surveys -> SurveyRow] /\ v6' \in [Cs!Surveys -> Nat] /\ v2' \subseteq Cs!Surveys
  <2>1. ASSUME NEW s \in Cs!Surveys PROVE v1'[s] \in SurveyRow
    <3>1. v1[s] \in SurveyRow
      BY <1>2
    <3> QED BY <1>5, <1>6, <3>1
  <2>2. v1' = [s \in Cs!Surveys |-> v1'[s]] /\ v6' = [s \in Cs!Surveys |-> v6'[s]]
    BY <1>1, ZenonT(60)
  <2> QED BY <1>1, <1>2, <1>4, <2>1, <2>2, Zenon
<1>8. \A w \in Requests \ {t} :
        (v5[w].op = "create" /\ v5[w].at = "inserted") \/ v5[w].op = "tick" => v5[w].ids \cap r.ids = {}
  <2>1. ASSUME NEW w \in Requests \ {t}, v5[w].op = "create" /\ v5[w].at = "inserted"
        PROVE  v5[w].ids \cap r.ids = {}
    <3>1. CreatorFits(v5[w])
      BY DEF CsatInv, SurveyWorkFits
    <3> QED BY <1>1, <1>2, <2>1, <3>1, Zenon DEF CreatorFits, TickFits, Cs!Open
  <2>2. ASSUME NEW w \in Requests \ {t}, v5[w].op = "tick"
        PROVE  v5[w].ids \cap r.ids = {}
    <3>1. WorkApart(v5[w], r)
      BY DEF CsatInv
    <3> QED BY <1>1, <2>2, <3>1, Zenon DEF WorkApart
  <2> QED BY <2>1, <2>2
<1>9. r.op # "create" /\ UNCHANGED <<v3, v4, v7>> /\ v5' = [v5 EXCEPT ![t] = Cs!NoCsat]
  BY <1>1, Zenon
<1>10. PICK I \in SUBSET Cs!Surveys : I = r.ids
  BY <1>2
<1>11. /\ \A s \in Cs!Surveys \ I : v1'[s] = v1[s] /\ v6'[s] = v6[s] /\ (s \in v2' <=> s \in v2)
       /\ \A s \in I : SurveyFits(s)' /\ v1'[s].status # "none"
       /\ \A s \in I : HasBeenAsked(s) /\ HasBeenAsked(s)' /\ v1'[s].sent = v1[s].sent
       /\ \A w \in Requests \ {t} :
            (v5[w].op = "create" /\ v5[w].at = "inserted") \/ v5[w].op = "tick" => v5[w].ids \cap I = {}
  BY <1>5, <1>6, <1>8, <1>10
<1> QED BY <1>7, <1>9, <1>11, RowsSettle

LEMMA NextDayKeeps ==
  ASSUME CsatInv, Cs!CsatConstants, Cs!NextDay
  PROVE  CsatInv'
<1>1. v3 < MaxDay /\ v3' = v3 + 1 /\ UNCHANGED <<v1, v2, v4, v5, v6, v7>>
  BY DEF Cs!NextDay
<1>2. v3 \in Nat /\ MaxDay \in Nat
  BY DEF CsatInv, CsatShape, Cs!CsatConstants
<1>3. v3' \in Nat /\ v3' <= MaxDay /\ \A n \in Nat : n <= v3 => n <= v3'
  BY <1>1, <1>2
<1>4. CsatShape'
  BY <1>1, <1>3 DEF CsatInv, CsatShape
<1>5. ASSUME NEW s \in Cs!Surveys PROVE SurveyFits(s)'
  <2>1. SurveyFits(s) /\ v1[s].sent \in Nat
    BY DEF CsatInv, CsatShape, SurveyRow
  <2>2. RemindersPast(s)' = RemindersPast(s)
    BY <1>1 DEF RemindersPast
  <2> QED BY <1>1, <1>3, <2>1, <2>2 DEF SurveyFits, OnSchedule
<1>6. ASSUME NEW w \in Requests PROVE SurveyWorkFits(v5[w])'
  <2>1. SurveyWorkFits(v5[w]) /\ v5[w].row.sent \in Nat
    BY DEF CsatInv, CsatShape, CsatWork, SurveyRow
  <2> QED BY <1>1, <1>3, <2>1 DEF SurveyWorkFits, CreatorFits, AnswererFits, TickFits, HasBeenAsked, OnSchedule
<1>7. \A w, x \in Requests : w # x => WorkApart(v5[w], v5[x])'
  BY <1>1 DEF CsatInv, WorkApart
<1>8. CapFits'
  BY <1>1 DEF CsatInv, CapFits, HasBeenAsked
<1> QED BY <1>4, <1>5, <1>6, <1>7, <1>8 DEF CsatInv

LEMMA CsatStep ==
  ASSUME CsatInv, Cs!CsatConstants, [Cs!CsatNext]_(Cs!csatVars)
  PROVE  CsatInv'
<1>1. CASE UNCHANGED Cs!csatVars
  <2>1. UNCHANGED <<v1, v2, v3, v4, v5, v6, v7>>
    BY <1>1 DEF Cs!csatVars
  <2>2. CsatShape'
    BY <2>1 DEF CsatInv, CsatShape
  <2>3. \A s \in Cs!Surveys : SurveyFits(s)'
    BY <2>1 DEF CsatInv, SurveyFits, OnSchedule, RemindersPast
  <2>4. \A t \in Requests : SurveyWorkFits(v5[t])'
    BY <2>1 DEF CsatInv, SurveyWorkFits, CreatorFits, AnswererFits, TickFits, HasBeenAsked, OnSchedule
  <2>5. CapFits' /\ \A t, u \in Requests : t # u => WorkApart(v5[t], v5[u])'
    BY <2>1 DEF CsatInv, CapFits, HasBeenAsked, WorkApart
  <2> QED BY <2>2, <2>3, <2>4, <2>5 DEF CsatInv
<1>2. ASSUME NEW t \in Requests,
             Cs!DecideSurvey(t) \/ Cs!InsertSurvey(t) \/ Cs!Prompt(t) \/ Cs!CommitSurvey(t)
      PROVE  CsatInv'
  BY <1>2, DecideSurveyKeeps, InsertSurveyKeeps, PromptKeeps, CommitSurveyKeeps
<1>3. ASSUME NEW t \in Requests, Cs!OpenSurvey(t) \/ Cs!InsertResponse(t) \/ Cs!CommitAnswer(t)
      PROVE  CsatInv'
  BY <1>3, OpenSurveyKeeps, InsertResponseKeeps, CommitAnswerKeeps
<1>4. ASSUME NEW t \in Requests,
             Cs!StartTick(t) \/ Cs!HandleDue(t) \/ Cs!CommitTick(t) \/ Cs!AbortCsat(t)
      PROVE  CsatInv'
  BY <1>4, StartTickKeeps, HandleDueKeeps, CommitTickKeeps, AbortCsatKeeps
<1> QED BY <1>1, <1>2, <1>3, <1>4, NextDayKeeps DEF Cs!CsatNext

LEMMA CsatMeans ==
  ASSUME CsatInv, Cs!CsatConstants
  PROVE  Cs!AnsweredHasResponse /\ Cs!RemindsOnlyTheOpen /\ Cs!MailsAreBounded /\ Cs!DailyCapHolds
<1>1. Cs!AnsweredHasResponse
  BY DEF CsatInv, SurveyFits, Cs!AnsweredHasResponse
<1>2. ASSUME NEW t \in Requests, v5[t].op = "tick" PROVE v5[t].ids \cap v2 = {}
  <2>1. v5[t].ids \subseteq Cs!Surveys /\ TickFits(v5[t])
    BY DEF CsatInv, CsatShape, CsatWork, SurveyWorkFits
  <2> QED BY <1>2, <2>1 DEF CsatInv, TickFits, SurveyFits, Cs!Open
<1>3. ASSUME NEW s \in Cs!Surveys PROVE v6[s] <= 1 + Cs!Cardinality(RemindAfter[s])
  <2>1. v6[s] \in Nat /\ v6[s] <= IF v1[s].status = "none" THEN 0 ELSE 1 + Cardinality(RemindersPast(s))
    BY DEF CsatInv, CsatShape, SurveyFits
  <2>2. RemindersPast(s) \in SUBSET RemindAfter[s]
    BY DEF RemindersPast
  <2>3. /\ Cardinality(RemindersPast(s)) <= Cardinality(RemindAfter[s])
        /\ Cardinality(RemindersPast(s)) \in Nat /\ Cardinality(RemindAfter[s]) \in Nat
    BY <2>2, RemindersCount
  <2>4. Cs!Cardinality(RemindAfter[s]) = Cardinality(RemindAfter[s])
    BY DEF Cardinality, Cs!Cardinality
  <2> QED BY <2>1, <2>3, <2>4
<1>4. Cs!DailyCapHolds
  BY DEF CsatInv, CapFits, HasBeenAsked, Cs!DailyCapHolds
<1> QED BY <1>1, <1>2, <1>3, <1>4 DEF Cs!RemindsOnlyTheOpen, Cs!MailsAreBounded

-----------------------------------------------------------------------------
(* Notifications that collapse (Ntf)                                       *)

(* s adds up what the first n rows count.                                  *)
AddsUp(s, rows, n) == s = [i \in 0 .. n |-> IF i = 0 THEN 0 ELSE s[i - 1] + rows[i].count]

LEMMA CountExists ==
  ASSUME NEW N \in Nat, NEW rows
  PROVE  \E s : AddsUp(s, rows, N)
<1> DEFINE T == {n \in 0..N : ~\E s : AddsUp(s, rows, n)}
<1>1. SUFFICES ASSUME T # {} PROVE FALSE
  <2>1. N \in 0..N
    OBVIOUS
  <2> QED BY <2>1
<1>2. PICK n \in T : \A m \in T : n <= m
  <2>1. T \subseteq Nat
    OBVIOUS
  <2> HIDE DEF T
  <2> QED BY <1>1, <2>1, LeastNumber
<1>3. n \in 0..N /\ ~\E s : AddsUp(s, rows, n)
  OBVIOUS
<1>4. n # 0
  <2>1. AddsUp([i \in 0..0 |-> 0], rows, 0)
    BY DEF AddsUp
  <2> QED BY <1>3, <2>1
<1>5. n - 1 \in 0..N /\ n - 1 \notin T
  BY <1>2, <1>3, <1>4
<1>6. PICK s : AddsUp(s, rows, n - 1)
  BY <1>5
<1> DEFINE t == [i \in 0..n |-> IF i = n THEN s[n - 1] + rows[n].count ELSE s[i]]
<1>7. AddsUp(t, rows, n)
  <2>1. ASSUME NEW i \in 0..n
        PROVE  t[i] = IF i = 0 THEN 0 ELSE t[i - 1] + rows[i].count
    <3>1. CASE i = n
      <4>1. t[n - 1] = s[n - 1]
        BY <1>3, <1>4
      <4> QED BY <1>3, <1>4, <3>1, <4>1
    <3>2. CASE i # n
      <4>1. i \in 0..(n - 1) /\ t[i] = s[i]
        BY <1>3, <3>2
      <4>2. s[i] = IF i = 0 THEN 0 ELSE s[i - 1] + rows[i].count
        BY <1>6, <4>1 DEF AddsUp
      <4>3. i # 0 => t[i - 1] = s[i - 1]
        BY <1>3, <4>1
      <4> QED BY <4>1, <4>2, <4>3
    <3> QED BY <3>1, <3>2
  <2>2. t = [i \in 0..n |-> t[i]]
    OBVIOUS
  <2> HIDE DEF t
  <2> QED BY <2>1, <2>2 DEF AddsUp
<1> QED BY <1>3, <1>7

LEMMA WhatIsCounted ==
  ASSUME NEW rows, Len(rows) \in Nat
  PROVE  \E s : AddsUp(s, rows, Len(rows)) /\ Ntf!Counted(rows) = s[Len(rows)]
<1> DEFINE s == CHOOSE f : f = [i \in 0 .. Len(rows) |-> IF i = 0 THEN 0 ELSE f[i - 1] + rows[i].count]
<1>1. Ntf!Counted(rows) = s[Len(rows)]
  BY DEF Ntf!Counted
<1>2. AddsUp(s, rows, Len(rows))
  <2>1. \E f : AddsUp(f, rows, Len(rows))
    BY CountExists
  <2>2. \E f : f = [i \in 0 .. Len(rows) |-> IF i = 0 THEN 0 ELSE f[i - 1] + rows[i].count]
    BY <2>1, Zenon DEF AddsUp
  <2>3. s = [i \in 0 .. Len(rows) |-> IF i = 0 THEN 0 ELSE s[i - 1] + rows[i].count]
    BY <2>2, Zenon
  <2> QED BY <2>3, Zenon DEF AddsUp
<1> HIDE DEF s
<1> QED BY <1>1, <1>2

(* The second rows count what the first do, the j-th one more.             *)
OneMore(rows1, rows2, j, N) ==
  \A i \in 1..N : /\ rows1[i].count \in Nat
                  /\ rows2[i].count = rows1[i].count + (IF i = j THEN 1 ELSE 0)

LEMMA OneMoreCounted ==
  ASSUME NEW N \in Nat, NEW j \in Nat, NEW s1, NEW s2, NEW rows1, NEW rows2,
         AddsUp(s1, rows1, N), AddsUp(s2, rows2, N), OneMore(rows1, rows2, j, N)
  PROVE  s1[N] \in Nat /\ s2[N] = s1[N] + (IF 0 < j /\ j <= N THEN 1 ELSE 0)
<1> DEFINE Fits(n) == s1[n] \in Nat /\ s2[n] = s1[n] + (IF 0 < j /\ j <= n THEN 1 ELSE 0)
           T == {n \in 0..N : ~Fits(n)}
<1>1. SUFFICES ASSUME T # {} PROVE FALSE
  <2>1. N \in 0..N
    OBVIOUS
  <2> QED BY <2>1
<1>2. PICK n \in T : \A m \in T : n <= m
  <2>1. T \subseteq Nat
    OBVIOUS
  <2> HIDE DEF T
  <2> QED BY <1>1, <2>1, LeastNumber
<1>3. n \in 0..N /\ ~Fits(n)
  OBVIOUS
<1>4. /\ s1[n] = IF n = 0 THEN 0 ELSE s1[n - 1] + rows1[n].count
      /\ s2[n] = IF n = 0 THEN 0 ELSE s2[n - 1] + rows2[n].count
  BY <1>3 DEF AddsUp
<1>5. CASE n = 0
  BY <1>3, <1>4, <1>5
<1>6. CASE n # 0
  <2>1. n - 1 \in 0..N /\ n - 1 \notin T /\ n \in 1..N
    BY <1>2, <1>3, <1>6
  <2>2. Fits(n - 1)
    BY <2>1
  <2>3. /\ s1[n] = s1[n - 1] + rows1[n].count
        /\ s2[n] = s2[n - 1] + rows2[n].count
    BY <1>4, <1>6
  <2>4. /\ rows1[n].count \in Nat
        /\ rows2[n].count = rows1[n].count + (IF n = j THEN 1 ELSE 0)
    BY <2>1 DEF OneMore
  <2> QED BY <1>3, <2>1, <2>2, <2>3, <2>4
<1> QED BY <1>5, <1>6

LEMMA CountedMore ==
  ASSUME NEW rows1, NEW rows2, NEW N \in Nat, NEW j \in Nat, Len(rows1) = N, Len(rows2) = N,
         OneMore(rows1, rows2, j, N)
  PROVE  /\ Ntf!Counted(rows1) \in Nat
         /\ Ntf!Counted(rows2) = Ntf!Counted(rows1) + (IF 0 < j /\ j <= N THEN 1 ELSE 0)
<1>1. PICK s1 : AddsUp(s1, rows1, N) /\ Ntf!Counted(rows1) = s1[N]
  BY WhatIsCounted
<1>2. PICK s2 : AddsUp(s2, rows2, N) /\ Ntf!Counted(rows2) = s2[N]
  BY WhatIsCounted
<1>3. s1[N] \in Nat /\ s2[N] = s1[N] + (IF 0 < j /\ j <= N THEN 1 ELSE 0)
  BY <1>1, <1>2, OneMoreCounted
<1> QED BY <1>1, <1>2, <1>3

NoteRow == [count : Nat, read : BOOLEAN]

LEMMA CountedNew ==
  ASSUME NEW rows \in Seq(NoteRow), NEW r \in NoteRow
  PROVE  Ntf!Counted(Append(rows, r)) = Ntf!Counted(rows) + r.count
<1> DEFINE N == Len(rows)
           more == Append(rows, r)
<1>1. N \in Nat /\ Len(more) = N + 1 /\ more[N + 1] = r /\ \A i \in 1..N : more[i] = rows[i]
  OBVIOUS
<1>2. PICK s1 : AddsUp(s1, rows, N) /\ Ntf!Counted(rows) = s1[N]
  BY <1>1, WhatIsCounted
<1>3. PICK s2 : AddsUp(s2, more, N + 1) /\ Ntf!Counted(more) = s2[N + 1]
  <2>1. Len(more) \in Nat
    BY <1>1
  <2> HIDE DEF more
  <2>2. \E s : AddsUp(s, more, Len(more)) /\ Ntf!Counted(more) = s[Len(more)]
    BY <2>1, WhatIsCounted
  <2> QED BY <1>1, <2>2
<1>4. \A i \in 1..N : rows[i].count \in Nat
  <2>1. \A i \in 1..N : rows[i] \in NoteRow
    OBVIOUS
  <2> QED BY <2>1 DEF NoteRow
<1> HIDE DEF N, more
<1> DEFINE s == [i \in 0..N |-> s2[i]]
<1>5. AddsUp(s, rows, N)
  <2>1. ASSUME NEW i \in 0..N
        PROVE  s[i] = IF i = 0 THEN 0 ELSE s[i - 1] + rows[i].count
    <3>0. i \in 0..(N + 1)
      BY <1>1
    <3>1. s2[i] = IF i = 0 THEN 0 ELSE s2[i - 1] + more[i].count
      BY <1>3, <3>0 DEF AddsUp
    <3>2. i # 0 => i - 1 \in 0..N /\ i \in 1..N
      BY <1>1
    <3> QED BY <1>1, <3>1, <3>2
  <2>2. s = [i \in 0..N |-> s[i]]
    OBVIOUS
  <2> HIDE DEF s
  <2> QED BY <2>1, <2>2 DEF AddsUp
<1>6. s1[N] \in Nat /\ s[N] = s1[N] + (IF 0 < N + 1 /\ N + 1 <= N THEN 1 ELSE 0)
  <2>1. OneMore(rows, rows, N + 1, N)
    BY <1>1, <1>4 DEF OneMore
  <2>2. N \in Nat /\ N + 1 \in Nat
    BY <1>1
  <2> HIDE DEF s
  <2> QED BY <1>2, <1>5, <2>1, <2>2, OneMoreCounted
<1>7. s2[N] = s1[N] /\ s1[N] \in Nat
  <2>1. N \in 0..N
    BY <1>1
  <2>2. s[N] = s1[N] /\ s1[N] \in Nat
    BY <1>1, <1>6
  <2> QED BY <2>1, <2>2
<1>8. s2[N + 1] = s2[N] + more[N + 1].count
  BY <1>1, <1>3 DEF AddsUp
<1> QED BY <1>1, <1>2, <1>3, <1>7, <1>8 DEF more

Telling == [at : {"update", "insert"}, todo : Seq(Recipients),
            absorbed : SUBSET Recipients, inserted : SUBSET Recipients]

NoteShape ==
  /\ v1 \in [Recipients -> Seq(NoteRow)]
  /\ v2 \in [Requests -> Telling \cup {Ntf!Quiet}]
  /\ v3 \in [Recipients -> Nat] /\ \A u \in Recipients : v3[u] <= Len(v1[u])
  /\ v5 \in [Recipients -> Nat] /\ v6 \in [Recipients -> Nat]

(* What a change has written and not committed still fits: an unread row to *)
(* absorb into, or none beside the one it inserted.                        *)
ChangeFits(t) ==
  v2[t] # Ntf!Quiet =>
    /\ v2[t].at = "insert" => v2[t].todo # <<>>
    /\ \A u \in v2[t].absorbed : Ntf!Unread(u) # {}
    /\ \A u \in v2[t].inserted : Ntf!Unread(u) = {}

WriteApart(t, w) ==
  v2[t] # Ntf!Quiet /\ v2[w] # Ntf!Quiet =>
    v2[t].absorbed \cap v2[w].absorbed = {} /\ v2[t].inserted \cap v2[w].inserted = {}

RecipientFits(u) ==
  /\ \A i, j \in Ntf!Unread(u) : i = j
  /\ v5[u] = Ntf!Counted(v1[u])
  /\ Ntf!Unread(u) = {} => v6[u] = v5[u]

NoteInv ==
  /\ NoteShape
  /\ \A t \in Requests : ChangeFits(t)
  /\ \A t \in Requests : \A w \in Requests \ {t} : WriteApart(t, w)
  /\ \A u \in Recipients : RecipientFits(u)

LEMMA QuietIsNoChange == Ntf!Quiet \notin Telling /\ \A r \in Telling : r # Ntf!Quiet
BY DEF Ntf!Quiet, Telling

LEMMA NoteStarts ==
  ASSUME Ntf!NoteInit
  PROVE  NoteInv
<1>1. /\ v1 = [u \in Recipients |-> <<>>] /\ v2 = [t \in Requests |-> Ntf!Quiet]
      /\ v3 = [u \in Recipients |-> 0]
      /\ v5 = [u \in Recipients |-> 0] /\ v6 = [u \in Recipients |-> 0]
  BY DEF Ntf!NoteInit, Ntf!Closed
<1>2. NoteShape
  <2>1. v1 \in [Recipients -> Seq(NoteRow)] /\ \A u \in Recipients : Len(v1[u]) = 0
    BY <1>1
  <2> QED BY <1>1, <2>1 DEF NoteShape
<1>3. \A t \in Requests : ChangeFits(t) /\ \A w \in Requests \ {t} : WriteApart(t, w)
  BY <1>1 DEF ChangeFits, WriteApart
<1>4. ASSUME NEW u \in Recipients PROVE RecipientFits(u)
  <2>1. Ntf!Unread(u) = {}
    BY <1>1 DEF Ntf!Unread
  <2>2. PICK s : AddsUp(s, <<>>, 0) /\ Ntf!Counted(<<>>) = s[0]
    <3>1. Len(<<>>) = 0
      OBVIOUS
    <3> QED BY <3>1, WhatIsCounted
  <2>3. s[0] = 0
    BY <2>2 DEF AddsUp
  <2> QED BY <1>1, <2>1, <2>2, <2>3 DEF RecipientFits
<1> QED BY <1>2, <1>3, <1>4 DEF NoteInv

LEMMA SameCounted ==
  ASSUME NEW rows1, NEW rows2, NEW N \in Nat, Len(rows1) = N, Len(rows2) = N,
         \A i \in 1..N : rows1[i].count \in Nat /\ rows2[i].count = rows1[i].count
  PROVE  Ntf!Counted(rows2) = Ntf!Counted(rows1)
<1>1. OneMore(rows1, rows2, N + 1, N)
  BY DEF OneMore
<1>2. N + 1 \in Nat
  OBVIOUS
<1>3. /\ Ntf!Counted(rows1) \in Nat
      /\ Ntf!Counted(rows2) = Ntf!Counted(rows1) + (IF 0 < N + 1 /\ N + 1 <= N THEN 1 ELSE 0)
  BY <1>1, <1>2, CountedMore
<1> QED BY <1>3

(* Only what one change has in hand moves.                                 *)
LEMMA OneChangeMoves ==
  ASSUME NoteInv, UNCHANGED <<v1, v3, v5, v6>>, NEW t \in Requests, NEW q \in Telling \cup {Ntf!Quiet},
         v2' = [v2 EXCEPT ![t] = q],
         q # Ntf!Quiet =>
           /\ q.at = "insert" => q.todo # <<>>
           /\ \A u \in q.absorbed : Ntf!Unread(u) # {}
           /\ \A u \in q.inserted : Ntf!Unread(u) = {}
           /\ \A w \in Requests \ {t} : v2[w] # Ntf!Quiet =>
                q.absorbed \cap v2[w].absorbed = {} /\ q.inserted \cap v2[w].inserted = {}
  PROVE  NoteInv'
<1>1. /\ v2' \in [Requests -> Telling \cup {Ntf!Quiet}] /\ v2'[t] = q
      /\ \A w \in Requests \ {t} : v2'[w] = v2[w]
  BY DEF NoteInv, NoteShape
<1>2. \A u : Ntf!Unread(u)' = Ntf!Unread(u)
  BY DEF Ntf!Unread
<1>3. NoteShape'
  BY <1>1 DEF NoteInv, NoteShape
<1>4. ASSUME NEW w \in Requests PROVE ChangeFits(w)'
  BY <1>1, <1>2 DEF NoteInv, ChangeFits
<1>5. ASSUME NEW w \in Requests, NEW x \in Requests \ {w} PROVE WriteApart(w, x)'
  <2>1. WriteApart(w, x)
    BY DEF NoteInv
  <2> QED BY <1>1, <2>1 DEF WriteApart
<1>6. ASSUME NEW u \in Recipients PROVE RecipientFits(u)'
  BY <1>2 DEF NoteInv, RecipientFits
<1> QED BY <1>3, <1>4, <1>5, <1>6 DEF NoteInv

LEMMA ChangeKeeps ==
  ASSUME NoteInv, Ntf!NoteConstants, NEW t \in Requests, NEW order \in Orders, Ntf!Change(t, order)
  PROVE  NoteInv'
<1> DEFINE q == [at |-> "update", todo |-> order, absorbed |-> {}, inserted |-> {}]
<1>1. v2' = [v2 EXCEPT ![t] = q] /\ UNCHANGED <<v1, v3, v5, v6>>
  BY DEF Ntf!Change
<1>2. q \in Telling
  BY DEF Telling, Ntf!NoteConstants
<1>3. /\ q.at # "insert" /\ q.absorbed = {} /\ q.inserted = {}
  OBVIOUS
<1> HIDE DEF q
<1> QED BY <1>1, <1>2, <1>3, OneChangeMoves

LEMMA RollbackChangeKeeps ==
  ASSUME NoteInv, NEW t \in Requests, Ntf!RollbackChange(t)
  PROVE  NoteInv'
<1>1. v2' = [v2 EXCEPT ![t] = Ntf!Quiet] /\ UNCHANGED <<v1, v3, v5, v6>>
  BY DEF Ntf!RollbackChange
<1> QED BY <1>1, OneChangeMoves

LEMMA AbsorbKeeps ==
  ASSUME NoteInv, NEW t \in Requests, Ntf!Absorb(t)
  PROVE  NoteInv'
<1> DEFINE r == v2[t]
           u == Head(v2[t].todo)
<1>1. /\ r.at = "update" /\ r.todo # <<>>
      /\ Ntf!Unread(u) # {} => ~Ntf!Absorbing(t, u)
      /\ v2' = [v2 EXCEPT ![t] = IF Ntf!Unread(u) = {} THEN [r EXCEPT !.at = "insert"]
                                 ELSE [r EXCEPT !.todo = Tail(@), !.absorbed = @ \cup {u}]]
      /\ UNCHANGED <<v1, v3, v5, v6>>
  BY DEF Ntf!Absorb
<1>2. r \in Telling /\ r # Ntf!Quiet
  <2>1. r \in Telling \cup {Ntf!Quiet}
    BY DEF NoteInv, NoteShape
  <2>2. r # Ntf!Quiet
    BY <1>1 DEF Ntf!Quiet
  <2> QED BY <2>1, <2>2
<1>3. r.todo \in Seq(Recipients) /\ u \in Recipients /\ Tail(r.todo) \in Seq(Recipients)
  <2>1. r.todo \in Seq(Recipients)
    BY <1>2 DEF Telling
  <2> QED BY <1>1, <2>1
<1>4. /\ \A x \in r.absorbed : Ntf!Unread(x) # {}
      /\ \A x \in r.inserted : Ntf!Unread(x) = {}
      /\ \A w \in Requests \ {t} : v2[w] # Ntf!Quiet =>
           r.absorbed \cap v2[w].absorbed = {} /\ r.inserted \cap v2[w].inserted = {}
  BY <1>2 DEF NoteInv, ChangeFits, WriteApart
<1>5. CASE Ntf!Unread(u) = {}
  <2>1. PICK q : q = [r EXCEPT !.at = "insert"]
    OBVIOUS
  <2>2. q \in Telling /\ q.at = "insert" /\ q.todo = r.todo /\ q.absorbed = r.absorbed /\ q.inserted = r.inserted
    BY <1>2, <2>1 DEF Telling
  <2>3. v2' = [v2 EXCEPT ![t] = q]
    BY <1>1, <1>5, <2>1
  <2> HIDE DEF r, u
  <2> QED BY <1>1, <1>4, <2>2, <2>3, OneChangeMoves, SMTT(30)
<1>6. CASE Ntf!Unread(u) # {}
  <2>1. PICK q : q = [r EXCEPT !.todo = Tail(@), !.absorbed = @ \cup {u}]
    OBVIOUS
  <2>2. q = [at |-> r.at, todo |-> Tail(r.todo), absorbed |-> r.absorbed \cup {u}, inserted |-> r.inserted]
    BY <1>2, <2>1 DEF Telling
  <2>3. q \in Telling /\ q.at = "update" /\ q.absorbed = r.absorbed \cup {u} /\ q.inserted = r.inserted
    BY <1>1, <1>2, <1>3, <2>2 DEF Telling
  <2>4. v2' = [v2 EXCEPT ![t] = q]
    BY <1>1, <1>6, <2>1
  <2>5. \A w \in Requests \ {t} : v2[w] # Ntf!Quiet => u \notin v2[w].absorbed
    BY <1>1, <1>6 DEF Ntf!Absorbing, Ntf!Others
  <2> HIDE DEF r, u
  <2>6. \A x \in q.absorbed : Ntf!Unread(x) # {}
    BY <1>4, <1>6, <2>3
  <2>7. \A w \in Requests \ {t} : v2[w] # Ntf!Quiet =>
           q.absorbed \cap v2[w].absorbed = {} /\ q.inserted \cap v2[w].inserted = {}
    BY <1>4, <2>3, <2>5
  <2>8. \A x \in q.inserted : Ntf!Unread(x) = {}
    BY <1>4, <2>3
  <2>9. q.at # "insert"
    BY <2>3
  <2> QED BY <1>1, <2>3, <2>4, <2>6, <2>7, <2>8, <2>9, OneChangeMoves
<1> QED BY <1>5, <1>6

LEMMA InsertKeeps ==
  ASSUME NoteInv, NEW t \in Requests, Ntf!Insert(t)
  PROVE  NoteInv'
<1> DEFINE r == v2[t]
           u == Head(v2[t].todo)
<1>1. /\ r.at = "insert" /\ Ntf!Unread(u) = {} /\ ~Ntf!Inserting(t, u)
      /\ v2' = [v2 EXCEPT ![t] = [r EXCEPT !.at = "update", !.todo = Tail(@), !.inserted = @ \cup {u}]]
      /\ UNCHANGED <<v1, v3, v5, v6>>
  BY DEF Ntf!Insert
<1>2. r \in Telling /\ r # Ntf!Quiet
  <2>1. r \in Telling \cup {Ntf!Quiet}
    BY DEF NoteInv, NoteShape
  <2>2. r # Ntf!Quiet
    BY <1>1 DEF Ntf!Quiet
  <2> QED BY <2>1, <2>2
<1>4. /\ r.todo # <<>>
      /\ \A x \in r.absorbed : Ntf!Unread(x) # {}
      /\ \A x \in r.inserted : Ntf!Unread(x) = {}
      /\ \A w \in Requests \ {t} : v2[w] # Ntf!Quiet =>
           r.absorbed \cap v2[w].absorbed = {} /\ r.inserted \cap v2[w].inserted = {}
  BY <1>1, <1>2 DEF NoteInv, ChangeFits, WriteApart
<1>3. u \in Recipients /\ Tail(r.todo) \in Seq(Recipients)
  <2>1. r.todo \in Seq(Recipients)
    BY <1>2 DEF Telling
  <2> QED BY <1>4, <2>1
<1>5. PICK q : q = [r EXCEPT !.at = "update", !.todo = Tail(@), !.inserted = @ \cup {u}]
  OBVIOUS
<1>6. q = [at |-> "update", todo |-> Tail(r.todo), absorbed |-> r.absorbed, inserted |-> r.inserted \cup {u}]
  BY <1>2, <1>5 DEF Telling
<1>7. q \in Telling /\ q.at = "update" /\ q.absorbed = r.absorbed /\ q.inserted = r.inserted \cup {u}
  BY <1>2, <1>3, <1>6 DEF Telling
<1>8. v2' = [v2 EXCEPT ![t] = q]
  BY <1>1, <1>5
<1>9. \A w \in Requests \ {t} : v2[w] # Ntf!Quiet => u \notin v2[w].inserted
  BY <1>1 DEF Ntf!Inserting, Ntf!Others
<1> HIDE DEF r, u
<1>10. \A x \in q.inserted : Ntf!Unread(x) = {}
  BY <1>1, <1>4, <1>7
<1>11. \A x \in q.absorbed : Ntf!Unread(x) # {}
  BY <1>4, <1>7
<1>12. \A w \in Requests \ {t} : v2[w] # Ntf!Quiet =>
         q.absorbed \cap v2[w].absorbed = {} /\ q.inserted \cap v2[w].inserted = {}
  BY <1>4, <1>7, <1>9
<1>13. q.at # "insert"
  BY <1>7
<1> QED BY <1>1, <1>7, <1>8, <1>10, <1>11, <1>12, <1>13, OneChangeMoves

LEMMA CommitChangeKeeps ==
  ASSUME NoteInv, NEW t \in Requests, Ntf!CommitChange(t)
  PROVE  NoteInv'
<1> DEFINE r == v2[t]
           absorb(rows) == [i \in DOMAIN rows |-> IF rows[i].read THEN rows[i] ELSE [rows[i] EXCEPT !.count = @ + 1]]
           fresh == [count |-> 1, read |-> FALSE]
<1>1. /\ r.at = "update"
      /\ v1' = [u \in Recipients |-> IF u \in r.absorbed THEN absorb(v1[u])
                                     ELSE IF u \in r.inserted THEN Append(v1[u], fresh) ELSE v1[u]]
      /\ v5' = [u \in Recipients |-> IF u \in r.absorbed \cup r.inserted THEN v5[u] + 1 ELSE v5[u]]
      /\ v2' = [v2 EXCEPT ![t] = Ntf!Quiet]
      /\ UNCHANGED <<v3, v6>>
  BY DEF Ntf!CommitChange
<1>2. r \in Telling /\ r # Ntf!Quiet
  <2>1. r \in Telling \cup {Ntf!Quiet}
    BY DEF NoteInv, NoteShape
  <2>2. r # Ntf!Quiet
    BY <1>1 DEF Ntf!Quiet
  <2> QED BY <2>1, <2>2
<1>3. /\ \A x \in r.absorbed : Ntf!Unread(x) # {}
      /\ \A x \in r.inserted : Ntf!Unread(x) = {}
      /\ \A w \in Requests \ {t} : v2[w] # Ntf!Quiet =>
           r.absorbed \cap v2[w].absorbed = {} /\ r.inserted \cap v2[w].inserted = {}
  BY <1>2 DEF NoteInv, ChangeFits, WriteApart
<1>4. /\ v2' \in [Requests -> Telling \cup {Ntf!Quiet}] /\ v2'[t] = Ntf!Quiet
      /\ \A w \in Requests \ {t} : v2'[w] = v2[w]
  BY <1>1 DEF NoteInv, NoteShape
<1>5. v1 \in [Recipients -> Seq(NoteRow)] /\ fresh \in NoteRow
  BY DEF NoteInv, NoteShape, NoteRow
<1>6. ASSUME NEW rows \in Seq(NoteRow)
      PROVE  /\ absorb(rows) \in Seq(NoteRow) /\ Len(absorb(rows)) = Len(rows)
             /\ \A i \in 1..Len(rows) : /\ rows[i].count \in Nat
                                        /\ absorb(rows)[i].read = rows[i].read
                                        /\ absorb(rows)[i].count = rows[i].count + (IF rows[i].read THEN 0 ELSE 1)
  <2>1. DOMAIN rows = 1..Len(rows) /\ \A i \in 1..Len(rows) : rows[i] \in NoteRow
    OBVIOUS
  <2>2. ASSUME NEW i \in 1..Len(rows)
        PROVE  /\ absorb(rows)[i] \in NoteRow /\ rows[i].count \in Nat
               /\ absorb(rows)[i].read = rows[i].read
               /\ absorb(rows)[i].count = rows[i].count + (IF rows[i].read THEN 0 ELSE 1)
    <3>1. rows[i] \in NoteRow /\ absorb(rows)[i] = IF rows[i].read THEN rows[i] ELSE [rows[i] EXCEPT !.count = @ + 1]
      BY <2>1
    <3>2. rows[i] = [count |-> rows[i].count, read |-> rows[i].read] /\ rows[i].count \in Nat /\ rows[i].read \in BOOLEAN
      BY <3>1 DEF NoteRow
    <3>3. CASE rows[i].read
      <4>1. absorb(rows)[i] = rows[i] /\ rows[i].count + 0 = rows[i].count
        BY <3>1, <3>2, <3>3
      <4> HIDE DEF absorb
      <4> QED BY <3>1, <3>2, <3>3, <4>1
    <3>4. CASE ~rows[i].read
      <4>1. absorb(rows)[i] = [rows[i] EXCEPT !.count = @ + 1]
        BY <3>1, <3>4
      <4>2. absorb(rows)[i] = [count |-> rows[i].count + 1, read |-> rows[i].read]
        BY <3>1, <4>1 DEF NoteRow
      <4>3. rows[i].count + 1 \in Nat
        BY <3>2
      <4> HIDE DEF absorb
      <4> QED BY <3>2, <3>4, <4>2, <4>3 DEF NoteRow
    <3> QED BY <3>3, <3>4
  <2>3. absorb(rows) \in Seq(NoteRow) /\ Len(absorb(rows)) = Len(rows)
    <3>1. absorb(rows) = [i \in 1..Len(rows) |-> absorb(rows)[i]]
      BY <2>1
    <3>2. Len(rows) \in Nat
      OBVIOUS
    <3> HIDE DEF absorb
    <3>3. absorb(rows) \in [1..Len(rows) -> NoteRow]
      BY <2>2, <3>1
    <3> QED BY <3>2, <3>3
  <2> QED BY <2>2, <2>3
<1> HIDE DEF absorb, fresh, r
<1>7. ASSUME NEW u \in Recipients
      PROVE  /\ u \in r.absorbed => v1'[u] = absorb(v1[u]) /\ v5'[u] = v5[u] + 1
             /\ u \in r.inserted => v1'[u] = Append(v1[u], fresh) /\ v5'[u] = v5[u] + 1 /\ u \notin r.absorbed
             /\ u \notin r.absorbed \cup r.inserted => v1'[u] = v1[u] /\ v5'[u] = v5[u]
  BY <1>1, <1>3
<1>8. ASSUME NEW u \in Recipients
      PROVE  /\ v1'[u] \in Seq(NoteRow) /\ Len(v1[u]) \in Nat /\ Len(v1[u]) <= Len(v1'[u])
             /\ u \in r.absorbed => Ntf!Unread(u)' = Ntf!Unread(u)
             /\ u \in r.inserted => Ntf!Unread(u)' = {Len(v1[u]) + 1}
             /\ u \notin r.absorbed \cup r.inserted => Ntf!Unread(u)' = Ntf!Unread(u)
  <2>0. v1[u] \in Seq(NoteRow) /\ Len(v1[u]) \in Nat /\ DOMAIN v1[u] = 1..Len(v1[u])
    BY <1>5
  <2>1. CASE u \in r.absorbed
    <3>1. v1'[u] = absorb(v1[u]) /\ u \notin r.inserted
      BY <1>7, <2>1
    <3>2. DOMAIN absorb(v1[u]) = 1..Len(v1[u]) /\ absorb(v1[u]) \in Seq(NoteRow)
          /\ Len(absorb(v1[u])) = Len(v1[u])
      BY <1>6, <2>0
    <3>3. \A i \in 1..Len(v1[u]) : absorb(v1[u])[i].read = v1[u][i].read
      BY <1>6, <2>0
    <3>4. Ntf!Unread(u)' = Ntf!Unread(u)
      BY <2>0, <3>1, <3>2, <3>3 DEF Ntf!Unread
    <3> QED BY <2>0, <2>1, <3>1, <3>2, <3>4
  <2>2. CASE u \in r.inserted
    <3>1. v1'[u] = Append(v1[u], fresh) /\ u \notin r.absorbed /\ Ntf!Unread(u) = {}
      BY <1>3, <1>7, <2>2
    <3>2. /\ Append(v1[u], fresh) \in Seq(NoteRow) /\ Len(Append(v1[u], fresh)) = Len(v1[u]) + 1
          /\ DOMAIN Append(v1[u], fresh) = 1..(Len(v1[u]) + 1)
          /\ Append(v1[u], fresh)[Len(v1[u]) + 1] = fresh
          /\ \A i \in 1..Len(v1[u]) : Append(v1[u], fresh)[i] = v1[u][i]
      BY <1>5, <2>0
    <3>3. fresh.read = FALSE
      BY DEF fresh
    <3>4. \A i \in 1..Len(v1[u]) : v1[u][i].read
      BY <2>0, <3>1 DEF Ntf!Unread
    <3>5. Ntf!Unread(u)' = {i \in 1..(Len(v1[u]) + 1) : ~Append(v1[u], fresh)[i].read}
      BY <3>1, <3>2 DEF Ntf!Unread
    <3>6. \A i \in 1..(Len(v1[u]) + 1) : i # Len(v1[u]) + 1 => i \in 1..Len(v1[u])
      BY <2>0
    <3>7. Len(v1[u]) + 1 \in 1..(Len(v1[u]) + 1)
      BY <2>0
    <3>8. Ntf!Unread(u)' = {Len(v1[u]) + 1}
      BY <3>2, <3>3, <3>4, <3>5, <3>6, <3>7
    <3> QED BY <2>0, <2>2, <3>1, <3>2, <3>8
  <2>3. CASE u \notin r.absorbed \cup r.inserted
    <3>1. v1'[u] = v1[u]
      BY <1>7, <2>3
    <3>2. Ntf!Unread(u)' = Ntf!Unread(u)
      BY <3>1 DEF Ntf!Unread
    <3> QED BY <2>0, <2>3, <3>1, <3>2
  <2> QED BY <2>1, <2>2, <2>3
<1>9. NoteShape'
  <2>1. v1' \in [Recipients -> Seq(NoteRow)]
    BY <1>1, <1>8
  <2>2. v5' \in [Recipients -> Nat]
    BY <1>1 DEF NoteInv, NoteShape
  <2>3. ASSUME NEW u \in Recipients PROVE v3[u] <= Len(v1'[u])
    <3>1. v3[u] \in Nat /\ v3[u] <= Len(v1[u]) /\ Len(v1'[u]) \in Nat
      BY <2>1 DEF NoteInv, NoteShape
    <3> QED BY <1>8, <3>1
  <2> QED BY <1>1, <1>4, <2>1, <2>2, <2>3 DEF NoteInv, NoteShape
<1>10. ASSUME NEW w \in Requests PROVE ChangeFits(w)'
  <2>1. SUFFICES ASSUME v2'[w] # Ntf!Quiet
                 PROVE  /\ v2'[w].at = "insert" => v2'[w].todo # <<>>
                        /\ \A u \in v2'[w].absorbed : Ntf!Unread(u)' # {}
                        /\ \A u \in v2'[w].inserted : Ntf!Unread(u)' = {}
    BY DEF ChangeFits
  <2>2. w # t /\ v2'[w] = v2[w] /\ v2[w] # Ntf!Quiet /\ ChangeFits(w)
    BY <1>4, <2>1 DEF NoteInv
  <2>3. v2[w] \in Telling
    BY <2>2 DEF NoteInv, NoteShape
  <2>4. v2[w].absorbed \subseteq Recipients /\ v2[w].inserted \subseteq Recipients
    BY <2>3 DEF Telling
  <2>5. \A u \in v2[w].absorbed : Ntf!Unread(u)' # {}
    BY <1>8, <2>2, <2>4 DEF ChangeFits
  <2>6. \A u \in v2[w].inserted : Ntf!Unread(u)' = {}
    <3> SUFFICES ASSUME NEW u \in v2[w].inserted PROVE Ntf!Unread(u)' = {}
      OBVIOUS
    <3>1. Ntf!Unread(u) = {} /\ u \in Recipients
      BY <2>2, <2>4 DEF ChangeFits
    <3>2. u \notin r.absorbed /\ u \notin r.inserted
      BY <1>3, <2>2, <3>1
    <3> QED BY <1>8, <3>1, <3>2
  <2> QED BY <2>2, <2>5, <2>6 DEF ChangeFits
<1>11. ASSUME NEW w \in Requests, NEW x \in Requests \ {w} PROVE WriteApart(w, x)'
  <2>1. WriteApart(w, x)
    BY DEF NoteInv
  <2> QED BY <1>4, <2>1 DEF WriteApart
<1>12. ASSUME NEW u \in Recipients PROVE RecipientFits(u)'
  <2>0. RecipientFits(u) /\ v1[u] \in Seq(NoteRow) /\ v5[u] \in Nat
    BY <1>5 DEF NoteInv, NoteShape
  <2>1. CASE u \in r.absorbed
    <3>1. Ntf!Unread(u)' = Ntf!Unread(u) /\ Ntf!Unread(u) # {} /\ v1'[u] = absorb(v1[u]) /\ v5'[u] = v5[u] + 1
      BY <1>3, <1>7, <1>8, <2>1
    <3>2. PICK j : j \in Ntf!Unread(u)
      BY <3>1
    <3>3. j \in 1..Len(v1[u]) /\ Len(v1[u]) \in Nat
          /\ \A i \in 1..Len(v1[u]) : (i = j) <=> ~v1[u][i].read
      BY <2>0, <3>2 DEF RecipientFits, Ntf!Unread
    <3>4. OneMore(v1[u], absorb(v1[u]), j, Len(v1[u]))
      <4> SUFFICES ASSUME NEW i \in 1..Len(v1[u])
                   PROVE  /\ v1[u][i].count \in Nat
                          /\ absorb(v1[u])[i].count = v1[u][i].count + (IF i = j THEN 1 ELSE 0)
        BY DEF OneMore
      <4>1. /\ v1[u][i].count \in Nat
            /\ absorb(v1[u])[i].count = v1[u][i].count + (IF v1[u][i].read THEN 0 ELSE 1)
        BY <1>6, <2>0
      <4> QED BY <3>3, <4>1
    <3>5. Len(absorb(v1[u])) = Len(v1[u]) /\ j \in Nat
      BY <1>6, <2>0, <3>3
    <3>6. /\ Ntf!Counted(v1[u]) \in Nat
          /\ Ntf!Counted(absorb(v1[u])) = Ntf!Counted(v1[u]) + (IF 0 < j /\ j <= Len(v1[u]) THEN 1 ELSE 0)
      BY <3>3, <3>4, <3>5, CountedMore
    <3>7. Ntf!Counted(absorb(v1[u])) = Ntf!Counted(v1[u]) + 1
      BY <3>3, <3>6
    <3> QED BY <2>0, <3>1, <3>7 DEF RecipientFits
  <2>2. CASE u \in r.inserted
    <3>1. Ntf!Unread(u)' = {Len(v1[u]) + 1} /\ v1'[u] = Append(v1[u], fresh) /\ v5'[u] = v5[u] + 1
      BY <1>7, <1>8, <2>2
    <3>2. Ntf!Counted(Append(v1[u], fresh)) = Ntf!Counted(v1[u]) + fresh.count
      BY <1>5, <2>0, CountedNew
    <3>3. fresh.count = 1
      BY DEF fresh
    <3> QED BY <2>0, <3>1, <3>2, <3>3 DEF RecipientFits
  <2>3. CASE u \notin r.absorbed \cup r.inserted
    <3>1. Ntf!Unread(u)' = Ntf!Unread(u) /\ v1'[u] = v1[u] /\ v5'[u] = v5[u]
      BY <1>7, <1>8, <2>3
    <3> QED BY <1>1, <2>0, <3>1 DEF RecipientFits
  <2> QED BY <2>1, <2>2, <2>3
<1> QED BY <1>9, <1>10, <1>11, <1>12 DEF NoteInv

(* Reading: rows are marked, nobody is absorbing into them.                *)
LEMMA ReadingKeeps ==
  ASSUME NoteInv, NEW u \in Recipients, NEW rows \in Seq(NoteRow), Len(rows) = Len(v1[u]),
         \A i \in 1..Len(v1[u]) : rows[i].count = v1[u][i].count /\ (v1[u][i].read => rows[i].read),
         v1' = [v1 EXCEPT ![u] = rows], v3' = [v3 EXCEPT ![u] = 0], UNCHANGED <<v2, v5>>,
         v6' \in [Recipients -> Nat], \A x \in Recipients \ {u} : v6'[x] = v6[x],
         \/ v6'[u] = v5[u]
         \/ v6'[u] = v6[u] /\ \A i \in 1..Len(v1[u]) : rows[i].read => v1[u][i].read,
         \A w \in Requests : v2[w] # Ntf!Quiet => u \notin v2[w].absorbed
  PROVE  NoteInv'
<1>0. v1 \in [Recipients -> Seq(NoteRow)] /\ Len(v1[u]) \in Nat /\ v3 \in [Recipients -> Nat]
  BY DEF NoteInv, NoteShape
<1>1. v1' \in [Recipients -> Seq(NoteRow)] /\ v1'[u] = rows /\ \A x \in Recipients \ {u} : v1'[x] = v1[x]
  BY <1>0
<1>2. \A x \in Recipients \ {u} : Ntf!Unread(x)' = Ntf!Unread(x)
  BY <1>1 DEF Ntf!Unread
<1>3. Ntf!Unread(u)' \subseteq Ntf!Unread(u)
  <2>1. DOMAIN rows = 1..Len(v1[u]) /\ DOMAIN v1[u] = 1..Len(v1[u])
    BY <1>0
  <2> QED BY <1>1, <2>1 DEF Ntf!Unread
<1>4. NoteShape'
  <2>1. v3' \in [Recipients -> Nat] /\ \A x \in Recipients : v3'[x] <= Len(v1'[x])
    <3>1. ASSUME NEW x \in Recipients PROVE v3'[x] <= Len(v1'[x])
      <4>1. CASE x = u
        BY <1>0, <1>1, <4>1
      <4>2. CASE x # u
        BY <1>0, <1>1, <4>2 DEF NoteInv, NoteShape
      <4> QED BY <4>1, <4>2
    <3> QED BY <1>0, <3>1
  <2> QED BY <1>1, <2>1 DEF NoteInv, NoteShape
<1>5. ASSUME NEW w \in Requests PROVE ChangeFits(w)'
  <2>1. SUFFICES ASSUME v2[w] # Ntf!Quiet
                 PROVE  /\ v2[w].at = "insert" => v2[w].todo # <<>>
                        /\ \A x \in v2[w].absorbed : Ntf!Unread(x)' # {}
                        /\ \A x \in v2[w].inserted : Ntf!Unread(x)' = {}
    BY DEF ChangeFits
  <2>2. ChangeFits(w) /\ v2[w] \in Telling
    BY <2>1 DEF NoteInv, NoteShape
  <2>3. v2[w].absorbed \subseteq Recipients /\ v2[w].inserted \subseteq Recipients
    BY <2>2 DEF Telling
  <2> QED BY <1>2, <1>3, <2>1, <2>2, <2>3 DEF ChangeFits
<1>6. ASSUME NEW w \in Requests, NEW x \in Requests \ {w} PROVE WriteApart(w, x)'
  BY DEF NoteInv, WriteApart
<1>7. ASSUME NEW x \in Recipients PROVE RecipientFits(x)'
  <2>0. RecipientFits(x)
    BY DEF NoteInv
  <2>1. CASE x # u
    BY <1>1, <1>2, <2>0, <2>1 DEF RecipientFits
  <2>2. CASE x = u
    <3>1. Ntf!Counted(rows) = Ntf!Counted(v1[u])
      <4>1. \A i \in 1..Len(v1[u]) : v1[u][i] \in NoteRow
        BY <1>0
      <4>2. \A i \in 1..Len(v1[u]) : v1[u][i].count \in Nat /\ rows[i].count = v1[u][i].count
        BY <4>1 DEF NoteRow
      <4> QED BY <1>0, <4>2, SameCounted
    <3>2. Ntf!Unread(u)' = {} => v6'[u] = v5[u]
      <4>1. CASE v6'[u] = v5[u]
        BY <4>1
      <4>2. CASE v6'[u] = v6[u] /\ \A i \in 1..Len(v1[u]) : rows[i].read => v1[u][i].read
        <5>1. DOMAIN rows = 1..Len(v1[u]) /\ DOMAIN v1[u] = 1..Len(v1[u])
          BY <1>0
        <5>2. Ntf!Unread(u) \subseteq Ntf!Unread(u)'
          BY <1>1, <4>2, <5>1 DEF Ntf!Unread
        <5> QED BY <2>0, <2>2, <4>2, <5>2 DEF RecipientFits
      <4> QED BY <4>1, <4>2
    <3> QED BY <1>1, <1>3, <2>0, <2>2, <3>1, <3>2 DEF RecipientFits
  <2> QED BY <2>1, <2>2
<1> QED BY <1>4, <1>5, <1>6, <1>7 DEF NoteInv

LEMMA MarkReadKeeps ==
  ASSUME NoteInv, NEW u \in Recipients, Ntf!MarkRead(u)
  PROVE  NoteInv'
<1> DEFINE i == v3[u]
<1>1. /\ i # 0
      /\ \A w \in Requests : v2[w] # Ntf!Quiet => u \notin v2[w].absorbed
      /\ v1' = [v1 EXCEPT ![u][i].read = TRUE]
      /\ v6' = IF v1[u][i].read THEN v6 ELSE [v6 EXCEPT ![u] = v5[u]]
      /\ v3' = [v3 EXCEPT ![u] = 0]
      /\ UNCHANGED <<v2, v5>>
  BY DEF Ntf!MarkRead, Ntf!Closed
<1>2. /\ v1 \in [Recipients -> Seq(NoteRow)] /\ v1[u] \in Seq(NoteRow) /\ Len(v1[u]) \in Nat
      /\ i \in 1..Len(v1[u]) /\ v5 \in [Recipients -> Nat] /\ v6 \in [Recipients -> Nat]
  <2>1. v3[u] \in Nat /\ v3[u] <= Len(v1[u])
    BY DEF NoteInv, NoteShape
  <2> QED BY <1>1, <2>1 DEF NoteInv, NoteShape
<1> HIDE DEF i
<1>3. PICK row : row = [v1[u][i] EXCEPT !.read = TRUE]
  OBVIOUS
<1>4. v1[u][i] \in NoteRow /\ row \in NoteRow /\ row.count = v1[u][i].count /\ row.read
  <2>1. v1[u][i] \in NoteRow
    BY <1>2
  <2>2. row = [count |-> v1[u][i].count, read |-> TRUE]
    BY <1>3, <2>1 DEF NoteRow
  <2> QED BY <2>1, <2>2 DEF NoteRow
<1>5. PICK rows : rows = [v1[u] EXCEPT ![i] = row]
  OBVIOUS
<1>6. /\ rows \in Seq(NoteRow) /\ Len(rows) = Len(v1[u])
      /\ \A k \in 1..Len(v1[u]) : rows[k] = IF k = i THEN row ELSE v1[u][k]
  BY <1>2, <1>4, <1>5
<1>7. v1' = [v1 EXCEPT ![u] = rows]
  BY <1>1, <1>2, <1>3, <1>5
<1>8. \A k \in 1..Len(v1[u]) : rows[k].count = v1[u][k].count /\ (v1[u][k].read => rows[k].read)
  BY <1>4, <1>6
<1>9. v6' \in [Recipients -> Nat] /\ \A x \in Recipients \ {u} : v6'[x] = v6[x]
  BY <1>1, <1>2
<1>10. \/ v6'[u] = v5[u]
       \/ v6'[u] = v6[u] /\ \A k \in 1..Len(v1[u]) : rows[k].read => v1[u][k].read
  BY <1>1, <1>2, <1>6
<1> QED BY <1>1, <1>6, <1>7, <1>8, <1>9, <1>10, ReadingKeeps

LEMMA MarkAllReadKeeps ==
  ASSUME NoteInv, NEW u \in Recipients, Ntf!MarkAllRead(u)
  PROVE  NoteInv'
<1> DEFINE rows == [k \in DOMAIN v1[u] |-> [v1[u][k] EXCEPT !.read = TRUE]]
<1>1. /\ \A w \in Requests : v2[w] # Ntf!Quiet => u \notin v2[w].absorbed
      /\ v1' = [v1 EXCEPT ![u] = rows]
      /\ v6' = [v6 EXCEPT ![u] = v5[u]]
      /\ v3' = [v3 EXCEPT ![u] = 0]
      /\ UNCHANGED <<v2, v5>>
  BY DEF Ntf!MarkAllRead, Ntf!Closed
<1>2. /\ v1[u] \in Seq(NoteRow) /\ Len(v1[u]) \in Nat /\ DOMAIN v1[u] = 1..Len(v1[u])
      /\ v5 \in [Recipients -> Nat] /\ v6 \in [Recipients -> Nat]
  BY DEF NoteInv, NoteShape
<1>3. ASSUME NEW k \in 1..Len(v1[u])
      PROVE  rows[k] \in NoteRow /\ rows[k].count = v1[u][k].count /\ rows[k].read
  <2>1. v1[u][k] \in NoteRow /\ rows[k] = [v1[u][k] EXCEPT !.read = TRUE]
    BY <1>2
  <2>2. rows[k] = [count |-> v1[u][k].count, read |-> TRUE]
    BY <2>1 DEF NoteRow
  <2> HIDE DEF rows
  <2> QED BY <2>1, <2>2 DEF NoteRow
<1>4. rows \in Seq(NoteRow) /\ Len(rows) = Len(v1[u])
  <2>1. rows = [k \in 1..Len(v1[u]) |-> rows[k]]
    BY <1>2
  <2> HIDE DEF rows
  <2>2. rows \in [1..Len(v1[u]) -> NoteRow]
    BY <1>3, <2>1
  <2> QED BY <1>2, <2>2, SMTT(30)
<1> HIDE DEF rows
<1>5. v6' \in [Recipients -> Nat] /\ (\A x \in Recipients \ {u} : v6'[x] = v6[x]) /\ v6'[u] = v5[u]
  BY <1>1, <1>2
<1>6. \A k \in 1..Len(v1[u]) : rows[k].count = v1[u][k].count /\ (v1[u][k].read => rows[k].read)
  BY <1>3
<1> QED BY <1>1, <1>4, <1>5, <1>6, ReadingKeeps

LEMMA NoteStep ==
  ASSUME NoteInv, Ntf!NoteConstants, [Ntf!NoteNext]_(Ntf!noteVars)
  PROVE  NoteInv'
<1>1. CASE UNCHANGED Ntf!noteVars
  BY <1>1 DEF NoteInv, NoteShape, ChangeFits, WriteApart, RecipientFits, Ntf!Unread, Ntf!noteVars
<1>2. ASSUME NEW t \in Requests, NEW order \in Orders, Ntf!Change(t, order)
      PROVE  NoteInv'
  BY <1>2, ChangeKeeps
<1>3. ASSUME NEW t \in Requests,
             Ntf!Absorb(t) \/ Ntf!Insert(t) \/ Ntf!CommitChange(t) \/ Ntf!RollbackChange(t)
      PROVE  NoteInv'
  BY <1>3, AbsorbKeeps, InsertKeeps, CommitChangeKeeps, RollbackChangeKeeps
<1>4. ASSUME NEW u \in Recipients, Ntf!ShowFeed(u)
      PROVE  NoteInv'
  <2>1. PICK i \in DOMAIN v1[u] : v3' = [v3 EXCEPT ![u] = i]
    BY <1>4 DEF Ntf!ShowFeed
  <2>2. UNCHANGED <<v1, v2, v5, v6>>
    BY <1>4 DEF Ntf!ShowFeed
  <2>3. v1[u] \in Seq(NoteRow) /\ v3 \in [Recipients -> Nat] /\ \A x \in Recipients : v3[x] <= Len(v1[x])
    BY DEF NoteInv, NoteShape
  <2>4. i \in Nat /\ i <= Len(v1[u])
    BY <2>3
  <2>5. v3' \in [Recipients -> Nat] /\ \A x \in Recipients : v3'[x] <= Len(v1[x])
    BY <2>1, <2>3, <2>4
  <2> QED BY <2>2, <2>5, SMTT(30) DEF NoteInv, NoteShape, ChangeFits, WriteApart, RecipientFits, Ntf!Unread
<1>5. ASSUME NEW u \in Recipients, Ntf!MarkRead(u) \/ Ntf!MarkAllRead(u)
      PROVE  NoteInv'
  BY <1>5, MarkReadKeeps, MarkAllReadKeeps
<1> QED BY <1>1, <1>2, <1>3, <1>4, <1>5 DEF Ntf!NoteNext

LEMMA NoteMeans ==
  ASSUME NoteInv
  PROVE  Ntf!EveryChangeIsCounted /\ Ntf!NewsAwaitsItsReader
<1>1. ASSUME NEW u \in Recipients
      PROVE  Ntf!Cardinality(Ntf!Unread(u)) <= 1
  <2>1. \A i, j \in Ntf!Unread(u) : i = j
    BY DEF NoteInv, RecipientFits
  <2>2. Ntf!Cardinality(Ntf!Unread(u)) = Cardinality(Ntf!Unread(u))
    BY DEF Cardinality, Ntf!Cardinality
  <2>3. CASE Ntf!Unread(u) = {}
    <3>1. Cardinality({}) = 0
      BY FS_EmptySet
    <3> QED BY <2>2, <2>3, <3>1
  <2>4. CASE Ntf!Unread(u) # {}
    <3>1. PICK i : Ntf!Unread(u) = {i}
      BY <2>1, <2>4
    <3>2. Cardinality({i}) = 1
      BY FS_Singleton
    <3> QED BY <2>2, <3>1, <3>2
  <2> QED BY <2>3, <2>4
<1> QED BY <1>1 DEF NoteInv, RecipientFits, Ntf!EveryChangeIsCounted, Ntf!NewsAwaitsItsReader

-----------------------------------------------------------------------------
(* The desk's mail, surveys and notifications                              *)

MailInv ==
  /\ part = "outbound" => OutInv
  /\ part = "inbound" => InbInv
  /\ part = "csat" => CsatInv
  /\ part = "notes" => NoteInv

LEMMA MailStarts ==
  ASSUME MailInit, Out!MailConstants, Inb!MailConstants, Cs!CsatConstants
  PROVE  MailInv
<1>1. CASE part = "outbound" /\ Out!OutboundInit
  BY <1>1, OutStarts DEF MailInv
<1>2. CASE part = "inbound" /\ Inb!InboundInit
  BY <1>2, InbStarts DEF MailInv
<1>3. CASE part = "csat" /\ Cs!CsatInit
  BY <1>3, CsatStarts DEF MailInv
<1>4. CASE part = "notes" /\ Ntf!NoteInit
  BY <1>4, NoteStarts DEF MailInv
<1> QED BY <1>1, <1>2, <1>3, <1>4 DEF MailInit

LEMMA MailStep ==
  ASSUME MailInv, Out!MailConstants, Inb!MailConstants, Cs!CsatConstants, Ntf!NoteConstants,
         [MailNext /\ UNCHANGED part]_vars
  PROVE  MailInv'
<1>1. part' = part
  BY DEF vars
<1>2. CASE part = "outbound"
  <2>1. [Out!OutboundNext]_(Out!outboundVars)
    BY <1>2 DEF MailNext, vars, Out!outboundVars
  <2> QED BY <1>1, <1>2, <2>1, OutStep DEF MailInv
<1>3. CASE part = "inbound"
  <2>1. [Inb!InboundNext]_(Inb!inboundVars)
    BY <1>3 DEF MailNext, vars, Inb!inboundVars
  <2> QED BY <1>1, <1>3, <2>1, InbStep DEF MailInv
<1>4. CASE part = "csat"
  <2>1. [Cs!CsatNext]_(Cs!csatVars)
    BY <1>4 DEF MailNext, vars, Cs!csatVars
  <2> QED BY <1>1, <1>4, <2>1, CsatStep DEF MailInv
<1>5. CASE part = "notes"
  <2>1. [Ntf!NoteNext]_(Ntf!noteVars)
    BY <1>5 DEF MailNext, vars, Ntf!noteVars
  <2> QED BY <1>1, <1>5, <2>1, NoteStep DEF MailInv
<1> QED BY <1>1, <1>2, <1>3, <1>4, <1>5 DEF MailInv

(* What holds of a mail row, its token and the handler that sends it        *)
(* (email.service.ts handleOutbox), of a received message and the ticket it *)
(* becomes (processInbound, decide), of a survey and the transactions that  *)
(* create, answer, remind or expire it (csat.module.ts), of a feed and the  *)
(* changes that are being told (notifications.repository.ts upsert), at     *)
(* every step.                                                             *)
THEOREM MailInvariant ==
  ASSUME Out!MailConstants, Inb!MailConstants, Cs!CsatConstants, Ntf!NoteConstants
  PROVE  MailSpec => []MailInv
<1>1. MailInit => MailInv
  BY MailStarts
<1>2. MailInv /\ [MailNext /\ UNCHANGED part]_vars => MailInv'
  BY MailStep
<1> QED BY <1>1, <1>2, PTL DEF MailSpec

(* For any requests, mails, messages, recipients, surveys and reminder      *)
(* schedules: a mail whose send was not lost leaves once, replies carry the *)
(* ticket's token while no two handlers drew one, and an address that       *)
(* bounced is suppressed (email.service.ts handleOutbox, handleBounce); a   *)
(* received message has one outcome, and a conversation read in order one   *)
(* ticket (processInbound, decide); a survey is answered exactly with its   *)
(* response, only the open ones are reminded, no more often than scheduled, *)
(* and one ticket survey a day is sent while no two handlers overlapped     *)
(* (csat.module.ts record, tick); every change is counted by a notification *)
(* and none stays unread behind one seen (notifications.repository.ts).     *)
THEOREM MailIsKept ==
  ASSUME Out!MailConstants, Inb!MailConstants, Cs!CsatConstants, Ntf!NoteConstants
  PROVE  MailSpec => []MailHolds
<1>1. MailInv => MailHolds
  BY OutMeans, InbMeans, CsatMeans, NoteMeans DEF MailInv, MailHolds
<1> QED BY <1>1, MailInvariant, PTL

-----------------------------------------------------------------------------
(* Report schedules (Sch)                                                  *)

ScheduleRow == [enabled : BOOLEAN, nextAt : Nat, version : Nat, review : BOOLEAN]
ReportRun == [op : {"idle", "due", "now", "patch"}, at : {"start", "claimed", "held", "delivered", "failed", "read"},
              period : Sch!Instants, next : Nat, version : Nat, patch : BOOLEAN]

ScheduleShape ==
  /\ v1 \in ScheduleRow
  /\ v2 \in Requests \cup {None}
  /\ v3 \in Nat /\ v3 <= MaxInstant
  /\ v4 \in [Requests -> ReportRun]
  /\ v5 \in [Sch!Instants -> Nat]
  /\ v6 \in [Sch!Instants -> Nat]
  /\ v8 \in BOOLEAN

(* The job's run holds the schedule's row; what a run will write as the     *)
(* next instant has come or is the next one.                               *)
RunFits(t) ==
  /\ v4[t].op = "idle" => v4[t] = Sch!NoRun
  /\ v4[t].op = "due" <=> v2 = t
  /\ v4[t].op = "due" => v4[t].period <= v3 /\ v4[t].period < v4[t].next
  /\ v4[t].op \in {"due", "now"} => v4[t].next <= v3 + 1
  /\ v4[t].op = "patch" => v4[t].at = "read"

NextIsNear ==
  /\ v1.nextAt = Sch!Unset \/ v1.nextAt <= v3 + 1
  /\ v1.enabled => v1.nextAt # Sch!Unset

(* While no run off the cycle overlapped, such a run is alone and the row   *)
(* still is as it read it, and the job's run is of the instant that the row *)
(* names.                                                                  *)
RunsTakeTurns ==
  v8 \/ \A t \in Requests :
          /\ v4[t].op = "now" => /\ \A u \in Requests \ {t} : v4[u] = Sch!NoRun
                                 /\ v1.enabled => v1.nextAt = v4[t].next
          /\ v4[t].op = "due" => v1.enabled /\ v1.nextAt = v4[t].period

(* A run in flight has told the recipients of a period.                     *)
HearsOf(p) == \E t \in Requests : v4[t].op = "due" /\ v4[t].at = "delivered" /\ v4[t].period = p

(* While no run off the cycle overlapped, nothing was built of a period to  *)
(* come, and nobody heard of it but from the run in flight.                *)
PeriodsToCome ==
  v8 \/ \A p \in Sch!Instants :
          /\ v5[p] <= 1
          /\ p \notin v7 => v6[p] <= 1
          /\ p > v3 \/ (v1.enabled /\ p >= v1.nextAt) =>
               /\ v5[p] = 0
               /\ p \notin v7 /\ ~HearsOf(p) => v6[p] = 0

ScheduleInv ==
  /\ ScheduleShape
  /\ \A t \in Requests : RunFits(t)
  /\ NextIsNear
  /\ RunsTakeTurns
  /\ PeriodsToCome

-----------------------------------------------------------------------------
(* Reviews of reports (Rev)                                                *)

ReviewedRun == [status : {"ready_for_review", "awaiting_review", "sent", "failed", "skipped"},
                requester : Reviewers \cup {"system"}, reviewer : Reviewers \cup {None}, due : BOOLEAN]
NarrativeVersion == [edit : Nat, rendered : BOOLEAN]
ReviewWork == [op : {"idle", "edit", "regenerate", "approve", "cancel", "expire"},
               at : {"start", "read", "marked", "half stored", "stored", "stamped", "delivered", "claimed"},
               by : Reviewers \cup {None}, versions : Seq(NarrativeVersion), outcome : {None, "sent", "failed"}]

ReviewShape ==
  /\ v1 \in ReviewedRun
  /\ v2 \in Requests \cup {None} /\ v4 \in Requests \cup {None}
  /\ v3 \in Seq(NarrativeVersion) /\ v3 # <<>>
  /\ v5 \in Nat
  /\ v6 \in [deck : Nat, pdf : Nat]
  /\ v7 \in [Requests -> ReviewWork]
  /\ v8 \in Nat /\ v9 \in BOOLEAN /\ v10 \in BOOLEAN

(* What a request has locked and decided.                                  *)
ReviewerFits(t) ==
  /\ v7[t].op = "idle" => v7[t] = Rev!NoReview
  /\ v7[t].op \in {"edit", "regenerate", "approve", "cancel"} => v7[t].versions # <<>>
  /\ v7[t].op = "approve" => v7[t].by \in Reviewers /\ v7[t].by # v1.requester
  /\ v7[t].outcome # None => v7[t].op = "approve" /\ v7[t].at = "delivered"
  /\ v7[t].op = "approve" /\ v7[t].at = "delivered" => v7[t].outcome # None
  /\ v7[t].op \in {"approve", "cancel"} /\ v7[t].at # "read" => v2 = t
  /\ v7[t].op = "cancel" => v7[t].at \in {"read", "marked"}
  /\ v7[t].op = "edit" => v7[t].at = "read"
  /\ v7[t].op = "expire" => v2 = t /\ v7[t].at = "claimed" /\ v1.status = "ready_for_review"
  /\ v7[t].at = "stamped" => v4 = t
  /\ v4 = t => v7[t].op \in {"regenerate", "approve"} /\ v7[t].at \in {"stamped", "delivered"}

SentWasDecided ==
  /\ v1.status \in {"sent", "failed", "skipped"} <=> v9
  /\ v8 > 0 => v9
  /\ v1.status = "sent" => v1.reviewer \notin {None, v1.requester}

(* A request of a reviewer, not of the deadline job.                       *)
Reviewing(t) == v7[t].op \in {"edit", "regenerate", "approve", "cancel"}

(* What the files show of the newest of the versions a request read.       *)
StoredFits(t) ==
  /\ v7[t].at = "half stored" => v6.deck = Rev!Newest(v3).edit
  /\ v7[t].at \in {"stored", "stamped", "delivered"} =>
       v6.deck = Rev!Newest(v3).edit /\ v6.pdf = Rev!Newest(v3).edit

(* Reviewers who take turns work on the run while it is held, one by one,   *)
(* each on the narrative as it is; what counts as rendered is in the files. *)
ReviewersTakeTurns ==
  v10 \/
    /\ \A t, u \in Requests : Reviewing(t) /\ Reviewing(u) => t = u
    /\ \A t \in Requests : Reviewing(t) =>
         v7[t].versions = v3 /\ v1.status \in {"ready_for_review", "awaiting_review"} /\ StoredFits(t)
    /\ Rev!Newest(v3).rendered \/ v1.status = "sent" =>
         v6.deck = Rev!Newest(v3).edit /\ v6.pdf = Rev!Newest(v3).edit
    /\ \A e \in 1..v5 : \E i \in DOMAIN v3 : v3[i].edit = e
    /\ v8 = (IF v1.status = "sent" THEN 1 ELSE 0)

ReviewInv ==
  /\ ReviewShape
  /\ \A t \in Requests : ReviewerFits(t)
  /\ SentWasDecided
  /\ ReviewersTakeTurns

-----------------------------------------------------------------------------
(* Figures of an account (Fig)                                             *)

TicketFact == [opened : Nat \cup {None}, resolved : Nat \cup {None}, closed : BOOLEAN, touched : Nat \cup {None}]

ReopenedFact == [of : Reported, on : Nat, after : Nat]

FiguresShape ==
  /\ v1 \in Nat /\ v1 <= LastReportDay
  /\ v2 \in [Reported -> TicketFact]
  /\ v3 \in Seq(0 .. LastReportDay) /\ Len(v3) <= MaxUnsettled
  /\ v4 \in Seq({v4[n] : n \in DOMAIN v4})
  /\ DOMAIN v5 = 0 .. LastReportDay
  /\ IsFiniteSet(v6) /\ v6 \subseteq ReopenedFact

(* A ticket was opened before it was resolved, touched last of all.        *)
FactFits(k) ==
  /\ v2[k] = Fig!NoFacts \/ (v2[k].opened \in 0..v1 /\ v2[k].touched \in v2[k].opened .. v1)
  /\ v2[k].resolved # None =>
       v2[k].opened # None /\ v2[k].resolved \in v2[k].opened .. v2[k].touched

OpenedIn(start, end) == {k \in Reported : Fig!InPeriod(v2[k].opened, start, end)}
ResolvedIn(start, end) == {k \in Reported : Fig!InPeriod(v2[k].resolved, start, end)}
LinesIn(start, end) == {n \in DOMAIN v3 : Fig!InPeriod(v3[n], start, end)}

(* What a reopening since explains.                                        *)
ReopenedSince(k, n) == \E r \in v6 : r.of = k /\ r.after >= n /\ r.after <= Len(v4)
ReopenedAfter(k, d) == \E r \in v6 : r.of = k /\ r.on > d

(* What the pack compares with.                                            *)
Base(q) == IF q.before = None THEN [created |-> {}, resolved |-> {}, lines |-> {}] ELSE q.before

(* A pack is of a period that was over; it names the tickets opened then,   *)
(* and those resolved then unless one was reopened since.                  *)
PackFits(n) ==
  /\ v4[n].kind \in {"wsr", "qbr"}
  /\ \E m \in Nat : v4[n].start = PeriodDays * m
  /\ v4[n].start + PeriodDays <= v1
  /\ v4[n].figures.lines \subseteq DOMAIN v3
  /\ \A i \in v4[n].figures.lines : v4[n].start <= v3[i] /\ v3[i] <= v4[n].start + PeriodDays
  /\ \A k \in Reported :
       (k \in v4[n].figures.resolved) # (k \in ResolvedIn(v4[n].start, v4[n].start + PeriodDays)) =>
          ReopenedSince(k, n) /\ ReopenedAfter(k, v4[n].start)
  /\ v4[n].kind = "qbr" =>
       /\ v4[n].roster = v4[n].figures.lines
       /\ v4[n].figures.lines \subseteq LinesIn(v4[n].start, v4[n].start + PeriodDays)
       /\ v4[n].figures.created = OpenedIn(v4[n].start, v4[n].start + PeriodDays)
       /\ Base(v4[n]).lines \subseteq DOMAIN v3

SnapshotFits(d) ==
  v5[d] # None =>
    /\ d < v1
    /\ \A k \in Reported : (k \in v5[d].resolved) # (v2[k].resolved = d) => ReopenedAfter(k, d)

(* What the later of two packs compares with is what the earlier one says.  *)
PacksAgree(m, n) ==
  v4[m].kind = "qbr" /\ v4[n].kind = "qbr" /\ m < n /\ v4[n].start = v4[m].start + PeriodDays =>
    /\ Base(v4[n]).created = v4[m].figures.created
    /\ \A k \in Reported :
         (k \in Base(v4[n]).resolved) # (k \in v4[m].figures.resolved) =>
           \E r \in v6 : r.of = k /\ r.after \in m .. n - 1
    /\ v4[m].figures.lines \subseteq Base(v4[n]).lines
    /\ \A i \in Base(v4[n]).lines \ v4[m].figures.lines : Fig!InPeriod(v3[i], v4[m].start, v4[n].start)

FiguresInv ==
  /\ FiguresShape
  /\ \A k \in Reported : FactFits(k)
  /\ \A n \in DOMAIN v4 : PackFits(n)
  /\ \A d \in 0 .. LastReportDay : SnapshotFits(d)
  /\ \A m, n \in DOMAIN v4 : PacksAgree(m, n)

-----------------------------------------------------------------------------
(* The health score (Hlt)                                                  *)

(* An account as the change of one fact may leave it.                      *)
ChangedAccounts ==
  [met : Hlt!Ratios, reopened : Hlt!Ratios, csat : {None, 10, 50},
   position : {Hlt!NoBudget} \cup [available : {4}, consumed : {0, 3, 6}, days : {4}, passed : {1, 3}],
   portal : BOOLEAN, signins : {0, 2}, answered : {<<0, 0>>, <<0, 2>>, <<1, 2>>}]

AccountFacts == {"met", "reopened", "csat", "position", "portal", "signins", "answered"}

HealthInv ==
  /\ v1 \in ChangedAccounts
  /\ v2 = None => v1 \in Hlt!Accounts
  /\ v2 # None =>
       /\ v2 \in ChangedAccounts
       /\ \E fact \in AccountFacts : \A other \in AccountFacts \ {fact} : v1[other] = v2[other]

LEMMA IdleRuns ==
  ASSUME Sch!ScheduleConstants
  PROVE  /\ Sch!NoRun \in ReportRun /\ Sch!NoRun.op = "idle" /\ Sch!NoRun.at = "start"
         /\ Sch!Unset \in Nat /\ Sch!Unset = MaxInstant + 2 /\ MaxInstant \in Nat /\ None \notin Requests
         /\ \A n : n \in Sch!Instants <=> n \in Nat /\ n <= MaxInstant
<1>1. /\ Sch!Unset = MaxInstant + 2 /\ MaxInstant \in Nat /\ None \notin Requests
      /\ \A n : n \in Sch!Instants <=> n \in Nat /\ n <= MaxInstant
  BY DEF Sch!ScheduleConstants, Sch!Unset, Sch!Instants
<1>2. Sch!NoRun \in ReportRun
  BY <1>1 DEF Sch!NoRun, ReportRun
<1> QED BY <1>1, <1>2 DEF Sch!NoRun

LEMMA ScheduleStarts ==
  ASSUME Sch!ScheduleInit, Sch!ScheduleConstants
  PROVE  ScheduleInv
<1> USE IdleRuns
<1>1. /\ v1 \in ScheduleRow /\ v1.nextAt = 1 /\ v2 = None /\ v3 = 0 /\ v4 = [t \in Requests |-> Sch!NoRun]
      /\ v5 = [p \in Sch!Instants |-> 0] /\ v6 = [p \in Sch!Instants |-> 0] /\ v7 = {} /\ v8 = FALSE
  BY DEF Sch!ScheduleInit, ScheduleRow
<1>2. ScheduleShape
  <2>1. v4 \in [Requests -> ReportRun] /\ v5 \in [Sch!Instants -> Nat] /\ v6 \in [Sch!Instants -> Nat]
    BY <1>1
  <2>2. v2 \in Requests \cup {None} /\ v8 \in BOOLEAN
    BY <1>1
  <2>3. v3 \in Nat /\ v3 <= MaxInstant
    BY <1>1
  <2> QED BY <1>1, <2>1, <2>2, <2>3 DEF ScheduleShape
<1>3. \A t \in Requests : RunFits(t)
  BY <1>1 DEF RunFits
<1>4. NextIsNear
  BY <1>1 DEF NextIsNear
<1>5. RunsTakeTurns
  BY <1>1 DEF RunsTakeTurns
<1>6. PeriodsToCome
  BY <1>1 DEF PeriodsToCome
<1> QED BY <1>2, <1>3, <1>4, <1>5, <1>6 DEF ScheduleInv

(* A request begins: no row changes, and a run off the cycle is alone or    *)
(* noted.                                                                  *)
LEMMA RunBegins ==
  ASSUME ScheduleInv, Sch!ScheduleConstants, NEW t \in Requests, NEW r \in ReportRun, Sch!Start(t, r)
  PROVE  /\ v4[t] = Sch!NoRun /\ v4' = [v4 EXCEPT ![t] = r] /\ v8' \in BOOLEAN
         /\ v8 => v8'
         /\ ~v8' => /\ \A u \in Requests : v4[u].op # "now"
                    /\ r.op = "now" => \A u \in Requests : v4[u] = Sch!NoRun
<1> USE IdleRuns
<1>1. v4[t] = Sch!NoRun /\ v4' = [v4 EXCEPT ![t] = r]
  BY DEF Sch!Start
<1>2. v8' = (v8 \/ \E u \in Requests : v4[u] # Sch!NoRun /\ "now" \in {r.op, v4[u].op})
  BY DEF Sch!Start
<1>3. v8 \in BOOLEAN
  BY DEF ScheduleInv, ScheduleShape
<1>4. \A u \in Requests : v4[u].op = "now" => v4[u] # Sch!NoRun
  OBVIOUS
<1> QED BY <1>1, <1>2, <1>3, <1>4

LEMMA ClaimDueKeeps ==
  ASSUME ScheduleInv, Sch!ScheduleConstants, NEW t \in Requests, Sch!ClaimDue(t)
  PROVE  ScheduleInv'
<1> USE IdleRuns
<1>0. PICK r : /\ r = [Sch!NoRun EXCEPT !.op = "due", !.at = "claimed", !.period = v1.nextAt, !.next = v3 + 1]
               /\ Sch!Start(t, r)
  BY DEF Sch!ClaimDue, Sch!NextRunAt
<1>1. /\ v1.enabled /\ v1.nextAt <= v3 /\ v2 = None /\ v2' = t /\ Sch!Start(t, r)
      /\ UNCHANGED <<v1, v3, v5, v6, v7>>
  BY <1>0 DEF Sch!ClaimDue
<1>2. v1 \in ScheduleRow /\ v3 \in Nat /\ v3 <= MaxInstant /\ v4 \in [Requests -> ReportRun]
  BY DEF ScheduleInv, ScheduleShape
<1>3. v1.nextAt \in Nat /\ v1.nextAt \in Sch!Instants
  BY <1>1, <1>2 DEF ScheduleRow
<1>5. r \in ReportRun
  <2>1. v3 + 1 \in Nat
    BY <1>2
  <2> QED BY <1>0, <1>3, <2>1 DEF ReportRun, Sch!NoRun
<1>6. /\ r.op = "due" /\ r.at = "claimed" /\ r.period = v1.nextAt /\ r.next = v3 + 1
  BY <1>0 DEF Sch!NoRun
<1>7. /\ v4[t] = Sch!NoRun /\ v4' = [v4 EXCEPT ![t] = r] /\ v8' \in BOOLEAN /\ (v8 => v8')
      /\ ~v8' => \A u \in Requests : v4[u].op # "now"
  BY <1>1, <1>5, RunBegins
<1>8. v4'[t] = r /\ \A u \in Requests \ {t} : v4'[u] = v4[u]
  BY <1>2, <1>7
<1>9. ScheduleShape'
  BY <1>1, <1>5, <1>7 DEF ScheduleInv, ScheduleShape
<1>10. ASSUME NEW u \in Requests PROVE RunFits(u)'
  <2>1. CASE u = t
    BY <1>1, <1>2, <1>3, <1>6, <1>8, <2>1 DEF RunFits
  <2>2. CASE u # t
    <3>1. RunFits(u) /\ v4'[u] = v4[u]
      BY <1>8, <2>2 DEF ScheduleInv
    <3> QED BY <1>1, <2>2, <3>1 DEF RunFits
  <2> QED BY <2>1, <2>2
<1>11. NextIsNear'
  BY <1>1 DEF ScheduleInv, NextIsNear
<1>12. RunsTakeTurns'
  <2> SUFFICES ASSUME ~v8', NEW u \in Requests
               PROVE  /\ v4'[u].op # "now"
                      /\ v4'[u].op = "due" => v1.enabled /\ v1.nextAt = v4'[u].period
    BY <1>1 DEF RunsTakeTurns
  <2>1. CASE u = t
    BY <1>1, <1>6, <1>8, <2>1
  <2>2. CASE u # t
    <3>1. RunFits(u) /\ v4'[u] = v4[u]
      BY <1>8, <2>2 DEF ScheduleInv
    <3> QED BY <1>1, <1>7, <3>1 DEF RunFits
  <2> QED BY <2>1, <2>2
<1>13. PeriodsToCome'
  <2>1. ASSUME NEW p PROVE HearsOf(p) => HearsOf(p)'
    <3> SUFFICES ASSUME NEW u \in Requests, v4[u].op = "due", v4[u].at = "delivered", v4[u].period = p
                 PROVE  HearsOf(p)'
      BY DEF HearsOf
    <3>1. u # t
      BY <1>7
    <3> QED BY <1>8, <3>1 DEF HearsOf
  <2> QED BY <1>1, <1>7, <2>1 DEF ScheduleInv, PeriodsToCome
<1> QED BY <1>9, <1>10, <1>11, <1>12, <1>13 DEF ScheduleInv

LEMMA RunNowKeeps ==
  ASSUME ScheduleInv, Sch!ScheduleConstants, NEW t \in Requests, Sch!RunNow(t)
  PROVE  ScheduleInv'
<1> USE IdleRuns
<1> DEFINE n == IF v1.nextAt = Sch!Unset THEN v3 ELSE v1.nextAt
<1>0. PICK r : r = [Sch!NoRun EXCEPT !.op = "now", !.at = "claimed", !.next = n] /\ Sch!Start(t, r)
  BY DEF Sch!RunNow
<1>1. Sch!Start(t, r) /\ UNCHANGED <<v1, v2, v3, v5, v6, v7>>
  BY <1>0 DEF Sch!RunNow
<1>2. v1 \in ScheduleRow /\ v3 \in Nat /\ v3 <= MaxInstant /\ v4 \in [Requests -> ReportRun] /\ NextIsNear
  BY DEF ScheduleInv, ScheduleShape
<1>3. v1.nextAt \in Nat
  BY <1>2 DEF ScheduleRow
<1>4. n \in Nat
  BY <1>2, <1>3
<1>5. r \in ReportRun
  <2> HIDE DEF n
  <2> QED BY <1>0, <1>4 DEF ReportRun, Sch!NoRun
<1>6. r.op = "now" /\ r.at = "claimed" /\ r.next = n
  BY <1>0 DEF Sch!NoRun
<1>7. /\ v4[t] = Sch!NoRun /\ v4' = [v4 EXCEPT ![t] = r] /\ v8' \in BOOLEAN /\ (v8 => v8')
      /\ ~v8' => \A u \in Requests : v4[u] = Sch!NoRun
  BY <1>1, <1>5, <1>6, RunBegins
<1>8. v4'[t] = r /\ \A u \in Requests \ {t} : v4'[u] = v4[u]
  BY <1>2, <1>7
<1>9. ScheduleShape'
  BY <1>1, <1>5, <1>7 DEF ScheduleInv, ScheduleShape
<1>10. ASSUME NEW u \in Requests PROVE RunFits(u)'
  <2>1. CASE u = t
    <3>1. v2 # t
      BY <1>7 DEF ScheduleInv, RunFits
    <3>2. r.next <= v3 + 1
      BY <1>2, <1>3, <1>6 DEF NextIsNear
    <3> QED BY <1>1, <1>6, <1>8, <2>1, <3>1, <3>2 DEF RunFits
  <2>2. CASE u # t
    <3>1. RunFits(u) /\ v4'[u] = v4[u]
      BY <1>8, <2>2 DEF ScheduleInv
    <3> QED BY <1>1, <2>2, <3>1 DEF RunFits
  <2> QED BY <2>1, <2>2
<1>11. NextIsNear'
  BY <1>1, <1>2 DEF NextIsNear
<1>12. RunsTakeTurns'
  <2> SUFFICES ASSUME ~v8', NEW u \in Requests
               PROVE  /\ v4'[u].op = "now" => /\ \A w \in Requests \ {u} : v4'[w] = Sch!NoRun
                                              /\ v1.enabled => v1.nextAt = v4'[u].next
                      /\ v4'[u].op # "due"
    BY <1>1 DEF RunsTakeTurns
  <2>1. CASE u = t
    BY <1>2, <1>6, <1>7, <1>8, <2>1 DEF NextIsNear
  <2>2. CASE u # t
    BY <1>7, <1>8, <2>2
  <2> QED BY <2>1, <2>2
<1>13. PeriodsToCome'
  <2>1. ASSUME NEW p PROVE HearsOf(p) => HearsOf(p)'
    <3> SUFFICES ASSUME NEW u \in Requests, v4[u].op = "due", v4[u].at = "delivered", v4[u].period = p
                 PROVE  HearsOf(p)'
      BY DEF HearsOf
    <3>1. u # t
      BY <1>7
    <3> QED BY <1>8, <3>1 DEF HearsOf
  <2> QED BY <1>1, <1>7, <2>1 DEF ScheduleInv, PeriodsToCome
<1> QED BY <1>9, <1>10, <1>11, <1>12, <1>13 DEF ScheduleInv

LEMMA ExecuteKeeps ==
  ASSUME ScheduleInv, Sch!ScheduleConstants, NEW t \in Requests, Sch!Execute(t)
  PROVE  ScheduleInv'
<1> USE IdleRuns
<1>1. PICK end \in {"held", "delivered", "failed"} :
        /\ v4' = [v4 EXCEPT ![t].at = end]
        /\ v6' = IF v4[t].op = "due" /\ end = "delivered" THEN [v6 EXCEPT ![v4[t].period] = @ + 1] ELSE v6
  BY DEF Sch!Execute
<1>2. v4[t].at = "claimed" /\ UNCHANGED <<v1, v2, v3, v5, v7, v8>>
  BY DEF Sch!Execute
<1>3. v4 \in [Requests -> ReportRun] /\ v3 \in Nat /\ v6 \in [Sch!Instants -> Nat] /\ RunFits(t) /\ v1 \in ScheduleRow
  BY DEF ScheduleInv, ScheduleShape
<1>4. v4[t] \in ReportRun
  BY <1>3
<1>5. /\ [v4[t] EXCEPT !.at = end] \in ReportRun
      /\ v4[t].period \in Sch!Instants
  BY <1>4 DEF ReportRun
<1>6. /\ v4'[t] = [v4[t] EXCEPT !.at = end] /\ \A u \in Requests \ {t} : v4'[u] = v4[u]
      /\ v4' \in [Requests -> ReportRun]
  BY <1>1, <1>3, <1>5
<1>7. /\ v4'[t].op = v4[t].op /\ v4'[t].at = end /\ v4'[t].period = v4[t].period
      /\ v4'[t].next = v4[t].next /\ v4[t] # Sch!NoRun /\ v4[t].op \in {"due", "now"}
  <2>1. v4[t].op \in {"idle", "due", "now", "patch"}
    BY <1>4 DEF ReportRun
  <2> QED BY <1>2, <1>3, <1>4, <1>6, <2>1 DEF RunFits, ReportRun
<1>8. /\ v6' \in [Sch!Instants -> Nat]
      /\ \A p \in Sch!Instants : v6'[p] = v6[p] \/ (v4[t].op = "due" /\ end = "delivered" /\ p = v4[t].period /\ v6'[p] = v6[p] + 1)
  BY <1>1, <1>3, <1>5
<1>9. ScheduleShape'
  BY <1>2, <1>6, <1>8 DEF ScheduleInv, ScheduleShape
<1>10. ASSUME NEW u \in Requests PROVE RunFits(u)'
  <2>1. CASE u = t
    BY <1>2, <1>3, <1>7, <2>1 DEF RunFits
  <2>2. CASE u # t
    <3>1. RunFits(u) /\ v4'[u] = v4[u]
      BY <1>6, <2>2 DEF ScheduleInv
    <3> QED BY <1>2, <3>1 DEF RunFits
  <2> QED BY <2>1, <2>2
<1>11. NextIsNear'
  BY <1>2 DEF ScheduleInv, NextIsNear
<1>12. RunsTakeTurns'
  <2> SUFFICES ASSUME ~v8, NEW u \in Requests
               PROVE  /\ v4'[u].op = "now" => /\ \A w \in Requests \ {u} : v4'[w] = Sch!NoRun
                                              /\ v1.enabled => v1.nextAt = v4'[u].next
                      /\ v4'[u].op = "due" => v1.enabled /\ v1.nextAt = v4'[u].period
    BY <1>2 DEF RunsTakeTurns
  <2>1. /\ v4[u].op = "now" => /\ \A w \in Requests \ {u} : v4[w] = Sch!NoRun
                               /\ v1.enabled => v1.nextAt = v4[u].next
        /\ v4[u].op = "due" => v1.enabled /\ v1.nextAt = v4[u].period
    BY DEF ScheduleInv, RunsTakeTurns
  <2>2. v4'[u].op = v4[u].op /\ v4'[u].next = v4[u].next /\ v4'[u].period = v4[u].period
    BY <1>6, <1>7
  <2>3. \A w \in Requests : v4[w] = Sch!NoRun => v4'[w] = Sch!NoRun
    BY <1>6, <1>7
  <2> QED BY <2>1, <2>2, <2>3
<1>13. PeriodsToCome'
  <2> SUFFICES ASSUME ~v8, NEW p \in Sch!Instants
               PROVE  /\ v5[p] <= 1
                      /\ p \notin v7 => v6'[p] <= 1
                      /\ p > v3 \/ (v1.enabled /\ p >= v1.nextAt) =>
                           v5[p] = 0 /\ (p \notin v7 /\ ~HearsOf(p)' => v6'[p] = 0)
    BY <1>2 DEF PeriodsToCome
  <2>1. /\ v5[p] <= 1
        /\ p \notin v7 => v6[p] <= 1
        /\ p > v3 \/ (v1.enabled /\ p >= v1.nextAt) =>
             v5[p] = 0 /\ (p \notin v7 /\ ~HearsOf(p) => v6[p] = 0)
    BY DEF ScheduleInv, PeriodsToCome
  <2>2. HearsOf(p) => HearsOf(p)'
    <3> SUFFICES ASSUME NEW u \in Requests, v4[u].op = "due", v4[u].at = "delivered", v4[u].period = p
                 PROVE  HearsOf(p)'
      BY DEF HearsOf
    <3>1. u # t
      BY <1>2
    <3> QED BY <1>6, <3>1 DEF HearsOf
  <2>3. CASE v6'[p] = v6[p]
    BY <2>1, <2>2, <2>3
  <2>4. CASE v4[t].op = "due" /\ end = "delivered" /\ p = v4[t].period /\ v6'[p] = v6[p] + 1
    <3>1. HearsOf(p)'
      BY <1>7, <2>4 DEF HearsOf
    <3>2. ~HearsOf(p)
      <4> SUFFICES ASSUME NEW u \in Requests, v4[u].op = "due", v4[u].at = "delivered" PROVE FALSE
        BY DEF HearsOf
      <4>1. RunFits(u) /\ RunFits(t)
        BY DEF ScheduleInv
      <4> QED BY <1>2, <2>4, <4>1 DEF RunFits
    <3>3. v1.enabled /\ p >= v1.nextAt
      <4>1. v1.enabled /\ v1.nextAt = p
        BY <2>4 DEF ScheduleInv, RunsTakeTurns
      <4> QED BY <4>1
    <3> QED BY <2>1, <2>4, <3>1, <3>2, <3>3
  <2> QED BY <1>8, <2>3, <2>4
<1> QED BY <1>9, <1>10, <1>11, <1>12, <1>13 DEF ScheduleInv

LEMMA AdvanceKeeps ==
  ASSUME ScheduleInv, Sch!ScheduleConstants, NEW t \in Requests, Sch!Advance(t)
  PROVE  ScheduleInv'
<1> USE IdleRuns
<1>1. /\ v4[t].at \in {"held", "delivered", "failed"} /\ v2 \in {None, t} /\ v2' = None
      /\ v1' = [v1 EXCEPT !.nextAt = v4[t].next] /\ v4' = [v4 EXCEPT ![t] = Sch!NoRun]
      /\ v5' = IF v4[t].op # "due" THEN v5 ELSE [v5 EXCEPT ![v4[t].period] = @ + 1]
      /\ UNCHANGED <<v3, v6, v7, v8>>
  BY DEF Sch!Advance
<1>2. /\ v1 \in ScheduleRow /\ v3 \in Nat /\ v3 <= MaxInstant /\ v4 \in [Requests -> ReportRun]
      /\ v5 \in [Sch!Instants -> Nat] /\ v6 \in [Sch!Instants -> Nat] /\ \A u \in Requests : RunFits(u)
  BY DEF ScheduleInv, ScheduleShape
<1>3. v4[t] \in ReportRun
  BY <1>2
<1>4. v4[t].op \in {"due", "now"} /\ v4[t].next \in Nat /\ v4[t].next <= v3 + 1 /\ v4[t].period \in Sch!Instants
  <2>1. v4[t].op \in {"idle", "due", "now", "patch"} /\ v4[t].next \in Nat /\ v4[t].period \in Sch!Instants
    BY <1>3 DEF ReportRun
  <2> QED BY <1>1, <1>2, <2>1 DEF RunFits
<1>5. /\ v1' \in ScheduleRow /\ v1'.nextAt = v4[t].next /\ v1'.enabled = v1.enabled
  BY <1>1, <1>2, <1>4 DEF ScheduleRow
<1>6. v4'[t] = Sch!NoRun /\ \A u \in Requests \ {t} : v4'[u] = v4[u]
  BY <1>1, <1>2
<1>7. \A u \in Requests \ {t} : v4[u].op # "due"
  BY <1>1, <1>2 DEF RunFits
<1>8. /\ v5' \in [Sch!Instants -> Nat]
      /\ \A p \in Sch!Instants :
           v5'[p] = IF v4[t].op = "due" /\ p = v4[t].period THEN v5[p] + 1 ELSE v5[p]
  BY <1>1, <1>2, <1>4
<1>9. ScheduleShape'
  <2>1. v4' \in [Requests -> ReportRun]
    BY <1>1, <1>2
  <2> QED BY <1>1, <1>5, <1>8, <2>1 DEF ScheduleInv, ScheduleShape
<1>10. ASSUME NEW u \in Requests PROVE RunFits(u)'
  <2>1. CASE u = t
    BY <1>1, <1>6, <2>1 DEF RunFits
  <2>2. CASE u # t
    <3>1. v4'[u] = v4[u] /\ v4[u].op # "due" /\ RunFits(u)
      BY <1>2, <1>6, <1>7, <2>2
    <3> QED BY <1>1, <3>1 DEF RunFits
  <2> QED BY <2>1, <2>2
<1>11. NextIsNear'
  BY <1>1, <1>2, <1>4, <1>5 DEF NextIsNear
<1>12. RunsTakeTurns'
  <2> SUFFICES ASSUME ~v8, NEW u \in Requests
               PROVE  v4'[u].op # "now" /\ v4'[u].op # "due"
    BY <1>1 DEF RunsTakeTurns
  <2>1. CASE u = t
    BY <1>6, <2>1
  <2>2. CASE u # t
    <3>1. v4'[u] = v4[u] /\ v4[u].op # "due"
      BY <1>6, <1>7, <2>2
    <3>2. v4[u].op # "now"
      <4> SUFFICES ASSUME v4[u].op = "now" PROVE FALSE
        OBVIOUS
      <4>1. v4[t] = Sch!NoRun
        BY <2>2 DEF ScheduleInv, RunsTakeTurns
      <4> QED BY <1>4, <4>1
    <3> QED BY <3>1, <3>2
  <2> QED BY <2>1, <2>2
<1>13. PeriodsToCome'
  <2> SUFFICES ASSUME ~v8, NEW p \in Sch!Instants
               PROVE  /\ v5'[p] <= 1
                      /\ p \notin v7 => v6[p] <= 1
                      /\ p > v3 \/ (v1.enabled /\ p >= v4[t].next) =>
                           v5'[p] = 0 /\ (p \notin v7 => v6[p] = 0)
    BY <1>1, <1>5 DEF PeriodsToCome
  <2>1. /\ v5[p] <= 1
        /\ p \notin v7 => v6[p] <= 1
        /\ p > v3 \/ (v1.enabled /\ p >= v1.nextAt) =>
             v5[p] = 0 /\ (p \notin v7 /\ ~HearsOf(p) => v6[p] = 0)
    BY DEF ScheduleInv, PeriodsToCome
  <2>2. HearsOf(p) => v4[t].op = "due" /\ v4[t].period = p
    BY <1>7 DEF HearsOf
  <2>3. p \in Nat /\ v1.nextAt \in Nat
    BY <1>2 DEF ScheduleRow
  <2>4. CASE v4[t].op = "due"
    <3>1. v1.enabled /\ v1.nextAt = v4[t].period
      BY <2>4 DEF ScheduleInv, RunsTakeTurns
    <3>2. v4[t].period <= v3 /\ v4[t].period < v4[t].next
      BY <1>2, <2>4 DEF RunFits
    <3>3. CASE p = v4[t].period
      <4>1. v5[p] = 0
        BY <2>1, <2>3, <3>1, <3>3
      <4> QED BY <1>2, <1>4, <1>8, <2>1, <2>3, <2>4, <3>2, <3>3, <4>1
    <3>4. CASE p # v4[t].period
      <4>1. v5'[p] = v5[p] /\ ~HearsOf(p)
        BY <1>8, <2>2, <3>4
      <4>2. p >= v4[t].next => p >= v1.nextAt
        BY <1>4, <2>3, <3>1, <3>2
      <4> QED BY <2>1, <3>1, <4>1, <4>2
    <3> QED BY <3>3, <3>4
  <2>5. CASE v4[t].op = "now"
    <3>1. v5'[p] = v5[p] /\ ~HearsOf(p)
      BY <1>8, <2>2, <2>5
    <3>2. v1.enabled => v1.nextAt = v4[t].next
      BY <2>5 DEF ScheduleInv, RunsTakeTurns
    <3> QED BY <2>1, <3>1, <3>2
  <2> QED BY <1>4, <2>4, <2>5
<1> QED BY <1>9, <1>10, <1>11, <1>12, <1>13 DEF ScheduleInv

LEMMA ReadScheduleKeeps ==
  ASSUME ScheduleInv, Sch!ScheduleConstants, NEW t \in Requests, Sch!ReadSchedule(t)
  PROVE  ScheduleInv'
<1> USE IdleRuns
<1>20. PICK enabled \in BOOLEAN :
         Sch!Start(t, [Sch!NoRun EXCEPT !.op = "patch", !.at = "read", !.version = v1.version, !.patch = enabled])
  BY Zenon DEF Sch!ReadSchedule
<1>0. PICK r :
        /\ r = [Sch!NoRun EXCEPT !.op = "patch", !.at = "read", !.version = v1.version, !.patch = enabled]
        /\ Sch!Start(t, r)
  BY <1>20
<1>1. UNCHANGED <<v1, v2, v3, v5, v6, v7>>
  BY DEF Sch!ReadSchedule
<1>2. v1 \in ScheduleRow /\ v4 \in [Requests -> ReportRun]
  BY DEF ScheduleInv, ScheduleShape
<1>3. v1.version \in Nat
  BY <1>2 DEF ScheduleRow
<1>5. r \in ReportRun
  BY <1>0, <1>3 DEF ReportRun, Sch!NoRun
<1>6. r.op = "patch" /\ r.at = "read"
  BY <1>0 DEF Sch!NoRun
<1>7. /\ v4[t] = Sch!NoRun /\ v4' = [v4 EXCEPT ![t] = r] /\ v8' \in BOOLEAN /\ (v8 => v8')
      /\ ~v8' => \A u \in Requests : v4[u].op # "now"
  BY <1>0, <1>5, RunBegins
<1>8. v4'[t] = r /\ \A u \in Requests \ {t} : v4'[u] = v4[u]
  BY <1>2, <1>7
<1>9. ScheduleShape'
  BY <1>1, <1>5, <1>7 DEF ScheduleInv, ScheduleShape
<1>10. ASSUME NEW u \in Requests PROVE RunFits(u)'
  <2>1. CASE u = t
    <3>1. v2 # t
      BY <1>7 DEF ScheduleInv, RunFits
    <3> QED BY <1>1, <1>6, <1>8, <2>1, <3>1 DEF RunFits
  <2>2. CASE u # t
    <3>1. RunFits(u) /\ v4'[u] = v4[u]
      BY <1>8, <2>2 DEF ScheduleInv
    <3> QED BY <1>1, <3>1 DEF RunFits
  <2> QED BY <2>1, <2>2
<1>11. NextIsNear'
  BY <1>1 DEF ScheduleInv, NextIsNear
<1>12. RunsTakeTurns'
  <2> SUFFICES ASSUME ~v8', NEW u \in Requests
               PROVE  v4'[u].op # "now" /\ (v4'[u].op = "due" => v1.enabled /\ v1.nextAt = v4'[u].period)
    BY <1>1 DEF RunsTakeTurns
  <2>1. CASE u = t
    BY <1>6, <1>8, <2>1
  <2>2. CASE u # t
    <3>1. v4'[u] = v4[u] /\ ~v8
      BY <1>7, <1>8, <2>2
    <3>2. v4[u].op = "due" => v1.enabled /\ v1.nextAt = v4[u].period
      BY <3>1 DEF ScheduleInv, RunsTakeTurns
    <3> QED BY <1>7, <3>1, <3>2
  <2> QED BY <2>1, <2>2
<1>13. PeriodsToCome'
  <2>1. ASSUME NEW p PROVE HearsOf(p) => HearsOf(p)'
    <3> SUFFICES ASSUME NEW u \in Requests, v4[u].op = "due", v4[u].at = "delivered", v4[u].period = p
                 PROVE  HearsOf(p)'
      BY DEF HearsOf
    <3>1. u # t
      BY <1>7
    <3> QED BY <1>8, <3>1 DEF HearsOf
  <2> QED BY <1>1, <1>7, <2>1 DEF ScheduleInv, PeriodsToCome
<1> QED BY <1>9, <1>10, <1>11, <1>12, <1>13 DEF ScheduleInv

LEMMA PatchScheduleKeeps ==
  ASSUME ScheduleInv, Sch!ScheduleConstants, NEW t \in Requests, Sch!PatchSchedule(t)
  PROVE  ScheduleInv'
<1> USE IdleRuns
<1>1. /\ v4[t].op = "patch" /\ v2 = None
      /\ v1' = [v1 EXCEPT !.enabled = v4[t].patch, !.version = @ + 1,
                          !.nextAt = IF v4[t].patch THEN v3 + 1 ELSE Sch!Unset]
      /\ v4' = [v4 EXCEPT ![t] = Sch!NoRun] /\ UNCHANGED <<v2, v3, v5, v6, v7, v8>>
  BY DEF Sch!PatchSchedule, Sch!NextRunAt
<1>2. /\ v1 \in ScheduleRow /\ v3 \in Nat /\ v3 <= MaxInstant /\ v4 \in [Requests -> ReportRun]
      /\ \A u \in Requests : RunFits(u)
  BY DEF ScheduleInv, ScheduleShape
<1>3. v4[t] \in ReportRun /\ v4[t].patch \in BOOLEAN
  BY <1>2 DEF ReportRun
<1>4. PICK next \in Nat : next = IF v4[t].patch THEN v3 + 1 ELSE Sch!Unset
  BY <1>2
<1>5. v1' \in ScheduleRow /\ v1'.nextAt = next /\ v1'.enabled = v4[t].patch
  <2>1. PICK on \in BOOLEAN : on = v4[t].patch
    BY <1>3
  <2>2. v1.version + 1 \in Nat
    BY <1>2 DEF ScheduleRow
  <2>3. v1' = [v1 EXCEPT !.enabled = on, !.version = v1.version + 1, !.nextAt = next]
    BY <1>1, <1>4, <2>1
  <2> QED BY <1>2, <2>1, <2>2, <2>3 DEF ScheduleRow
<1>6. v4'[t] = Sch!NoRun /\ (\A u \in Requests \ {t} : v4'[u] = v4[u]) /\ v4' \in [Requests -> ReportRun]
  BY <1>1, <1>2
<1>7. \A u \in Requests : v4[u].op # "due"
  BY <1>1, <1>2 DEF RunFits
<1>9. ScheduleShape'
  BY <1>1, <1>5, <1>6 DEF ScheduleInv, ScheduleShape
<1>10. ASSUME NEW u \in Requests PROVE RunFits(u)'
  <2>1. CASE u = t
    BY <1>1, <1>6, <2>1 DEF RunFits
  <2>2. CASE u # t
    <3>1. v4'[u] = v4[u] /\ RunFits(u)
      BY <1>2, <1>6, <2>2
    <3> QED BY <1>1, <3>1 DEF RunFits
  <2> QED BY <2>1, <2>2
<1>11. NextIsNear'
  BY <1>1, <1>2, <1>4, <1>5 DEF NextIsNear
<1>12. RunsTakeTurns'
  <2> SUFFICES ASSUME ~v8, NEW u \in Requests
               PROVE  v4'[u].op # "now" /\ v4'[u].op # "due"
    BY <1>1 DEF RunsTakeTurns
  <2>1. CASE u = t
    BY <1>6, <2>1
  <2>2. CASE u # t
    <3>1. v4'[u] = v4[u] /\ v4[u].op # "due"
      BY <1>6, <1>7, <2>2
    <3>2. v4[u].op # "now"
      <4> SUFFICES ASSUME v4[u].op = "now" PROVE FALSE
        OBVIOUS
      <4>1. v4[t] = Sch!NoRun
        BY <2>2 DEF ScheduleInv, RunsTakeTurns
      <4> QED BY <1>1, <4>1
    <3> QED BY <3>1, <3>2
  <2> QED BY <2>1, <2>2
<1>13. PeriodsToCome'
  <2> SUFFICES ASSUME ~v8, NEW p \in Sch!Instants
               PROVE  /\ v5[p] <= 1
                      /\ p \notin v7 => v6[p] <= 1
                      /\ p > v3 \/ (v1'.enabled /\ p >= v1'.nextAt) =>
                           v5[p] = 0 /\ (p \notin v7 => v6[p] = 0)
    BY <1>1 DEF PeriodsToCome
  <2>1. /\ v5[p] <= 1
        /\ p \notin v7 => v6[p] <= 1
        /\ p > v3 => v5[p] = 0 /\ (p \notin v7 /\ ~HearsOf(p) => v6[p] = 0)
    BY DEF ScheduleInv, PeriodsToCome
  <2>2. ~HearsOf(p)
    BY <1>7 DEF HearsOf
  <2>3. v1'.enabled /\ p >= v1'.nextAt => p > v3
    BY <1>2, <1>4, <1>5
  <2> QED BY <2>1, <2>2, <2>3
<1> QED BY <1>9, <1>10, <1>11, <1>12, <1>13 DEF ScheduleInv

LEMMA AbortScheduleKeeps ==
  ASSUME ScheduleInv, Sch!ScheduleConstants, NEW t \in Requests, Sch!AbortSchedule(t)
  PROVE  ScheduleInv'
<1> USE IdleRuns
<1>1. /\ v7' = IF v4[t].op = "due" /\ v4[t].at = "delivered" THEN v7 \cup {v4[t].period} ELSE v7
      /\ v2' = IF v2 = t THEN None ELSE v2
      /\ v4' = [v4 EXCEPT ![t] = Sch!NoRun] /\ UNCHANGED <<v1, v3, v5, v6, v8>>
  BY DEF Sch!AbortSchedule
<1>2. v2 \in Requests \cup {None} /\ v4 \in [Requests -> ReportRun] /\ \A u \in Requests : RunFits(u)
  BY DEF ScheduleInv, ScheduleShape
<1>6. v4'[t] = Sch!NoRun /\ (\A u \in Requests \ {t} : v4'[u] = v4[u]) /\ v4' \in [Requests -> ReportRun]
  BY <1>1, <1>2
<1>9. ScheduleShape'
  <2>1. v2' \in Requests \cup {None}
    BY <1>1, <1>2
  <2> QED BY <1>1, <1>6, <2>1 DEF ScheduleInv, ScheduleShape
<1>10. ASSUME NEW u \in Requests PROVE RunFits(u)'
  <2>1. CASE u = t
    BY <1>1, <1>6, <2>1 DEF RunFits
  <2>2. CASE u # t
    <3>1. v4'[u] = v4[u] /\ RunFits(u)
      BY <1>2, <1>6, <2>2
    <3> QED BY <1>1, <2>2, <3>1 DEF RunFits
  <2> QED BY <2>1, <2>2
<1>11. NextIsNear'
  BY <1>1 DEF ScheduleInv, NextIsNear
<1>12. RunsTakeTurns'
  <2>1. \A w \in Requests : v4[w] = Sch!NoRun => v4'[w] = Sch!NoRun
    BY <1>6
  <2>2. \A u \in Requests : v4'[u].op \in {"now", "due"} => v4'[u] = v4[u]
    BY <1>6
  <2> QED BY <1>1, <2>1, <2>2 DEF ScheduleInv, RunsTakeTurns
<1>13. PeriodsToCome'
  <2> SUFFICES ASSUME ~v8, NEW p \in Sch!Instants
               PROVE  /\ v5[p] <= 1
                      /\ p \notin v7' => v6[p] <= 1
                      /\ p > v3 \/ (v1.enabled /\ p >= v1.nextAt) =>
                           v5[p] = 0 /\ (p \notin v7' /\ ~HearsOf(p)' => v6[p] = 0)
    BY <1>1 DEF PeriodsToCome
  <2>1. /\ v5[p] <= 1
        /\ p \notin v7 => v6[p] <= 1
        /\ p > v3 \/ (v1.enabled /\ p >= v1.nextAt) => v5[p] = 0 /\ (p \notin v7 /\ ~HearsOf(p) => v6[p] = 0)
    BY DEF ScheduleInv, PeriodsToCome
  <2>2. p \notin v7' => p \notin v7
    BY <1>1
  <2>3. HearsOf(p) => HearsOf(p)' \/ p \in v7'
    <3> SUFFICES ASSUME NEW u \in Requests, v4[u].op = "due", v4[u].at = "delivered", v4[u].period = p
                 PROVE  HearsOf(p)' \/ p \in v7'
      BY DEF HearsOf
    <3>1. CASE u = t
      BY <1>1, <3>1
    <3>2. CASE u # t
      BY <1>6, <3>2 DEF HearsOf
    <3> QED BY <3>1, <3>2
  <2> QED BY <2>1, <2>2, <2>3
<1> QED BY <1>9, <1>10, <1>11, <1>12, <1>13 DEF ScheduleInv

LEMMA NextInstantKeeps ==
  ASSUME ScheduleInv, Sch!ScheduleConstants, Sch!NextInstant
  PROVE  ScheduleInv'
<1> USE IdleRuns
<1>1. v3 < MaxInstant /\ v3' = v3 + 1 /\ UNCHANGED <<v1, v2, v4, v5, v6, v7, v8>>
  BY DEF Sch!NextInstant
<1>2. v3 \in Nat /\ v1 \in ScheduleRow /\ v4 \in [Requests -> ReportRun]
  BY DEF ScheduleInv, ScheduleShape
<1>3. ScheduleShape'
  BY <1>1, <1>2 DEF ScheduleInv, ScheduleShape
<1>4. ASSUME NEW u \in Requests PROVE RunFits(u)'
  <2>1. RunFits(u) /\ v4[u].next \in Nat /\ v4[u].period \in Nat
    BY <1>2 DEF ScheduleInv, ReportRun
  <2> QED BY <1>1, <1>2, <2>1 DEF RunFits
<1>5. NextIsNear'
  <2>1. NextIsNear /\ v1.nextAt \in Nat
    BY <1>2 DEF ScheduleInv, ScheduleRow
  <2> QED BY <1>1, <1>2, <2>1 DEF NextIsNear
<1>6. RunsTakeTurns'
  BY <1>1 DEF ScheduleInv, RunsTakeTurns
<1>7. PeriodsToCome'
  <2>1. \A p \in Sch!Instants : p > v3' => p > v3
    BY <1>1, <1>2
  <2>2. \A p \in Sch!Instants : HearsOf(p)' <=> HearsOf(p)
    BY <1>1 DEF HearsOf
  <2> QED BY <1>1, <2>1, <2>2 DEF ScheduleInv, PeriodsToCome
<1> QED BY <1>3, <1>4, <1>5, <1>6, <1>7 DEF ScheduleInv

LEMMA ScheduleStep ==
  ASSUME ScheduleInv, Sch!ScheduleConstants, [Sch!ScheduleNext]_(Sch!scheduleVars)
  PROVE  ScheduleInv'
<1>1. CASE UNCHANGED Sch!scheduleVars
  <2>1. UNCHANGED <<v1, v2, v3, v4, v5, v6, v7, v8>>
    BY <1>1 DEF Sch!scheduleVars
  <2> QED BY <2>1 DEF ScheduleInv, ScheduleShape, RunFits, NextIsNear, RunsTakeTurns, PeriodsToCome, HearsOf
<1>2. CASE Sch!NextInstant
  BY <1>2, NextInstantKeeps
<1>3. ASSUME NEW t \in Requests,
             Sch!ClaimDue(t) \/ Sch!RunNow(t) \/ Sch!Execute(t) \/ Sch!Advance(t)
               \/ Sch!ReadSchedule(t) \/ Sch!PatchSchedule(t) \/ Sch!AbortSchedule(t)
      PROVE  ScheduleInv'
  BY <1>3, ClaimDueKeeps, RunNowKeeps, ExecuteKeeps, AdvanceKeeps, ReadScheduleKeeps, PatchScheduleKeeps,
     AbortScheduleKeeps
<1> QED BY <1>1, <1>2, <1>3 DEF Sch!ScheduleNext

LEMMA ScheduleMeans ==
  ASSUME ScheduleInv, Sch!ScheduleConstants
  PROVE  Sch!EnabledHasNextRun /\ Sch!PeriodRunsOnce /\ Sch!OneRunner
<1>1. Sch!EnabledHasNextRun
  BY DEF Sch!EnabledHasNextRun, ScheduleInv, NextIsNear
<1>2. Sch!PeriodRunsOnce
  BY DEF Sch!PeriodRunsOnce, ScheduleInv, PeriodsToCome
<1>3. Sch!OneRunner
  <2> DEFINE D == {t \in Requests : v4[t].op = "due"}
  <2>1. D \subseteq {v2}
    BY DEF ScheduleInv, RunFits
  <2>2. IsFiniteSet({v2}) /\ Cardinality({v2}) = 1
    BY FS_Singleton
  <2>3. Cardinality(D) <= 1
    BY <2>1, <2>2, FS_Subset
  <2>4. Sch!Cardinality(D) = Cardinality(D)
    BY DEF Cardinality, Sch!Cardinality
  <2> QED BY <2>3, <2>4 DEF Sch!OneRunner
<1> QED BY <1>1, <1>2, <1>3

LEMMA NoReviewFits ==
  ASSUME Rev!ReviewConstants
  PROVE  /\ Rev!NoReview \in ReviewWork /\ Rev!NoReview.op = "idle" /\ Rev!NoReview.at = "start"
         /\ Rev!NoReview.outcome = None /\ None \notin Requests /\ None \notin Reviewers /\ None \notin {"sent", "failed"}
<1>1. None \notin Requests /\ None \notin Reviewers /\ None \notin {"sent", "failed"}
  BY DEF Rev!ReviewConstants
<1>2. Rev!NoReview \in ReviewWork
  BY DEF Rev!NoReview, ReviewWork
<1> QED BY <1>1, <1>2 DEF Rev!NoReview

LEMMA NewestIsOne ==
  ASSUME NEW s \in Seq(NarrativeVersion), s # <<>>
  PROVE  /\ Len(s) \in 1..Len(s) /\ Rev!Newest(s) = s[Len(s)] /\ Rev!Newest(s) \in NarrativeVersion
         /\ Rev!Newest(s).edit \in Nat
<1>1. Len(s) \in 1..Len(s)
  OBVIOUS
<1>2. s[Len(s)] \in NarrativeVersion
  BY <1>1
<1> QED BY <1>1, <1>2 DEF Rev!Newest, NarrativeVersion

(* A request takes its next step, and the others stay where they are.      *)
LEMMA WorkStands ==
  ASSUME ReviewShape, NEW t \in Requests, NEW a \in {"marked", "half stored", "stored", "stamped"},
         v7' = [v7 EXCEPT ![t].at = a]
  PROVE  /\ v7' \in [Requests -> ReviewWork] /\ v7'[t].at = a /\ v7'[t].op = v7[t].op
         /\ v7'[t].by = v7[t].by /\ v7'[t].versions = v7[t].versions /\ v7'[t].outcome = v7[t].outcome
         /\ \A u \in Requests \ {t} : v7'[u] = v7[u]
<1>1. v7 \in [Requests -> ReviewWork] /\ v7[t] \in ReviewWork
  BY Zenon DEF ReviewShape
<1>2. v7'[t] = [v7[t] EXCEPT !.at = a] /\ \A u \in Requests \ {t} : v7'[u] = v7[u]
  BY <1>1, Zenon
<1>3. [v7[t] EXCEPT !.at = a] \in ReviewWork
  BY <1>1, Zenon DEF ReviewWork
<1>4. v7' \in [Requests -> ReviewWork]
  BY <1>1, <1>3, Zenon
<1>5. LET r == [v7[t] EXCEPT !.at = a] IN
        /\ r.at = a /\ r.op = v7[t].op /\ r.by = v7[t].by
        /\ r.versions = v7[t].versions /\ r.outcome = v7[t].outcome
  BY <1>1, Zenon DEF ReviewWork
<1> QED BY <1>2, <1>4, <1>5, Zenon

LEMMA WorkEnds ==
  ASSUME ReviewShape, Rev!ReviewConstants, NEW t \in Requests, v7' = [v7 EXCEPT ![t] = Rev!NoReview]
  PROVE  /\ v7' \in [Requests -> ReviewWork] /\ v7'[t] = Rev!NoReview
         /\ \A u \in Requests \ {t} : v7'[u] = v7[u]
<1>1. v7 \in [Requests -> ReviewWork]
  BY DEF ReviewShape
<1> QED BY <1>1, NoReviewFits

(* What a request does is one of the things it may do.                     *)
LEMMA WhatIsDone ==
  ASSUME ReviewInv, Rev!ReviewConstants, NEW t \in Requests
  PROVE  /\ v7[t] \in ReviewWork /\ ReviewerFits(t)
         /\ v7[t].op \in {"idle", "edit", "regenerate", "approve", "cancel", "expire"}
         /\ v7[t].at \in {"half stored", "stored", "stamped", "delivered"} => v7[t].op \in {"regenerate", "approve"}
         /\ Reviewing(t) => v7[t].versions \in Seq(NarrativeVersion) /\ v7[t].versions # <<>>
<1>1. v7[t] \in ReviewWork /\ ReviewerFits(t)
  BY DEF ReviewInv, ReviewShape
<1>2. v7[t].op \in {"idle", "edit", "regenerate", "approve", "cancel", "expire"}
      /\ v7[t].versions \in Seq(NarrativeVersion)
  BY <1>1, Zenon DEF ReviewWork
<1> QED BY <1>1, <1>2, NoReviewFits, Zenon DEF ReviewerFits, Reviewing

LEMMA ReviewStarts ==
  ASSUME Rev!ReviewInit, Rev!ReviewConstants
  PROVE  ReviewInv
<1> USE NoReviewFits
<1>1. /\ v2 = None /\ v4 = None /\ v5 = 0 /\ v8 = 0 /\ v9 = FALSE /\ v10 = FALSE
      /\ v3 = <<[edit |-> 0, rendered |-> TRUE]>> /\ v6 = [deck |-> 0, pdf |-> 0]
      /\ v7 = [t \in Requests |-> Rev!NoReview]
  BY DEF Rev!ReviewInit
<1>2. v1 \in ReviewedRun /\ v1.status = "ready_for_review"
  BY DEF Rev!ReviewInit, ReviewedRun
<1>3. v3 \in Seq(NarrativeVersion) /\ v3 # <<>> /\ Len(v3) = 1 /\ v3[1].edit = 0
  BY <1>1 DEF NarrativeVersion
<1>4. ReviewShape
  <2>1. v7 \in [Requests -> ReviewWork]
    BY <1>1
  <2>2. v6 \in [deck : Nat, pdf : Nat]
    BY <1>1
  <2>3. v2 \in Requests \cup {None} /\ v4 \in Requests \cup {None} /\ v5 \in Nat /\ v8 \in Nat /\ v9 \in BOOLEAN /\ v10 \in BOOLEAN
    BY <1>1
  <2> QED BY <1>2, <1>3, <2>1, <2>2, <2>3 DEF ReviewShape
<1>5. \A t \in Requests : ReviewerFits(t)
  BY <1>1 DEF ReviewerFits
<1>6. SentWasDecided
  BY <1>1, <1>2 DEF SentWasDecided
<1>7. ReviewersTakeTurns
  <2>1. Rev!Newest(v3).edit = 0
    BY <1>3 DEF Rev!Newest
  <2>2. \A t \in Requests : ~Reviewing(t)
    BY <1>1 DEF Reviewing
  <2>3. v6.deck = 0 /\ v6.pdf = 0 /\ 1..v5 = {}
    BY <1>1
  <2> QED BY <1>1, <1>2, <2>1, <2>2, <2>3 DEF ReviewersTakeTurns
<1> QED BY <1>4, <1>5, <1>6, <1>7 DEF ReviewInv

LEMMA HeldRunKeeps ==
  ASSUME ReviewInv, Rev!ReviewConstants, NEW t \in Requests, Rev!HeldRun(t)
  PROVE  ReviewInv'
<1> USE NoReviewFits
<1>20. PICK op \in {"edit", "regenerate", "approve", "cancel"}, by \in Reviewers :
         /\ op = "approve" => by # v1.requester
         /\ v7' = [v7 EXCEPT ![t] = [Rev!NoReview EXCEPT !.op = op, !.at = "read", !.by = by, !.versions = v3]]
  BY Zenon DEF Rev!HeldRun
<1>0. PICK r :
        /\ op = "approve" => by # v1.requester
        /\ r = [Rev!NoReview EXCEPT !.op = op, !.at = "read", !.by = by, !.versions = v3]
        /\ v7' = [v7 EXCEPT ![t] = r]
  BY <1>20
<1>1. /\ v7[t] = Rev!NoReview /\ v1.status \in {"ready_for_review", "awaiting_review"}
      /\ v10' = (v10 \/ \E u \in Requests : v7[u] # Rev!NoReview)
      /\ UNCHANGED <<v1, v2, v3, v4, v5, v6, v8, v9>>
  BY DEF Rev!HeldRun, Rev!Held
<1>2. ReviewShape
  BY DEF ReviewInv
<1>3. v3 \in Seq(NarrativeVersion) /\ v3 # <<>> /\ v7 \in [Requests -> ReviewWork] /\ v10 \in BOOLEAN
  BY <1>2 DEF ReviewShape
<1>4. r \in ReviewWork
  BY <1>0, <1>3, Zenon DEF ReviewWork, Rev!NoReview
<1>5. r.op = op /\ r.at = "read" /\ r.by = by /\ r.versions = v3 /\ r.outcome = None
  BY <1>0 DEF Rev!NoReview
<1>6. v7'[t] = r /\ (\A u \in Requests \ {t} : v7'[u] = v7[u]) /\ v7' \in [Requests -> ReviewWork]
  BY <1>0, <1>3, <1>4
<1>7. ReviewShape'
  BY <1>1, <1>2, <1>3, <1>6 DEF ReviewShape
<1>8. ASSUME NEW u \in Requests PROVE ReviewerFits(u)'
  <2>1. ReviewerFits(u) /\ ReviewerFits(t)
    BY DEF ReviewInv
  <2>2. CASE u = t
    <3>1. v4 # t
      BY <1>1, <2>1 DEF ReviewerFits
    <3> QED BY <1>0, <1>1, <1>3, <1>5, <1>6, <2>2, <3>1 DEF ReviewerFits
  <2>3. CASE u # t
    BY <1>1, <1>6, <2>1, <2>3 DEF ReviewerFits
  <2> QED BY <2>2, <2>3
<1>9. SentWasDecided'
  BY <1>1 DEF ReviewInv, SentWasDecided
<1>10. ReviewersTakeTurns'
  <2> SUFFICES ASSUME ~v10' PROVE ReviewersTakeTurns'
    BY DEF ReviewersTakeTurns
  <2>1. ~v10 /\ \A u \in Requests : v7[u] = Rev!NoReview
    BY <1>1
  <2>2. \A u \in Requests : Reviewing(u)' => u = t
    BY <1>6, <2>1 DEF Reviewing
  <2>3. StoredFits(t)'
    BY <1>5, <1>6, Zenon DEF StoredFits
  <2>4. v7'[t].versions = v3
    BY <1>5, <1>6
  <2> QED BY <1>1, <2>1, <2>2, <2>3, <2>4 DEF ReviewInv, ReviewersTakeTurns
<1> QED BY <1>7, <1>8, <1>9, <1>10 DEF ReviewInv

LEMMA EditNarrativeKeeps ==
  ASSUME ReviewInv, Rev!ReviewConstants, NEW t \in Requests, Rev!EditNarrative(t)
  PROVE  ReviewInv'
<1> USE NoReviewFits
<1> DEFINE more == [edit |-> v5 + 1, rendered |-> FALSE]
<1>1. /\ v7[t].op = "edit" /\ v5' = v5 + 1 /\ v3' = Append(v7[t].versions, more)
      /\ v7' = [v7 EXCEPT ![t] = Rev!NoReview] /\ UNCHANGED <<v1, v2, v4, v6, v8, v9, v10>>
  BY DEF Rev!EditNarrative, Rev!Step
<1>2. ReviewShape /\ v5 \in Nat /\ Reviewing(t)
  BY <1>1 DEF ReviewInv, ReviewShape, Reviewing
<1>3. v7[t].versions \in Seq(NarrativeVersion) /\ more \in NarrativeVersion
  <2>1. more \in NarrativeVersion
    BY <1>2 DEF NarrativeVersion
  <2> QED BY <1>2, <2>1, WhatIsDone, Zenon
<1>4. /\ v3' \in Seq(NarrativeVersion) /\ v3' # <<>> /\ Len(v3') = Len(v7[t].versions) + 1
      /\ v3'[Len(v3')] = more /\ \A i \in 1..Len(v7[t].versions) : v3'[i] = v7[t].versions[i]
  <2>1. PICK s \in Seq(NarrativeVersion), m \in NarrativeVersion : s = v7[t].versions /\ m = more
    BY <1>3
  <2>2. v3' = Append(s, m)
    BY <1>1, <2>1
  <2> HIDE DEF more
  <2> QED BY <2>1, <2>2, AppendProperties
<1>5. v7'[t] = Rev!NoReview /\ (\A u \in Requests \ {t} : v7'[u] = v7[u]) /\ v7' \in [Requests -> ReviewWork]
  BY <1>1, <1>2, WorkEnds
<1>6. ReviewShape'
  BY <1>1, <1>2, <1>4, <1>5 DEF ReviewShape
<1>7. ASSUME NEW u \in Requests PROVE ReviewerFits(u)'
  <2>1. ReviewerFits(u) /\ ReviewerFits(t)
    BY DEF ReviewInv
  <2>2. CASE u = t
    BY <1>1, <1>5, <2>1, <2>2 DEF ReviewerFits
  <2>3. CASE u # t
    BY <1>1, <1>5, <2>1, <2>3 DEF ReviewerFits
  <2> QED BY <2>2, <2>3
<1>8. SentWasDecided'
  BY <1>1 DEF ReviewInv, SentWasDecided
<1>9. ReviewersTakeTurns'
  <2> SUFFICES ASSUME ~v10 PROVE ReviewersTakeTurns'
    BY <1>1 DEF ReviewersTakeTurns
  <2>1. /\ v7[t].versions = v3 /\ v1.status # "sent" /\ \A u \in Requests : Reviewing(u) => u = t
        /\ \A e \in 1..v5 : \E i \in DOMAIN v3 : v3[i].edit = e
        /\ v8 = (IF v1.status = "sent" THEN 1 ELSE 0)
    BY <1>2 DEF ReviewInv, ReviewersTakeTurns
  <2>2. \A u \in Requests : ~Reviewing(u)'
    <3> SUFFICES ASSUME NEW u \in Requests, Reviewing(u)' PROVE FALSE
      OBVIOUS
    <3>1. u # t
      BY <1>5 DEF Reviewing
    <3> QED BY <1>5, <2>1, <3>1 DEF Reviewing
  <2>3. ~Rev!Newest(v3').rendered
    BY <1>4 DEF Rev!Newest
  <2>4. ASSUME NEW e \in 1..(v5 + 1) PROVE \E i \in DOMAIN v3' : v3'[i].edit = e
    <3>1. CASE e = v5 + 1
      BY <1>4, <3>1
    <3>2. CASE e \in 1..v5
      <4>1. PICK i \in DOMAIN v3 : v3[i].edit = e
        BY <2>1, <3>2
      <4>2. i \in 1..Len(v7[t].versions) /\ i \in DOMAIN v3'
        BY <1>3, <1>4, <2>1, <4>1
      <4> QED BY <1>4, <2>1, <4>1, <4>2
    <3> QED BY <1>2, <3>1, <3>2
  <2> QED BY <1>1, <2>1, <2>2, <2>3, <2>4 DEF ReviewersTakeTurns
<1> QED BY <1>6, <1>7, <1>8, <1>9 DEF ReviewInv

(* A step that changes what a request has locked or stored, and no row.    *)
LEMMA WorkGoesOnInTurns ==
  ASSUME ReviewInv, Rev!ReviewConstants, NEW t \in Requests, Reviewing(t),
         v7'[t].op = v7[t].op, v7'[t].versions = v7[t].versions,
         \A u \in Requests \ {t} : v7'[u] = v7[u],
         UNCHANGED <<v1, v3, v5, v8, v10>>,
         ~v10 => /\ StoredFits(t)'
                 /\ Rev!Newest(v3).rendered => v6'.deck = Rev!Newest(v3).edit /\ v6'.pdf = Rev!Newest(v3).edit
  PROVE  ReviewersTakeTurns'
<1> SUFFICES ASSUME ~v10 PROVE ReviewersTakeTurns'
  BY DEF ReviewersTakeTurns
<1>1. /\ v7[t].versions = v3 /\ v1.status \in {"ready_for_review", "awaiting_review"}
      /\ \A u \in Requests : Reviewing(u) => u = t
      /\ \A e \in 1..v5 : \E i \in DOMAIN v3 : v3[i].edit = e
      /\ v8 = (IF v1.status = "sent" THEN 1 ELSE 0)
  BY DEF ReviewInv, ReviewersTakeTurns
<1>2. \A u \in Requests : Reviewing(u)' => u = t
  <2> SUFFICES ASSUME NEW u \in Requests, Reviewing(u)', u # t PROVE FALSE
    OBVIOUS
  <2> QED BY <1>1 DEF Reviewing
<1> QED BY <1>1, <1>2 DEF ReviewersTakeTurns

LEMMA MarkDecisionKeeps ==
  ASSUME ReviewInv, Rev!ReviewConstants, NEW t \in Requests, Rev!MarkDecision(t)
  PROVE  ReviewInv'
<1> USE NoReviewFits
<1>1. /\ v7[t].op \in {"approve", "cancel"} /\ v7[t].at = "read" /\ v2 = None /\ v2' = t
      /\ v7' = [v7 EXCEPT ![t].at = "marked"] /\ UNCHANGED <<v1, v3, v4, v5, v6, v8, v9, v10>>
  BY DEF Rev!MarkDecision, Rev!Step
<1>2. ReviewShape
  BY DEF ReviewInv
<1>3. /\ v7' \in [Requests -> ReviewWork] /\ v7'[t].at = "marked" /\ v7'[t].op = v7[t].op
      /\ v7'[t].by = v7[t].by /\ v7'[t].versions = v7[t].versions /\ v7'[t].outcome = v7[t].outcome
      /\ \A u \in Requests \ {t} : v7'[u] = v7[u]
  BY <1>1, <1>2, WorkStands, Zenon
<1>4. ReviewShape'
  BY <1>1, <1>2, <1>3 DEF ReviewShape
<1>5. ASSUME NEW u \in Requests PROVE ReviewerFits(u)'
  <2>1. ReviewerFits(u)
    BY DEF ReviewInv
  <2>2. CASE u = t
    BY <1>1, <1>3, <2>1, <2>2 DEF ReviewerFits
  <2>3. CASE u # t
    BY <1>1, <1>3, <2>1, <2>3 DEF ReviewerFits
  <2> QED BY <2>2, <2>3
<1>6. SentWasDecided'
  BY <1>1 DEF ReviewInv, SentWasDecided
<1>7. ReviewersTakeTurns'
  <2>1. StoredFits(t)'
    BY <1>3 DEF StoredFits
  <2>2. ~v10 => (Rev!Newest(v3).rendered => v6'.deck = Rev!Newest(v3).edit /\ v6'.pdf = Rev!Newest(v3).edit)
    BY <1>1 DEF ReviewInv, ReviewersTakeTurns
  <2>3. Reviewing(t)
    BY <1>1 DEF Reviewing
  <2> QED BY <1>1, <1>3, <2>1, <2>2, <2>3, WorkGoesOnInTurns
<1> QED BY <1>4, <1>5, <1>6, <1>7 DEF ReviewInv

LEMMA PutDeckKeeps ==
  ASSUME ReviewInv, Rev!ReviewConstants, NEW t \in Requests, Rev!PutDeck(t)
  PROVE  ReviewInv'
<1> USE NoReviewFits
<1>1. /\ v7[t].op = "regenerate" \/ (v7[t].op = "approve" /\ v7[t].at = "marked")
      /\ v7[t].at \in {"read", "marked"}
      /\ v6' = [v6 EXCEPT !.deck = Rev!Newest(v7[t].versions).edit]
      /\ v7' = [v7 EXCEPT ![t].at = "half stored"] /\ UNCHANGED <<v1, v2, v3, v4, v5, v8, v9, v10>>
  BY Zenon DEF Rev!PutDeck, Rev!Rerenders, Rev!Step
<1>2. ReviewShape /\ Reviewing(t) /\ v6 \in [deck : Nat, pdf : Nat]
  BY <1>1, Zenon DEF ReviewInv, ReviewShape, Reviewing
<1>3. /\ v7' \in [Requests -> ReviewWork] /\ v7'[t].at = "half stored" /\ v7'[t].op = v7[t].op
      /\ v7'[t].by = v7[t].by /\ v7'[t].versions = v7[t].versions /\ v7'[t].outcome = v7[t].outcome
      /\ \A u \in Requests \ {t} : v7'[u] = v7[u]
  BY <1>1, <1>2, WorkStands, Zenon
<1>4. PICK e \in Nat : e = Rev!Newest(v7[t].versions).edit
  BY <1>2, WhatIsDone, NewestIsOne, Zenon
<1>5. v6' \in [deck : Nat, pdf : Nat] /\ v6'.deck = e /\ v6'.pdf = v6.pdf
  BY <1>1, <1>2, <1>4, Zenon
<1>6. ReviewShape'
  BY <1>1, <1>2, <1>3, <1>5, Zenon DEF ReviewShape
<1>7. ASSUME NEW u \in Requests PROVE ReviewerFits(u)'
  <2>1. ReviewerFits(u)
    BY DEF ReviewInv
  <2>2. CASE u = t
    BY <1>1, <1>3, <2>1, <2>2, Zenon DEF ReviewerFits
  <2>3. CASE u # t
    BY <1>1, <1>3, <2>1, <2>3, ZenonT(60) DEF ReviewerFits
  <2> QED BY <2>2, <2>3
<1>8. SentWasDecided'
  BY <1>1, Zenon DEF ReviewInv, SentWasDecided
<1>9. ReviewersTakeTurns'
  <2>1. ~v10 => v7[t].versions = v3
    BY <1>2 DEF ReviewInv, ReviewersTakeTurns
  <2>2. ~v10 => StoredFits(t)'
    BY <1>1, <1>3, <1>4, <1>5, <2>1, Zenon DEF StoredFits
  <2>3. ~v10 => (Rev!Newest(v3).rendered => v6'.deck = Rev!Newest(v3).edit /\ v6'.pdf = Rev!Newest(v3).edit)
    BY <1>4, <1>5, <2>1 DEF ReviewInv, ReviewersTakeTurns
  <2> QED BY <1>1, <1>2, <1>3, <2>2, <2>3, WorkGoesOnInTurns, Zenon
<1> QED BY <1>6, <1>7, <1>8, <1>9 DEF ReviewInv

LEMMA PutPdfKeeps ==
  ASSUME ReviewInv, Rev!ReviewConstants, NEW t \in Requests, Rev!PutPdf(t)
  PROVE  ReviewInv'
<1> USE NoReviewFits
<1>1. /\ v7[t].at = "half stored" /\ v6' = [v6 EXCEPT !.pdf = Rev!Newest(v7[t].versions).edit]
      /\ v7' = [v7 EXCEPT ![t].at = "stored"] /\ UNCHANGED <<v1, v2, v3, v4, v5, v8, v9, v10>>
  BY Zenon DEF Rev!PutPdf
<1>2. v7[t].op \in {"regenerate", "approve"}
  BY <1>1, WhatIsDone, Zenon
<1>3. ReviewShape /\ Reviewing(t) /\ v6 \in [deck : Nat, pdf : Nat]
  BY <1>2 DEF ReviewInv, ReviewShape, Reviewing
<1>4. /\ v7' \in [Requests -> ReviewWork] /\ v7'[t].at = "stored" /\ v7'[t].op = v7[t].op
      /\ v7'[t].by = v7[t].by /\ v7'[t].versions = v7[t].versions /\ v7'[t].outcome = v7[t].outcome
      /\ \A u \in Requests \ {t} : v7'[u] = v7[u]
  BY <1>1, <1>3, WorkStands, Zenon
<1>5. PICK e \in Nat : e = Rev!Newest(v7[t].versions).edit
  BY <1>3, WhatIsDone, NewestIsOne, Zenon
<1>6. v6' \in [deck : Nat, pdf : Nat] /\ v6'.pdf = e /\ v6'.deck = v6.deck
  BY <1>1, <1>3, <1>5, Zenon
<1>7. ReviewShape'
  BY <1>1, <1>3, <1>4, <1>6, Zenon DEF ReviewShape
<1>8. ASSUME NEW u \in Requests PROVE ReviewerFits(u)'
  <2>1. ReviewerFits(u)
    BY DEF ReviewInv
  <2>2. CASE u = t
    BY <1>1, <1>2, <1>4, <2>1, <2>2, Zenon DEF ReviewerFits
  <2>3. CASE u # t
    BY <1>1, <1>4, <2>1, <2>3, Zenon DEF ReviewerFits
  <2> QED BY <2>2, <2>3
<1>9. SentWasDecided'
  BY <1>1, Zenon DEF ReviewInv, SentWasDecided
<1>10. ReviewersTakeTurns'
  <2>1. ~v10 => v7[t].versions = v3 /\ StoredFits(t)
    BY <1>3 DEF ReviewInv, ReviewersTakeTurns
  <2>2. ~v10 => StoredFits(t)'
    BY <1>1, <1>4, <1>5, <1>6, <2>1, Zenon DEF StoredFits
  <2>3. ~v10 => (Rev!Newest(v3).rendered => v6'.deck = Rev!Newest(v3).edit /\ v6'.pdf = Rev!Newest(v3).edit)
    BY <1>5, <1>6, <2>1 DEF ReviewInv, ReviewersTakeTurns
  <2> QED BY <1>1, <1>3, <1>4, <2>2, <2>3, WorkGoesOnInTurns, Zenon
<1> QED BY <1>7, <1>8, <1>9, <1>10 DEF ReviewInv

LEMMA StampPackKeeps ==
  ASSUME ReviewInv, Rev!ReviewConstants, NEW t \in Requests, Rev!StampPack(t)
  PROVE  ReviewInv'
<1> USE NoReviewFits
<1>1. /\ v7[t].at = "stored" /\ v4 = None /\ v4' = t
      /\ v7' = [v7 EXCEPT ![t].at = "stamped"] /\ UNCHANGED <<v1, v2, v3, v5, v6, v8, v9, v10>>
  BY DEF Rev!StampPack
<1>2. v7[t].op \in {"regenerate", "approve"}
  BY <1>1, WhatIsDone, Zenon
<1>3. ReviewShape /\ Reviewing(t)
  BY <1>2 DEF ReviewInv, Reviewing
<1>4. /\ v7' \in [Requests -> ReviewWork] /\ v7'[t].at = "stamped" /\ v7'[t].op = v7[t].op
      /\ v7'[t].by = v7[t].by /\ v7'[t].versions = v7[t].versions /\ v7'[t].outcome = v7[t].outcome
      /\ \A u \in Requests \ {t} : v7'[u] = v7[u]
  BY <1>1, <1>3, WorkStands, Zenon
<1>5. ReviewShape'
  BY <1>1, <1>3, <1>4 DEF ReviewShape
<1>6. ASSUME NEW u \in Requests PROVE ReviewerFits(u)'
  <2>1. ReviewerFits(u)
    BY DEF ReviewInv
  <2>2. CASE u = t
    BY <1>1, <1>2, <1>4, <2>1, <2>2 DEF ReviewerFits
  <2>3. CASE u # t
    BY <1>1, <1>4, <2>1, <2>3 DEF ReviewerFits
  <2> QED BY <2>2, <2>3
<1>7. SentWasDecided'
  BY <1>1 DEF ReviewInv, SentWasDecided
<1>8. ReviewersTakeTurns'
  <2>1. ~v10 => StoredFits(t)
    BY <1>3 DEF ReviewInv, ReviewersTakeTurns
  <2>2. ~v10 => StoredFits(t)'
    BY <1>1, <1>4, <2>1 DEF StoredFits
  <2>3. ~v10 => (Rev!Newest(v3).rendered => v6'.deck = Rev!Newest(v3).edit /\ v6'.pdf = Rev!Newest(v3).edit)
    BY <1>1 DEF ReviewInv, ReviewersTakeTurns
  <2> QED BY <1>1, <1>3, <1>4, <2>2, <2>3, WorkGoesOnInTurns
<1> QED BY <1>5, <1>6, <1>7, <1>8 DEF ReviewInv

LEMMA DeliverKeeps ==
  ASSUME ReviewInv, Rev!ReviewConstants, NEW t \in Requests, Rev!Deliver(t)
  PROVE  ReviewInv'
<1> USE NoReviewFits
<1>1. /\ v7[t].op = "approve"
      /\ v7[t].at = "stamped" \/ (v7[t].at = "marked" /\ Rev!Newest(v7[t].versions).rendered)
      /\ UNCHANGED <<v1, v2, v3, v4, v5, v6, v8, v9, v10>>
  BY DEF Rev!Deliver, Rev!Step, Rev!Rerenders
<1>2. PICK outcome \in {"sent", "failed"} :
        v7' = [v7 EXCEPT ![t] = [@ EXCEPT !.at = "delivered", !.outcome = outcome]]
  BY DEF Rev!Deliver
<1>3. ReviewShape /\ Reviewing(t) /\ v7 \in [Requests -> ReviewWork] /\ v7[t] \in ReviewWork
  BY <1>1 DEF ReviewInv, ReviewShape, Reviewing
<1>4. PICK r : r = [v7[t] EXCEPT !.at = "delivered", !.outcome = outcome]
  OBVIOUS
<1>5. r \in ReviewWork /\ r.at = "delivered" /\ r.outcome = outcome /\ r.op = v7[t].op
      /\ r.by = v7[t].by /\ r.versions = v7[t].versions
  BY <1>3, <1>4, Zenon DEF ReviewWork
<1>6. v7' = [v7 EXCEPT ![t] = r]
  BY <1>2, <1>4
<1>7. v7'[t] = r /\ (\A u \in Requests \ {t} : v7'[u] = v7[u]) /\ v7' \in [Requests -> ReviewWork]
  BY <1>3, <1>5, <1>6
<1>8. ReviewShape'
  BY <1>1, <1>3, <1>7 DEF ReviewShape
<1>9. ASSUME NEW u \in Requests PROVE ReviewerFits(u)'
  <2>1. ReviewerFits(u)
    BY DEF ReviewInv
  <2>2. CASE u = t
    <3>1. outcome # None
      OBVIOUS
    <3> QED BY <1>1, <1>5, <1>7, <2>1, <2>2, <3>1 DEF ReviewerFits
  <2>3. CASE u # t
    BY <1>1, <1>7, <2>1, <2>3 DEF ReviewerFits
  <2> QED BY <2>2, <2>3
<1>10. SentWasDecided'
  BY <1>1 DEF ReviewInv, SentWasDecided
<1>11. ReviewersTakeTurns'
  <2>1. ~v10 => /\ StoredFits(t) /\ v7[t].versions = v3
                /\ Rev!Newest(v3).rendered => v6.deck = Rev!Newest(v3).edit /\ v6.pdf = Rev!Newest(v3).edit
    BY <1>3 DEF ReviewInv, ReviewersTakeTurns
  <2>2. ~v10 => StoredFits(t)'
    BY <1>1, <1>5, <1>7, <2>1, Zenon DEF StoredFits
  <2> QED BY <1>1, <1>3, <1>5, <1>7, <2>1, <2>2, WorkGoesOnInTurns
<1> QED BY <1>8, <1>9, <1>10, <1>11 DEF ReviewInv

LEMMA MarkedIsSame ==
  ASSUME NEW s \in Seq(NarrativeVersion), s # <<>>
  PROVE  /\ Rev!MarkRendered(s) \in Seq(NarrativeVersion) /\ Rev!MarkRendered(s) # <<>>
         /\ DOMAIN Rev!MarkRendered(s) = DOMAIN s
         /\ \A i \in DOMAIN s : Rev!MarkRendered(s)[i].edit = s[i].edit
         /\ Rev!Newest(Rev!MarkRendered(s)).edit = Rev!Newest(s).edit
<1>1. PICK n \in Nat : n = Len(s)
  OBVIOUS
<1>2. n \in DOMAIN s /\ DOMAIN s = 1..n /\ s \in [1..n -> NarrativeVersion] /\ n \in 1..n
  BY <1>1
<1>3. PICK r : r = [s[n] EXCEPT !.rendered = TRUE]
  OBVIOUS
<1>4. r \in NarrativeVersion /\ r.edit = s[n].edit
  BY <1>2, <1>3 DEF NarrativeVersion
<1>5. PICK m : m = Rev!MarkRendered(s)
  OBVIOUS
<1>6. m = [s EXCEPT ![n] = r]
  BY <1>1, <1>3, <1>5 DEF Rev!MarkRendered
<1>7. m \in [1..n -> NarrativeVersion] /\ m[n] = r /\ \A i \in (1..n) \ {n} : m[i] = s[i]
  BY <1>2, <1>4, <1>6
<1>8. m \in Seq(NarrativeVersion) /\ Len(m) = n /\ DOMAIN m = 1..n /\ m # <<>>
  BY <1>2, <1>7
<1>9. \A i \in DOMAIN s : m[i].edit = s[i].edit
  BY <1>2, <1>4, <1>7
<1> QED BY <1>1, <1>2, <1>5, <1>8, <1>9 DEF Rev!Newest

(* A request that ends lets go of the rows it held, and of no others.      *)
LEMMA OthersStayLocked ==
  ASSUME ReviewInv, Rev!ReviewConstants, NEW t \in Requests,
         v7' = [v7 EXCEPT ![t] = Rev!NoReview],
         v2' = (IF v2 = t THEN None ELSE v2), v4' = (IF v4 = t THEN None ELSE v4),
         v1'.requester = v1.requester, v2 = t \/ v1'.status = v1.status
  PROVE  /\ \A u \in Requests : ReviewerFits(u)'
         /\ \A u \in Requests : Reviewing(u)' => u # t /\ Reviewing(u) /\ v7'[u] = v7[u]
<1> USE NoReviewFits
<1>1. ReviewShape
  BY DEF ReviewInv
<1>2. v7'[t] = Rev!NoReview /\ (\A u \in Requests \ {t} : v7'[u] = v7[u]) /\ v7' \in [Requests -> ReviewWork]
  BY <1>1, WorkEnds
<1>3. ASSUME NEW u \in Requests PROVE ReviewerFits(u)'
  <2>1. ReviewerFits(u)
    BY DEF ReviewInv
  <2>2. CASE u = t
    BY <1>2, <2>2 DEF ReviewerFits
  <2>3. CASE u # t
    <3>1. (v2' = u <=> v2 = u) /\ (v4' = u <=> v4 = u) /\ (v2 = u => v1'.status = v1.status)
      BY <2>3
    <3> QED BY <1>2, <2>1, <2>3, <3>1 DEF ReviewerFits
  <2> QED BY <2>2, <2>3
<1>4. ASSUME NEW u \in Requests, Reviewing(u)' PROVE u # t /\ Reviewing(u) /\ v7'[u] = v7[u]
  <2>1. u # t
    BY <1>2, <1>4 DEF Reviewing
  <2> QED BY <1>2, <1>4, <2>1 DEF Reviewing
<1> QED BY <1>3, <1>4

LEMMA AbortReviewKeeps ==
  ASSUME ReviewInv, Rev!ReviewConstants, NEW t \in Requests, Rev!AbortReview(t)
  PROVE  ReviewInv'
<1>1. /\ v7' = [v7 EXCEPT ![t] = Rev!NoReview]
      /\ v2' = (IF v2 = t THEN None ELSE v2) /\ v4' = (IF v4 = t THEN None ELSE v4)
      /\ UNCHANGED <<v1, v3, v5, v6, v8, v9, v10>>
  BY DEF Rev!AbortReview
<1>2. ReviewShape /\ v7' \in [Requests -> ReviewWork]
  BY <1>1, WorkEnds DEF ReviewInv
<1>3. ReviewShape'
  BY <1>1, <1>2 DEF ReviewShape
<1>4. /\ \A u \in Requests : ReviewerFits(u)'
      /\ \A u \in Requests : Reviewing(u)' => u # t /\ Reviewing(u) /\ v7'[u] = v7[u]
  BY <1>1, OthersStayLocked
<1>5. SentWasDecided'
  BY <1>1 DEF ReviewInv, SentWasDecided
<1>6. ReviewersTakeTurns'
  BY <1>1, <1>4, ZenonT(60) DEF ReviewInv, ReviewersTakeTurns, StoredFits
<1> QED BY <1>3, <1>4, <1>5, <1>6 DEF ReviewInv

(* What a request commits: a decision, or that it rendered the files.      *)
LEMMA CommitReviewKeeps ==
  ASSUME ReviewInv, Rev!ReviewConstants, NEW t \in Requests, Rev!CommitReview(t)
  PROVE  ReviewInv'
<1> USE NoReviewFits
<1>1. /\ v7' = [v7 EXCEPT ![t] = Rev!NoReview]
      /\ v2' = (IF v2 = t THEN None ELSE v2) /\ v4' = (IF v4 = t THEN None ELSE v4)
      /\ v3' = (IF v4 = t THEN Rev!MarkRendered(v7[t].versions) ELSE v3)
      /\ v8' = v8 + (IF v7[t].outcome = "sent" THEN 1 ELSE 0)
      /\ v9' = (v9 \/ v7[t].op # "regenerate")
      /\ UNCHANGED <<v5, v6, v10>>
  BY DEF Rev!CommitReview
<1>2. \/ v7[t].op = "approve" /\ v7[t].at = "delivered"
      \/ v7[t].op = "cancel" /\ v7[t].at = "marked"
      \/ v7[t].op = "regenerate" /\ v7[t].at = "stamped"
  BY DEF Rev!CommitReview, Rev!Step
<1>3. ReviewShape /\ Reviewing(t) /\ ReviewerFits(t) /\ v7[t] \in ReviewWork
      /\ v7[t].versions \in Seq(NarrativeVersion) /\ v7[t].versions # <<>>
  BY <1>2, WhatIsDone, Zenon DEF ReviewInv, Reviewing
<1>4. PICK w : w = (IF v7[t].op = "cancel" THEN "skipped" ELSE v7[t].outcome)
  OBVIOUS
<1>5. /\ v7[t].op = "regenerate" => v1' = v1 /\ v9' = v9 /\ v4 = t /\ v7[t].outcome = None
      /\ v7[t].op # "regenerate" =>
           v1' = [v1 EXCEPT !.status = w, !.reviewer = v7[t].by] /\ v9' = TRUE /\ v2 = t
  <2>1. v9 \in BOOLEAN
    BY <1>3 DEF ReviewShape
  <2>2. v1' = (IF v7[t].op = "regenerate" THEN v1
               ELSE [v1 EXCEPT !.status = w, !.reviewer = v7[t].by])
    BY <1>4 DEF Rev!CommitReview
  <2>3. v7[t].op = "regenerate" => v4 = t /\ v7[t].outcome = None
    BY <1>2, <1>3 DEF ReviewerFits
  <2>4. v7[t].op # "regenerate" => v2 = t
    BY <1>2, <1>3 DEF ReviewerFits
  <2> QED BY <1>1, <2>1, <2>2, <2>3, <2>4
<1>6. /\ v7[t].op = "approve" => w = v7[t].outcome /\ w \in {"sent", "failed"}
      /\ v7[t].op = "cancel" => w = "skipped" /\ v7[t].outcome = None
      /\ v7[t].by \in Reviewers \cup {None}
  BY <1>2, <1>3, <1>4, Zenon DEF ReviewerFits, ReviewWork
<1>7. v1 \in ReviewedRun /\ v1' \in ReviewedRun /\ v1'.requester = v1.requester
      /\ (v7[t].op # "regenerate" => v1'.status = w /\ v1'.reviewer = v7[t].by)
  <2>1. v1 \in ReviewedRun
    BY <1>3 DEF ReviewShape
  <2>2. CASE v7[t].op = "regenerate"
    BY <1>5, <2>1, <2>2
  <2>3. CASE v7[t].op # "regenerate"
    <3>1. w \in {"sent", "failed", "skipped"}
      BY <1>2, <1>6, <2>3
    <3> QED BY <1>5, <1>6, <2>1, <2>3, <3>1 DEF ReviewedRun
  <2> QED BY <2>2, <2>3, <2>1
<1>8. v3' \in Seq(NarrativeVersion) /\ v3' # <<>>
  BY <1>1, <1>3, MarkedIsSame DEF ReviewShape
<1>9. v8 \in Nat /\ v8' \in Nat
  BY <1>1, <1>3 DEF ReviewShape
<1>10. ReviewShape'
  <2>1. v7' \in [Requests -> ReviewWork]
    BY <1>1, <1>3, WorkEnds
  <2>2. v2' \in Requests \cup {None} /\ v4' \in Requests \cup {None} /\ v9' \in BOOLEAN
    BY <1>1, <1>3 DEF ReviewShape
  <2> QED BY <1>1, <1>3, <1>7, <1>8, <1>9, <2>1, <2>2 DEF ReviewShape
<1>11. /\ \A u \in Requests : ReviewerFits(u)'
       /\ \A u \in Requests : Reviewing(u)' => u # t /\ Reviewing(u) /\ v7'[u] = v7[u]
  <2>1. v2 = t \/ v1'.status = v1.status
    BY <1>5
  <2> QED BY <1>1, <1>7, <2>1, OthersStayLocked
<1>12. SentWasDecided'
  <2>1. CASE v7[t].op = "regenerate"
    <3>1. v8' = v8
      BY <1>1, <1>5, <1>9, <2>1
    <3> QED BY <1>5, <2>1, <3>1 DEF ReviewInv, SentWasDecided
  <2>2. CASE v7[t].op # "regenerate"
    BY <1>2, <1>3, <1>5, <1>6, <1>7, <2>2 DEF SentWasDecided, ReviewerFits
  <2> QED BY <2>1, <2>2
<1>13. ReviewersTakeTurns'
  <2> SUFFICES ASSUME ~v10 PROVE ReviewersTakeTurns'
    BY <1>1 DEF ReviewersTakeTurns
  <2>1. /\ v7[t].versions = v3 /\ v1.status \in {"ready_for_review", "awaiting_review"} /\ StoredFits(t)
        /\ \A u \in Requests : Reviewing(u) => u = t
        /\ Rev!Newest(v3).rendered => v6.deck = Rev!Newest(v3).edit /\ v6.pdf = Rev!Newest(v3).edit
        /\ \A e \in 1..v5 : \E i \in DOMAIN v3 : v3[i].edit = e
        /\ v8 = 0
    BY <1>3 DEF ReviewInv, ReviewersTakeTurns
  <2>2. \A u \in Requests : ~Reviewing(u)'
    BY <1>11, <2>1
  <2>3. DOMAIN v3' = DOMAIN v3 /\ (\A i \in DOMAIN v3 : v3'[i].edit = v3[i].edit)
        /\ Rev!Newest(v3').edit = Rev!Newest(v3).edit
    BY <1>1, <1>3, <2>1, MarkedIsSame
  <2>4. Rev!Newest(v3').rendered \/ v1'.status = "sent" =>
          v6'.deck = Rev!Newest(v3').edit /\ v6'.pdf = Rev!Newest(v3').edit
    <3>1. CASE v7[t].at \in {"stamped", "delivered"}
      BY <1>1, <2>1, <2>3, <3>1, Zenon DEF StoredFits
    <3>2. CASE v7[t].at = "marked"
      <4>1. v4 # t /\ v7[t].op = "cancel"
        BY <1>2, <1>3, <3>2 DEF ReviewerFits
      <4>2. v3' = v3 /\ v1'.status = "skipped"
        BY <1>1, <1>6, <1>7, <4>1
      <4> QED BY <1>1, <2>1, <4>2
    <3> QED BY <1>2, <3>1, <3>2
  <2>5. v8' = (IF v1'.status = "sent" THEN 1 ELSE 0)
    <3>1. CASE v7[t].op = "regenerate"
      BY <1>1, <1>5, <2>1, <3>1
    <3>2. CASE v7[t].op # "regenerate"
      BY <1>1, <1>2, <1>6, <1>7, <2>1, <3>2
    <3> QED BY <3>1, <3>2
  <2>6. \A e \in 1..v5' : \E i \in DOMAIN v3' : v3'[i].edit = e
    BY <1>1, <2>1, <2>3
  <2> QED BY <2>2, <2>4, <2>5, <2>6 DEF ReviewersTakeTurns
<1> QED BY <1>10, <1>11, <1>12, <1>13 DEF ReviewInv

LEMMA ClaimReviewKeeps ==
  ASSUME ReviewInv, Rev!ReviewConstants, NEW t \in Requests, Rev!ClaimReview(t)
  PROVE  ReviewInv'
<1> USE NoReviewFits
<1>1. /\ v7[t] = Rev!NoReview /\ v1.status = "ready_for_review" /\ v2 = None /\ v2' = t
      /\ UNCHANGED <<v1, v3, v4, v5, v6, v8, v9, v10>>
  BY DEF Rev!ClaimReview, Rev!ReviewDue
<1>2. PICK r : r = [Rev!NoReview EXCEPT !.op = "expire", !.at = "claimed"] /\ v7' = [v7 EXCEPT ![t] = r]
  BY DEF Rev!ClaimReview
<1>3. r \in ReviewWork /\ r.op = "expire" /\ r.at = "claimed" /\ r.outcome = None
  BY <1>2, Zenon DEF ReviewWork, Rev!NoReview
<1>4. ReviewShape /\ v7 \in [Requests -> ReviewWork]
  BY DEF ReviewInv, ReviewShape
<1>5. v7'[t] = r /\ (\A u \in Requests \ {t} : v7'[u] = v7[u]) /\ v7' \in [Requests -> ReviewWork]
  BY <1>2, <1>3, <1>4
<1>6. ReviewShape'
  BY <1>1, <1>4, <1>5 DEF ReviewShape
<1>7. ASSUME NEW u \in Requests PROVE ReviewerFits(u)'
  <2>1. ReviewerFits(u) /\ ReviewerFits(t)
    BY DEF ReviewInv
  <2>2. CASE u = t
    <3>1. v4 # t
      BY <1>1, <2>1 DEF ReviewerFits
    <3> QED BY <1>1, <1>3, <1>5, <2>2, <3>1 DEF ReviewerFits
  <2>3. CASE u # t
    BY <1>1, <1>5, <2>1, <2>3 DEF ReviewerFits
  <2> QED BY <2>2, <2>3
<1>8. SentWasDecided'
  BY <1>1 DEF ReviewInv, SentWasDecided
<1>9. ReviewersTakeTurns'
  <2>1. ~Reviewing(t)'
    BY <1>3, <1>5 DEF Reviewing
  <2>2. \A u \in Requests : Reviewing(u)' => u # t /\ Reviewing(u) /\ v7'[u] = v7[u]
    <3> SUFFICES ASSUME NEW u \in Requests, Reviewing(u)' PROVE u # t /\ Reviewing(u) /\ v7'[u] = v7[u]
      OBVIOUS
    <3> QED BY <1>5, <2>1 DEF Reviewing
  <2> QED BY <1>1, <2>2, ZenonT(60) DEF ReviewInv, ReviewersTakeTurns, StoredFits
<1> QED BY <1>6, <1>7, <1>8, <1>9 DEF ReviewInv

LEMMA ExpireReviewKeeps ==
  ASSUME ReviewInv, Rev!ReviewConstants, NEW t \in Requests, Rev!ExpireReview(t)
  PROVE  ReviewInv'
<1> USE NoReviewFits
<1>1. /\ v7[t].op = "expire" /\ v2' = None /\ v1' = [v1 EXCEPT !.status = "awaiting_review"]
      /\ v7' = [v7 EXCEPT ![t] = Rev!NoReview] /\ UNCHANGED <<v3, v4, v5, v6, v8, v9, v10>>
  BY DEF Rev!ExpireReview, Rev!Step
<1>2. ReviewShape /\ v1 \in ReviewedRun
  BY DEF ReviewInv, ReviewShape
<1>3. v2 = t /\ v1.status = "ready_for_review" /\ v4 # t
  BY <1>1 DEF ReviewInv, ReviewerFits
<1>4. v1' \in ReviewedRun /\ v1'.requester = v1.requester /\ v1'.status = "awaiting_review"
  BY <1>1, <1>2 DEF ReviewedRun
<1>5. ReviewShape'
  <2>1. v7' \in [Requests -> ReviewWork]
    BY <1>1, <1>2, WorkEnds
  <2> QED BY <1>1, <1>2, <1>4, <2>1 DEF ReviewShape
<1>6. /\ \A u \in Requests : ReviewerFits(u)'
      /\ \A u \in Requests : Reviewing(u)' => u # t /\ Reviewing(u) /\ v7'[u] = v7[u]
  <2>1. v2' = (IF v2 = t THEN None ELSE v2) /\ v4' = (IF v4 = t THEN None ELSE v4)
    BY <1>1, <1>3
  <2> QED BY <1>1, <1>3, <1>4, <2>1, OthersStayLocked
<1>7. SentWasDecided'
  BY <1>1, <1>3, <1>4 DEF ReviewInv, SentWasDecided
<1>8. ReviewersTakeTurns'
  BY <1>1, <1>3, <1>4, <1>6, ZenonT(60) DEF ReviewInv, ReviewersTakeTurns, StoredFits
<1> QED BY <1>5, <1>6, <1>7, <1>8 DEF ReviewInv

LEMMA GraceEndsKeeps ==
  ASSUME ReviewInv, Rev!ReviewConstants, Rev!GraceEnds
  PROVE  ReviewInv'
<1>1. v1' = [v1 EXCEPT !.due = TRUE] /\ UNCHANGED <<v2, v3, v4, v5, v6, v7, v8, v9, v10>>
  BY DEF Rev!GraceEnds
<1>2. v1 \in ReviewedRun /\ ReviewShape
  BY DEF ReviewInv, ReviewShape
<1>3. v1' \in ReviewedRun /\ v1'.status = v1.status /\ v1'.requester = v1.requester /\ v1'.reviewer = v1.reviewer
  BY <1>1, <1>2 DEF ReviewedRun
<1>4. ReviewShape'
  BY <1>1, <1>2, <1>3 DEF ReviewShape
<1>5. \A u \in Requests : ReviewerFits(u)'
  BY <1>1, <1>3 DEF ReviewInv, ReviewerFits
<1>6. SentWasDecided'
  BY <1>1, <1>3 DEF ReviewInv, SentWasDecided
<1>7. ReviewersTakeTurns'
  BY <1>1, <1>3, Zenon DEF ReviewInv, ReviewersTakeTurns, StoredFits, Reviewing
<1> QED BY <1>4, <1>5, <1>6, <1>7 DEF ReviewInv

LEMMA ReviewStep ==
  ASSUME ReviewInv, Rev!ReviewConstants, Rev!ReviewNext
  PROVE  ReviewInv'
<1>1. CASE Rev!GraceEnds
  BY <1>1, GraceEndsKeeps
<1>2. CASE \E t \in Requests :
             \/ Rev!HeldRun(t) \/ Rev!EditNarrative(t) \/ Rev!MarkDecision(t) \/ Rev!PutDeck(t) \/ Rev!PutPdf(t)
             \/ Rev!StampPack(t) \/ Rev!Deliver(t) \/ Rev!CommitReview(t) \/ Rev!ClaimReview(t)
             \/ Rev!ExpireReview(t) \/ Rev!AbortReview(t)
  BY <1>2, HeldRunKeeps, EditNarrativeKeeps, MarkDecisionKeeps, PutDeckKeeps, PutPdfKeeps, StampPackKeeps,
     DeliverKeeps, CommitReviewKeeps, ClaimReviewKeeps, ExpireReviewKeeps, AbortReviewKeeps
<1> QED BY <1>1, <1>2 DEF Rev!ReviewNext

LEMMA ReviewMeans ==
  ASSUME ReviewInv, Rev!ReviewConstants
  PROVE  Rev!DecidedIsFinal /\ Rev!SecondReader /\ Rev!TurnsAreSafe
<1>1. Rev!DecidedIsFinal
  BY DEF ReviewInv, SentWasDecided, Rev!DecidedIsFinal, Rev!Held
<1>2. Rev!SecondReader
  BY DEF ReviewInv, SentWasDecided, Rev!SecondReader
<1>3. Rev!TurnsAreSafe
  BY DEF ReviewInv, ReviewersTakeTurns, Rev!TurnsAreSafe
<1> QED BY <1>1, <1>2, <1>3

-----------------------------------------------------------------------------
(* The figures of an account                                               *)

LEMMA DaysAreNumbers ==
  ASSUME Fig!FiguresConstants
  PROVE  /\ PeriodDays \in Nat /\ PeriodDays >= 1 /\ LastReportDay \in Nat /\ MaxUnsettled \in Nat
         /\ None \notin 0 .. LastReportDay /\ Fig!ReportDays = 0 .. LastReportDay
BY DEF Fig!FiguresConstants, Fig!ReportDays

LEMMA FigureTypes ==
  ASSUME FiguresInv, Fig!FiguresConstants
  PROVE  /\ v1 \in Nat /\ v1 \in 0 .. LastReportDay
         /\ \A k \in Reported : v2[k] \in TicketFact /\ FactFits(k)
         /\ Len(v3) \in Nat /\ DOMAIN v3 = 1..Len(v3) /\ \A i \in DOMAIN v3 : v3[i] \in 0 .. LastReportDay
         /\ Len(v4) \in Nat /\ DOMAIN v4 = 1..Len(v4)
         /\ \A n \in DOMAIN v4 : PackFits(n) /\ v4[n].start \in Nat
<1> USE DaysAreNumbers
<1>1. FiguresShape /\ (\A k \in Reported : FactFits(k)) /\ (\A n \in DOMAIN v4 : PackFits(n))
  BY DEF FiguresInv
<1>2. v1 \in Nat /\ v1 \in 0 .. LastReportDay /\ \A k \in Reported : v2[k] \in TicketFact
  BY <1>1 DEF FiguresShape
<1>3. Len(v3) \in Nat /\ DOMAIN v3 = 1..Len(v3) /\ \A i \in DOMAIN v3 : v3[i] \in 0 .. LastReportDay
  BY <1>1 DEF FiguresShape
<1>4. Len(v4) \in Nat /\ DOMAIN v4 = 1..Len(v4)
  BY <1>1 DEF FiguresShape
<1>5. ASSUME NEW n \in DOMAIN v4 PROVE v4[n].start \in Nat
  BY <1>1 DEF PackFits
<1> QED BY <1>1, <1>2, <1>3, <1>4, <1>5

LEMMA FiguresStart ==
  ASSUME Fig!FiguresInit, Fig!FiguresConstants
  PROVE  FiguresInv
<1> USE DaysAreNumbers
<1>1. /\ v1 = 0 /\ v2 = [k \in Reported |-> Fig!NoFacts] /\ v3 = <<>> /\ v4 = <<>>
      /\ v5 = [d \in 0 .. LastReportDay |-> None] /\ v6 = {}
  BY DEF Fig!FiguresInit
<1>2. Fig!NoFacts \in TicketFact /\ Fig!NoFacts.resolved = None
  BY DEF Fig!NoFacts, TicketFact
<1>3. FiguresShape
  <2>1. v3 \in Seq(0 .. LastReportDay) /\ Len(v3) = 0
    BY <1>1
  <2>2. v4 \in Seq({v4[n] : n \in DOMAIN v4})
    BY <1>1
  <2>3. IsFiniteSet(v6)
    BY <1>1, FS_EmptySet
  <2>4. v2 \in [Reported -> TicketFact]
    BY <1>1, <1>2
  <2> QED BY <1>1, <2>1, <2>2, <2>3, <2>4 DEF FiguresShape
<1>4. \A k \in Reported : FactFits(k)
  BY <1>1, <1>2 DEF FactFits
<1>5. DOMAIN v4 = {}
  BY <1>1
<1>6. \A d \in 0 .. LastReportDay : SnapshotFits(d)
  BY <1>1 DEF SnapshotFits
<1> QED BY <1>3, <1>4, <1>5, <1>6 DEF FiguresInv

LEMMA WholePeriods ==
  ASSUME NEW p \in Nat, p >= 1, NEW n \in Nat
  PROVE  p * (n \div p) <= n
OBVIOUS

(* The period before the current one is over.                              *)
LEMMA PreviousPeriodIsOver ==
  ASSUME Fig!FiguresConstants, v1 \in Nat, Fig!PreviousPeriod >= 0
  PROVE  /\ Fig!PreviousPeriod \in Nat /\ Fig!PreviousPeriod + PeriodDays <= v1
         /\ \E m \in Nat : Fig!PreviousPeriod = PeriodDays * m
<1> USE DaysAreNumbers
<1>1. PICK q \in Int : q = v1 \div PeriodDays
  OBVIOUS
<1>2. PeriodDays * q <= v1
  BY <1>1, WholePeriods
<1>3. Fig!PreviousPeriod = PeriodDays * (q - 1)
  BY <1>1 DEF Fig!PreviousPeriod
<1>4. PeriodDays * (q - 1) = PeriodDays * q - PeriodDays
  OBVIOUS
<1>5. q - 1 \in Nat
  BY <1>3
<1> QED BY <1>2, <1>3, <1>4, <1>5

(* Figures name just the tickets opened and resolved in their period: what  *)
(* is read since its start was not touched before it.                      *)
LEMMA FiguresAreExact ==
  ASSUME FiguresInv, Fig!FiguresConstants, NEW since \in Int, NEW start \in Int, NEW end \in Int, since <= start, NEW lines
  PROVE  /\ Fig!Measures(since, start, end, lines).created = OpenedIn(start, end)
         /\ Fig!Measures(since, start, end, lines).resolved = ResolvedIn(start, end)
         /\ Fig!Measures(since, start, end, lines).lines = lines
<1> USE DaysAreNumbers
<1>1. ASSUME NEW k \in Reported, Fig!InPeriod(v2[k].opened, start, end) PROVE k \in Fig!FactsSince(since)
  <2>1. v2[k] \in TicketFact /\ FactFits(k) /\ v1 \in Nat
    BY FigureTypes
  <2>2. v2[k].opened # None /\ v2[k] # Fig!NoFacts
    BY <1>1 DEF Fig!InPeriod, Fig!NoFacts
  <2>3. v2[k].opened \in 0..v1 /\ v2[k].touched \in v2[k].opened .. v1
    BY <2>1, <2>2 DEF FactFits
  <2> QED BY <1>1, <2>1, <2>2, <2>3 DEF Fig!FactsSince, Fig!InPeriod
<1>2. ASSUME NEW k \in Reported, Fig!InPeriod(v2[k].resolved, start, end) PROVE k \in Fig!FactsSince(since)
  <2>1. v2[k] \in TicketFact /\ FactFits(k) /\ v1 \in Nat
    BY FigureTypes
  <2>2. v2[k].resolved # None /\ v2[k] # Fig!NoFacts
    BY <1>2 DEF Fig!InPeriod, Fig!NoFacts
  <2>3. v2[k].opened \in 0..v1 /\ v2[k].touched \in v2[k].opened .. v1 /\ v2[k].resolved \in v2[k].opened .. v2[k].touched
    BY <2>1, <2>2 DEF FactFits
  <2> QED BY <1>2, <2>1, <2>2, <2>3 DEF Fig!FactsSince, Fig!InPeriod
<1>3. Fig!FactsSince(since) \subseteq Reported
  BY DEF Fig!FactsSince
<1> QED BY <1>1, <1>2, <1>3 DEF Fig!Measures, OpenedIn, ResolvedIn

(* Days, lines and moves of tickets to come change nothing of the past, and *)
(* a ticket that is reopened explains itself.                              *)
LEMMA PastStands ==
  ASSUME FiguresInv, Fig!FiguresConstants, v4' = v4, v5' = v5, v1' \in Nat, v1 <= v1', v6 \subseteq v6',
         DOMAIN v3 \subseteq DOMAIN v3', \A i \in DOMAIN v3 : v3'[i] = v3[i],
         \A k \in Reported : v2'[k].opened = v2[k].opened \/ (v2[k].opened = None /\ v2'[k].opened = v1),
         \A k \in Reported :
           \/ v2'[k].resolved = v2[k].resolved
           \/ v2[k].resolved = None /\ v2'[k].resolved = v1
           \/ v2'[k].resolved = None /\ \E r \in v6' : r.of = k /\ r.after = Len(v4) /\ r.on = v1
  PROVE  /\ \A n \in DOMAIN v4' : PackFits(n)'
         /\ \A d \in 0 .. LastReportDay : SnapshotFits(d)'
         /\ \A m, n \in DOMAIN v4' : PacksAgree(m, n)'
<1> USE DaysAreNumbers
<1>1. /\ v1 \in Nat /\ v1 \in 0 .. LastReportDay
      /\ \A k \in Reported : v2[k] \in TicketFact
      /\ Len(v4) \in Nat /\ DOMAIN v4 = 1..Len(v4)
      /\ \A n \in DOMAIN v4 : PackFits(n) /\ v4[n].start \in Nat
  BY FigureTypes
<1>2. ASSUME NEW k \in Reported, NEW start \in Nat, NEW end \in Nat, end <= v1
      PROVE  Fig!InPeriod(v2'[k].opened, start, end) <=> Fig!InPeriod(v2[k].opened, start, end)
  BY <1>1, <1>2 DEF Fig!InPeriod
<1>3. ASSUME NEW k \in Reported, NEW start \in Nat, NEW end \in Nat, end <= v1,
             ~ \E r \in v6' : r.of = k /\ r.after = Len(v4) /\ r.on = v1
      PROVE  Fig!InPeriod(v2'[k].resolved, start, end) <=> Fig!InPeriod(v2[k].resolved, start, end)
  BY <1>1, <1>3 DEF Fig!InPeriod
<1>4. ASSUME NEW n \in DOMAIN v4 PROVE PackFits(n)'
  <2>1. PackFits(n) /\ v4[n].start \in Nat /\ n \in 1..Len(v4)
    BY <1>1
  <2>2. PICK s \in Nat, e \in Nat : s = v4[n].start /\ e = v4[n].start + PeriodDays /\ e <= v1 /\ s < e
    BY <1>1, <2>1, SMTT(30) DEF PackFits
  <2>3. ASSUME NEW k \in Reported, (k \in v4[n].figures.resolved) # (k \in ResolvedIn(s, e)')
        PROVE  ReopenedSince(k, n)' /\ ReopenedAfter(k, s)'
    <3>1. CASE \E r \in v6' : r.of = k /\ r.after = Len(v4) /\ r.on = v1
      BY <1>1, <2>1, <2>2, <3>1, SMTT(30) DEF ReopenedSince, ReopenedAfter
    <3>2. CASE ~ \E r \in v6' : r.of = k /\ r.after = Len(v4) /\ r.on = v1
      <4>1. k \in ResolvedIn(s, e)' <=> k \in ResolvedIn(s, e)
        BY <1>3, <2>2, <3>2 DEF ResolvedIn
      <4>2. ReopenedSince(k, n) /\ ReopenedAfter(k, s)
        BY <2>1, <2>2, <2>3, <4>1 DEF PackFits
      <4> QED BY <4>2 DEF ReopenedSince, ReopenedAfter
    <3> QED BY <3>1, <3>2
  <2>4. OpenedIn(s, e)' = OpenedIn(s, e)
    BY <1>2, <2>2 DEF OpenedIn
  <2>5. LinesIn(s, e) \subseteq LinesIn(s, e)'
    BY DEF LinesIn
  <2>6. v4[n].figures.lines \subseteq DOMAIN v3'
        /\ \A i \in v4[n].figures.lines : s <= v3'[i] /\ v3'[i] <= e
    BY <2>1, <2>2 DEF PackFits
  <2>7. v4[n].kind = "qbr" =>
          /\ v4[n].roster = v4[n].figures.lines
          /\ v4[n].figures.lines \subseteq LinesIn(s, e)'
          /\ v4[n].figures.created = OpenedIn(s, e)'
          /\ Base(v4[n])'.lines \subseteq DOMAIN v3'
    BY <2>1, <2>2, <2>4, <2>5 DEF PackFits, Base
  <2>8. v4[n].kind \in {"wsr", "qbr"} /\ (\E m \in Nat : v4[n].start = PeriodDays * m) /\ e <= v1'
    BY <1>1, <2>1, <2>2, SMTT(30) DEF PackFits
  <2> QED BY <2>2, <2>3, <2>6, <2>7, <2>8 DEF PackFits
<1>5. ASSUME NEW d \in 0 .. LastReportDay PROVE SnapshotFits(d)'
  <2>1. SnapshotFits(d)
    BY DEF FiguresInv
  <2> SUFFICES ASSUME v5[d] # None PROVE d < v1' /\ \A k \in Reported :
                 (k \in v5[d].resolved) # (v2'[k].resolved = d) => ReopenedAfter(k, d)'
    BY DEF SnapshotFits
  <2>2. d < v1 /\ d < v1'
    BY <1>1, <2>1 DEF SnapshotFits
  <2>3. ASSUME NEW k \in Reported, (k \in v5[d].resolved) # (v2'[k].resolved = d) PROVE ReopenedAfter(k, d)'
    <3>1. CASE \E r \in v6' : r.of = k /\ r.after = Len(v4) /\ r.on = v1
      BY <2>2, <3>1 DEF ReopenedAfter
    <3>2. CASE ~ \E r \in v6' : r.of = k /\ r.after = Len(v4) /\ r.on = v1
      <4>1. v2'[k].resolved = d <=> v2[k].resolved = d
        BY <1>1, <2>2, <3>2
      <4> QED BY <2>1, <2>3, <4>1 DEF SnapshotFits, ReopenedAfter
    <3> QED BY <3>1, <3>2
  <2> QED BY <2>2, <2>3
<1>6. ASSUME NEW m \in DOMAIN v4, NEW n \in DOMAIN v4 PROVE PacksAgree(m, n)'
  <2>1. PacksAgree(m, n) /\ PackFits(n)
    BY <1>1 DEF FiguresInv
  <2>2. Base(v4[n])' = Base(v4[n])
    BY DEF Base
  <2>3. v4[n].kind = "qbr" => Base(v4[n]).lines \subseteq DOMAIN v3
    BY <2>1 DEF PackFits
  <2>4. v4[n].kind = "qbr" => \A i \in Base(v4[n]).lines : v3'[i] = v3[i]
    BY <2>3
  <2> QED BY <2>1, <2>2, <2>4 DEF PacksAgree, Fig!InPeriod
<1> QED BY <1>4, <1>5, <1>6

(* Moves of time and tickets, and lines.                                   *)
LEMMA PassDayKeeps ==
  ASSUME FiguresInv, Fig!FiguresConstants, Fig!PassDay
  PROVE  FiguresInv'
<1> USE DaysAreNumbers
<1>1. v1 < LastReportDay /\ v1' = v1 + 1 /\ UNCHANGED <<v2, v3, v4, v5, v6>>
  BY DEF Fig!PassDay
<1>2. FiguresShape /\ v1 \in Nat /\ \A k \in Reported : v2[k] \in TicketFact /\ FactFits(k)
  BY FigureTypes DEF FiguresInv
<1>3. FiguresShape'
  BY <1>1, <1>2 DEF FiguresShape
<1>4. ASSUME NEW k \in Reported PROVE FactFits(k)'
  BY <1>1, <1>2 DEF FactFits
<1>5. /\ \A n \in DOMAIN v4' : PackFits(n)'
      /\ \A d \in 0 .. LastReportDay : SnapshotFits(d)'
      /\ \A m, n \in DOMAIN v4' : PacksAgree(m, n)'
  BY <1>1, <1>2, PastStands
<1> QED BY <1>3, <1>4, <1>5 DEF FiguresInv

(* A ticket moves, and the others do not.                                  *)
LEMMA TicketMoves ==
  ASSUME FiguresInv, NEW k \in Reported, NEW f \in TicketFact, v2' = [v2 EXCEPT ![k] = f]
  PROVE  v2' \in [Reported -> TicketFact] /\ v2'[k] = f /\ \A j \in Reported \ {k} : v2'[j] = v2[j]
<1>1. v2 \in [Reported -> TicketFact]
  BY DEF FiguresInv, FiguresShape
<1> QED BY <1>1

LEMMA MoveTicketKeeps ==
  ASSUME FiguresInv, Fig!FiguresConstants, NEW k \in Reported, Fig!MoveTicket(k)
  PROVE  FiguresInv'
<1> USE DaysAreNumbers
<1>1. FiguresShape /\ v1 \in Nat /\ v1 \in 0 .. LastReportDay /\ \A j \in Reported : v2[j] \in TicketFact /\ FactFits(j)
  BY FigureTypes DEF FiguresInv
<1>2. Fig!NoFacts \in TicketFact /\ Fig!NoFacts.resolved = None /\ Fig!NoFacts.opened = None
  BY DEF Fig!NoFacts, TicketFact
<1>3. UNCHANGED <<v1, v3, v4, v5, v6>>
  BY DEF Fig!MoveTicket
<1>4. PICK f \in TicketFact :
        /\ v2' = [v2 EXCEPT ![k] = f]
        /\ \/ v2[k] = Fig!NoFacts /\ f.opened = v1 /\ f.resolved = None /\ f.touched = v1
           \/ /\ v2[k] # Fig!NoFacts /\ f.opened = v2[k].opened /\ f.touched = v1
              /\ f.resolved = v2[k].resolved \/ (v2[k].resolved = None /\ f.resolved = v1)
  <2>1. CASE /\ v2[k] = Fig!NoFacts
             /\ v2' = [v2 EXCEPT ![k] = [Fig!NoFacts EXCEPT !.opened = v1, !.touched = v1]]
    <3>1. PICK f : f = [Fig!NoFacts EXCEPT !.opened = v1, !.touched = v1]
      OBVIOUS
    <3>2. f \in TicketFact
      BY <1>1, <1>2, <3>1 DEF TicketFact
    <3>3. f.opened = v1 /\ f.resolved = None /\ f.touched = v1
      BY <3>1 DEF Fig!NoFacts
    <3> QED BY <2>1, <3>1, <3>2, <3>3
  <2>2. CASE /\ v2[k] # Fig!NoFacts /\ ~v2[k].closed /\ v2[k].resolved = None
             /\ \E ends \in {"resolved", "cancelled"} :
                  v2' = [v2 EXCEPT ![k] = [v2[k] EXCEPT !.touched = v1,
                           !.resolved = IF ends = "resolved" THEN v1 ELSE None,
                           !.closed = ends = "cancelled"]]
    <3>10. PICK ends \in {"resolved", "cancelled"} :
             v2' = [v2 EXCEPT ![k] = [v2[k] EXCEPT !.touched = v1,
                      !.resolved = IF ends = "resolved" THEN v1 ELSE None, !.closed = ends = "cancelled"]]
      BY <2>2
    <3>1. PICK on, over :
            /\ on = (IF ends = "resolved" THEN v1 ELSE None) /\ over = (ends = "cancelled")
            /\ v2' = [v2 EXCEPT ![k] = [v2[k] EXCEPT !.touched = v1, !.resolved = on, !.closed = over]]
      BY <3>10, Zenon
    <3>2. on \in {v1, None} /\ over \in BOOLEAN
      BY <3>1
    <3>3. PICK f : f = [v2[k] EXCEPT !.touched = v1, !.resolved = on, !.closed = over]
      OBVIOUS
    <3>4. f \in TicketFact
      BY <1>1, <3>2, <3>3 DEF TicketFact
    <3>5. f.opened = v2[k].opened /\ f.touched = v1 /\ f.resolved = on
      BY <1>1, <3>3 DEF TicketFact
    <3> QED BY <2>2, <3>1, <3>2, <3>3, <3>4, <3>5
  <2>3. CASE /\ v2[k].resolved # None
             /\ v2' = [v2 EXCEPT ![k] = [v2[k] EXCEPT !.touched = v1, !.closed = TRUE]]
    <3>1. PICK f : f = [v2[k] EXCEPT !.touched = v1, !.closed = TRUE]
      OBVIOUS
    <3>2. f \in TicketFact /\ f.opened = v2[k].opened /\ f.touched = v1 /\ f.resolved = v2[k].resolved
      BY <1>1, <3>1 DEF TicketFact
    <3> QED BY <1>2, <2>3, <3>1, <3>2
  <2> QED BY <2>1, <2>2, <2>3 DEF Fig!MoveTicket
<1>5. v2' \in [Reported -> TicketFact] /\ v2'[k] = f /\ \A j \in Reported \ {k} : v2'[j] = v2[j]
  BY <1>4, TicketMoves
<1>6. FiguresShape'
  BY <1>1, <1>3, <1>5 DEF FiguresShape
<1>7. ASSUME NEW j \in Reported PROVE FactFits(j)'
  <2>1. FactFits(j)
    BY <1>1
  <2>2. CASE j # k
    BY <1>3, <1>5, <2>1, <2>2 DEF FactFits
  <2>3. CASE j = k /\ v2[k] = Fig!NoFacts
    BY <1>1, <1>3, <1>4, <1>5, <2>3 DEF FactFits
  <2>4. CASE j = k /\ v2[k] # Fig!NoFacts
    <3>1. v2[k].opened \in 0..v1 /\ v2[k].touched \in v2[k].opened .. v1
          /\ (v2[k].resolved # None => v2[k].opened # None /\ v2[k].resolved \in v2[k].opened .. v2[k].touched)
      BY <2>1, <2>4 DEF FactFits
    <3>2. v2[k].opened # None
      BY <1>1, <3>1
    <3>3. f.opened = v2[k].opened /\ f.touched = v1
          /\ (f.resolved = v2[k].resolved \/ (v2[k].resolved = None /\ f.resolved = v1))
      BY <1>4, <2>4
    <3>4. f.resolved # None => f.resolved \in f.opened .. f.touched
      BY <1>1, <3>1, <3>3
    <3> QED BY <1>1, <1>3, <1>5, <2>4, <3>1, <3>2, <3>3, <3>4 DEF FactFits
  <2> QED BY <2>2, <2>3, <2>4
<1>8. /\ \A n \in DOMAIN v4' : PackFits(n)'
      /\ \A d \in 0 .. LastReportDay : SnapshotFits(d)'
      /\ \A m, n \in DOMAIN v4' : PacksAgree(m, n)'
  <2>1. \A j \in Reported : v2'[j].opened = v2[j].opened \/ (v2[j].opened = None /\ v2'[j].opened = v1)
    BY <1>2, <1>4, <1>5
  <2>2. \A j \in Reported : v2'[j].resolved = v2[j].resolved \/ (v2[j].resolved = None /\ v2'[j].resolved = v1)
    BY <1>2, <1>4, <1>5
  <2>3. v1' \in Nat /\ v1 <= v1'
    BY <1>1, <1>3
  <2> QED BY <1>3, <2>1, <2>2, <2>3, PastStands
<1> QED BY <1>6, <1>7, <1>8 DEF FiguresInv

LEMMA ReopenTicketKeeps ==
  ASSUME FiguresInv, Fig!FiguresConstants, NEW k \in Reported, Fig!ReopenTicket(k)
  PROVE  FiguresInv'
<1> USE DaysAreNumbers
<1>1. FiguresShape /\ v1 \in Nat /\ v1 \in 0 .. LastReportDay /\ Len(v4) \in Nat
      /\ \A j \in Reported : v2[j] \in TicketFact /\ FactFits(j)
  BY FigureTypes DEF FiguresInv
<1>2. PICK w : w = [of |-> k, on |-> v1, after |-> Len(v4)]
  OBVIOUS
<1>3. /\ v2[k].resolved # None /\ UNCHANGED <<v1, v3, v4, v5>> /\ v6' = v6 \cup {w}
  BY <1>2 DEF Fig!ReopenTicket
<1>4. PICK f : f = [v2[k] EXCEPT !.resolved = None, !.touched = v1]
  OBVIOUS
<1>5. f \in TicketFact /\ f.opened = v2[k].opened /\ f.touched = v1 /\ f.resolved = None
  BY <1>1, <1>4 DEF TicketFact
<1>6. v2' = [v2 EXCEPT ![k] = f]
  <2>1. v2' = [v2 EXCEPT ![k].resolved = None, ![k].touched = v1] /\ v2 \in [Reported -> TicketFact]
    BY <1>1 DEF Fig!ReopenTicket, FiguresShape
  <2> QED BY <1>4, <2>1
<1>7. v2' \in [Reported -> TicketFact] /\ v2'[k] = f /\ \A j \in Reported \ {k} : v2'[j] = v2[j]
  BY <1>5, <1>6, TicketMoves
<1>8. w \in ReopenedFact /\ w.of = k /\ w.on = v1 /\ w.after = Len(v4)
  BY <1>1, <1>2 DEF ReopenedFact
<1>9. FiguresShape'
  <2>1. IsFiniteSet(v6') /\ v6' \subseteq ReopenedFact
    BY <1>1, <1>3, <1>8, FS_AddElement DEF FiguresShape
  <2> QED BY <1>1, <1>3, <1>7, <2>1 DEF FiguresShape
<1>10. ASSUME NEW j \in Reported PROVE FactFits(j)'
  <2>1. FactFits(j)
    BY <1>1
  <2>2. CASE j # k
    BY <1>3, <1>7, <2>1, <2>2 DEF FactFits
  <2>3. CASE j = k
    <3>1. v2[k].opened \in 0..v1
      BY <1>3, <2>1, <2>3 DEF FactFits, Fig!NoFacts
    <3> QED BY <1>1, <1>3, <1>5, <1>7, <2>3, <3>1 DEF FactFits
  <2> QED BY <2>2, <2>3
<1>11. /\ \A n \in DOMAIN v4' : PackFits(n)'
       /\ \A d \in 0 .. LastReportDay : SnapshotFits(d)'
       /\ \A m, n \in DOMAIN v4' : PacksAgree(m, n)'
  <2>1. \A j \in Reported : v2'[j].opened = v2[j].opened
    BY <1>5, <1>7
  <2>2. \A j \in Reported : \/ v2'[j].resolved = v2[j].resolved
                            \/ v2'[j].resolved = None /\ \E r \in v6' : r.of = j /\ r.after = Len(v4) /\ r.on = v1
    BY <1>3, <1>5, <1>7, <1>8
  <2>3. v1' \in Nat /\ v1 <= v1' /\ v6 \subseteq v6'
    BY <1>1, <1>3
  <2> QED BY <1>3, <2>1, <2>2, <2>3, PastStands
<1> QED BY <1>9, <1>10, <1>11 DEF FiguresInv

LEMMA LogLineKeeps ==
  ASSUME FiguresInv, Fig!FiguresConstants, NEW d \in 0 .. LastReportDay, Fig!LogLine(d)
  PROVE  FiguresInv'
<1> USE DaysAreNumbers
<1>1. FiguresShape /\ v1 \in Nat /\ Len(v3) \in Nat /\ v3 \in Seq(0 .. LastReportDay)
      /\ \A j \in Reported : v2[j] \in TicketFact /\ FactFits(j)
  BY FigureTypes DEF FiguresInv, FiguresShape
<1>2. v3' = Append(v3, d) /\ UNCHANGED <<v1, v2, v4, v5, v6>>
  BY DEF Fig!LogLine
<1>3. Len(v3) < MaxUnsettled
  <2>1. Fig!Cardinality(v6) = Cardinality(v6)
    BY DEF Fig!Cardinality, Cardinality
  <2>2. Cardinality(v6) \in Nat
    BY <1>1, FS_CardinalityType DEF FiguresShape
  <2>3. Len(v3) + Fig!Cardinality(v6) < MaxUnsettled
    BY DEF Fig!LogLine, Fig!Unsettled
  <2> QED BY <1>1, <2>1, <2>2, <2>3
<1>4. v3' \in Seq(0 .. LastReportDay) /\ Len(v3') = Len(v3) + 1 /\ \A i \in 1..Len(v3) : v3'[i] = v3[i]
  BY <1>1, <1>2, AppendProperties
<1>5. DOMAIN v3 = 1..Len(v3) /\ DOMAIN v3' = 1..Len(v3')
  BY <1>1, <1>4
<1>6. FiguresShape'
  BY <1>1, <1>2, <1>3, <1>4 DEF FiguresShape
<1>7. \A j \in Reported : FactFits(j)'
  BY <1>1, <1>2 DEF FactFits
<1>8. /\ \A n \in DOMAIN v4' : PackFits(n)'
      /\ \A e \in 0 .. LastReportDay : SnapshotFits(e)'
      /\ \A m, n \in DOMAIN v4' : PacksAgree(m, n)'
  <2>1. DOMAIN v3 \subseteq DOMAIN v3' /\ \A i \in DOMAIN v3 : v3'[i] = v3[i]
    BY <1>1, <1>4, <1>5, SMTT(30)
  <2>2. v1' \in Nat /\ v1 <= v1'
    BY <1>1, <1>2
  <2> QED BY <1>2, <2>1, <2>2, PastStands
<1> QED BY <1>6, <1>7, <1>8 DEF FiguresInv

LEMMA SequencesOfMore ==
  ASSUME NEW S, NEW T, S \subseteq T, NEW s \in Seq(S)
  PROVE  s \in Seq(T)
<1>1. s \in [1..Len(s) -> S] /\ Len(s) \in Nat
  OBVIOUS
<1>2. s \in [1..Len(s) -> T]
  BY <1>1
<1> QED BY <1>1, <1>2

LEMMA SequenceOfItsValues ==
  ASSUME NEW T, NEW s \in Seq(T)
  PROVE  s \in Seq({s[n] : n \in DOMAIN s})
<1>1. s \in [1..Len(s) -> T] /\ Len(s) \in Nat /\ DOMAIN s = 1..Len(s)
  OBVIOUS
<1>2. PICK V : V = {s[n] : n \in DOMAIN s}
  OBVIOUS
<1>3. s \in [1..Len(s) -> V]
  BY <1>1, <1>2
<1>4. s \in Seq(V)
  BY <1>1, <1>3
<1> QED BY <1>2, <1>4

LEMMA PeriodBefore ==
  ASSUME NEW b \in Nat, NEW d \in Nat, NEW s, s = b + d
  PROVE  b = s - d
OBVIOUS

(* A pack that is made names what was opened, resolved and logged in its   *)
(* period, and compares with what was in the period before.                *)
LEMMA PackAdded ==
  ASSUME FiguresInv, Fig!FiguresConstants, NEW p, v4' = Append(v4, p), UNCHANGED <<v1, v2, v3, v5, v6>>,
         NEW s \in Nat, NEW e \in Nat, s = p.start, e = s + PeriodDays, e <= v1, \E m \in Nat : s = PeriodDays * m,
         p.kind \in {"wsr", "qbr"},
         p.figures.resolved = ResolvedIn(s, e),
         p.figures.lines \subseteq DOMAIN v3, \A i \in p.figures.lines : s <= v3[i] /\ v3[i] <= e,
         p.kind = "qbr" =>
           /\ p.roster = p.figures.lines /\ p.figures.lines \subseteq LinesIn(s, e)
           /\ p.figures.created = OpenedIn(s, e)
           /\ Base(p).created = OpenedIn(s - PeriodDays, s) /\ Base(p).resolved = ResolvedIn(s - PeriodDays, s)
           /\ Base(p).lines = LinesIn(s - PeriodDays, s)
  PROVE  FiguresInv'
<1> USE DaysAreNumbers
<1>1. /\ FiguresShape /\ v1 \in Nat /\ Len(v4) \in Nat /\ DOMAIN v4 = 1..Len(v4)
      /\ (\A j \in Reported : FactFits(j)) /\ \A n \in DOMAIN v4 : PackFits(n) /\ v4[n].start \in Nat
  BY FigureTypes DEF FiguresInv
<1>2. PICK S, T : S = {v4[n] : n \in DOMAIN v4} /\ T = S \cup {p}
  OBVIOUS
<1>3. v4 \in Seq(T) /\ p \in T
  <2>1. v4 \in Seq(S) /\ S \subseteq T
    BY <1>1, <1>2 DEF FiguresShape
  <2> QED BY <1>2, <2>1, SequencesOfMore
<1>4. /\ v4' \in Seq(T) /\ Len(v4') = Len(v4) + 1 /\ v4'[Len(v4) + 1] = p
      /\ \A n \in DOMAIN v4 : v4'[n] = v4[n]
  BY <1>1, <1>3, AppendProperties
<1>5. DOMAIN v4' = 1..(Len(v4) + 1)
  BY <1>1, <1>4
<1>6. FiguresShape'
  <2>1. v4' \in Seq({v4'[n] : n \in DOMAIN v4'})
    <3>1. PICK s4 \in Seq(T) : s4 = v4'
      BY <1>4
    <3>2. s4 \in Seq({s4[n] : n \in DOMAIN s4})
      BY SequenceOfItsValues, SMTT(30)
    <3> QED BY <3>1, <3>2
  <2> QED BY <1>1, <2>1 DEF FiguresShape
<1>7. \A j \in Reported : FactFits(j)'
  BY <1>1 DEF FactFits
<1>8. \A d \in 0 .. LastReportDay : SnapshotFits(d)'
  BY DEF FiguresInv, SnapshotFits, ReopenedAfter
<1>9. \A n \in DOMAIN v4' : n = Len(v4) + 1 \/ n \in DOMAIN v4
  BY <1>1, <1>5, SMTT(30)
<1>10. \A a, b : OpenedIn(a, b)' = OpenedIn(a, b) /\ ResolvedIn(a, b)' = ResolvedIn(a, b) /\ LinesIn(a, b)' = LinesIn(a, b)
  BY DEF OpenedIn, ResolvedIn, LinesIn
<1>11. ASSUME NEW n \in DOMAIN v4' PROVE PackFits(n)'
  <2>1. CASE n \in DOMAIN v4
    <3>1. PackFits(n) /\ v4'[n] = v4[n]
      BY <1>1, <1>4, <2>1
    <3>2. \A k : ReopenedSince(k, n) => ReopenedSince(k, n)'
      <4> SUFFICES ASSUME NEW k, NEW r \in v6, r.of = k, r.after >= n, r.after <= Len(v4)
                   PROVE  r.after <= Len(v4')
        BY DEF ReopenedSince
      <4>1. r.after \in Nat
        BY <1>1 DEF FiguresShape, ReopenedFact
      <4> QED BY <1>1, <1>4, <4>1, SMTT(30)
    <3>3. \A k, d : ReopenedAfter(k, d) => ReopenedAfter(k, d)'
      BY DEF ReopenedAfter
    <3>4. Base(v4[n])' = Base(v4[n])
      BY <3>1 DEF Base
    <3> QED BY <1>10, <3>1, <3>2, <3>3, <3>4 DEF PackFits
  <2>2. CASE n = Len(v4) + 1
    <3>1. v4'[n] = p
      BY <1>4, <2>2
    <3>2. v4'[n].kind = "qbr" => Base(v4[n])'.lines \subseteq DOMAIN v3'
      BY <3>1 DEF Base, LinesIn
    <3> QED BY <1>10, <3>1, <3>2 DEF PackFits
  <2> QED BY <1>9, <2>1, <2>2
<1>12. ASSUME NEW m \in DOMAIN v4', NEW n \in DOMAIN v4' PROVE PacksAgree(m, n)'
  <2> SUFFICES ASSUME v4'[m].kind = "qbr", v4'[n].kind = "qbr", m < n, v4'[n].start = v4'[m].start + PeriodDays
               PROVE  PacksAgree(m, n)'
    BY DEF PacksAgree
  <2>1. m \in DOMAIN v4 /\ v4'[m] = v4[m]
    BY <1>1, <1>4, <1>5
  <2>2. CASE n \in DOMAIN v4
    <3>1. PacksAgree(m, n) /\ v4'[n] = v4[n] /\ Base(v4[n])' = Base(v4[n])
      BY <1>4, <2>1, <2>2 DEF FiguresInv, Base
    <3> QED BY <2>1, <3>1, ZenonT(60) DEF PacksAgree
  <2>3. CASE n = Len(v4) + 1
    <3>1. v4'[n] = p /\ Base(v4[n])' = Base(p)
      BY <1>4, <2>3 DEF Base
    <3>2. PackFits(m) /\ v4[m].start \in Nat /\ v4[m].start = s - PeriodDays /\ v4[m].start + PeriodDays = s
      <4>1. PackFits(m) /\ v4[m].start \in Nat
        BY <1>1, <2>1
      <4>2. s = v4[m].start + PeriodDays
        BY <2>1, <3>1
      <4>3. PICK b \in Nat, d \in Nat : b = v4[m].start /\ d = PeriodDays
        BY <4>1
      <4>4. s = b + d
        BY <4>2, <4>3
      <4>5. b = s - d
        BY <4>4, PeriodBefore, Zenon
      <4>6. v4[m].start = s - PeriodDays
        BY <4>3, <4>5, Zenon
      <4>7. v4[m].start + PeriodDays = s
        BY <4>2, Zenon
      <4> QED BY <4>1, <4>6, <4>7, Zenon
    <3>3. Base(p).created = v4[m].figures.created
      BY <2>1, <3>1, <3>2 DEF PackFits
    <3>4. ASSUME NEW k \in Reported, (k \in Base(p).resolved) # (k \in v4[m].figures.resolved)
          PROVE  \E r \in v6 : r.of = k /\ r.after \in m .. n - 1
      <4>1. ReopenedSince(k, m)
        BY <2>1, <3>1, <3>2, <3>4 DEF PackFits
      <4>2. PICK r \in v6 : r.of = k /\ r.after >= m /\ r.after <= Len(v4)
        BY <4>1 DEF ReopenedSince
      <4>3. r.after \in Nat
        BY <1>1, <4>2 DEF FiguresShape, ReopenedFact
      <4> QED BY <1>1, <2>1, <2>3, <4>2, <4>3, SMTT(30)
    <3>5. v4[m].figures.lines \subseteq Base(p).lines
      BY <2>1, <3>1, <3>2 DEF PackFits
    <3>6. \A i \in Base(p).lines : Fig!InPeriod(v3[i], v4[m].start, p.start)
      BY <2>1, <3>1, <3>2 DEF LinesIn
    <3> QED BY <2>1, <3>1, <3>3, <3>4, <3>5, <3>6, ZenonT(60) DEF PacksAgree
  <2> QED BY <1>9, <2>2, <2>3
<1> QED BY <1>6, <1>7, <1>8, <1>11, <1>12 DEF FiguresInv

LEMMA MakeWeeklyKeeps ==
  ASSUME FiguresInv, Fig!FiguresConstants, Fig!MakeWeekly
  PROVE  FiguresInv'
<1> USE DaysAreNumbers
<1>1. Fig!PreviousPeriod >= 0 /\ UNCHANGED <<v1, v2, v3, v5, v6>> /\ v1 \in Nat
  BY FigureTypes DEF Fig!MakeWeekly
<1>2. PICK s \in Nat : /\ s = Fig!PreviousPeriod /\ s + PeriodDays <= v1 /\ \E m \in Nat : s = PeriodDays * m
  BY <1>1, PreviousPeriodIsOver
<1>3. PICK e \in Nat : e = s + PeriodDays
  OBVIOUS
<1>4. PICK p : p = [kind |-> "wsr", start |-> s, figures |-> Fig!WeeklyFigures(s)] /\ v4' = Append(v4, p)
  BY <1>2 DEF Fig!MakeWeekly
<1>5. p.kind = "wsr" /\ p.start = s /\ p.figures = Fig!WeeklyFigures(s)
  BY <1>4
<1>6. p.figures = Fig!Measures(s, s, e, Fig!LinesBetween(s, e))
  BY <1>3, <1>5 DEF Fig!WeeklyFigures
<1>7. /\ p.figures.created = OpenedIn(s, e) /\ p.figures.resolved = ResolvedIn(s, e)
      /\ p.figures.lines = Fig!LinesBetween(s, e)
  <2>1. s \in Int /\ e \in Int /\ s <= s
    OBVIOUS
  <2>2. PICK lines : lines = Fig!LinesBetween(s, e)
    OBVIOUS
  <2>3. p.figures = Fig!Measures(s, s, e, lines)
    BY <1>6, <2>2
  <2> QED BY <2>1, <2>2, <2>3, FiguresAreExact
<1>8. p.figures.lines \subseteq DOMAIN v3 /\ \A i \in p.figures.lines : s <= v3[i] /\ v3[i] <= e
  BY <1>7 DEF Fig!LinesBetween
<1> QED BY <1>1, <1>2, <1>3, <1>4, <1>5, <1>7, <1>8, PackAdded

LEMMA MakeQuarterlyKeeps ==
  ASSUME FiguresInv, Fig!FiguresConstants, Fig!MakeQuarterly
  PROVE  FiguresInv'
<1> USE DaysAreNumbers
<1>1. /\ Fig!PreviousPeriod >= 0 /\ UNCHANGED <<v1, v2, v3, v5, v6>> /\ v1 \in Nat
      /\ DOMAIN v3 = 1..Len(v3) /\ Len(v3) \in Nat /\ \A i \in DOMAIN v3 : v3[i] \in 0 .. LastReportDay
  BY FigureTypes DEF Fig!MakeQuarterly
<1>2. PICK s \in Nat : /\ s = Fig!PreviousPeriod /\ s + PeriodDays <= v1 /\ \E m \in Nat : s = PeriodDays * m
  BY <1>1, PreviousPeriodIsOver
<1>3. PICK e \in Nat, b \in Int : e = s + PeriodDays /\ b = s - PeriodDays
  OBVIOUS
<1>4. PICK q : q = Fig!QuarterlyFigures(s)
  OBVIOUS
<1>5. /\ q.now = Fig!Measures(b, s, e, Fig!LinesWithin(s, e))
      /\ q.before = Fig!Measures(b, b, s, Fig!LinesWithin(b, s))
      /\ q.roster = Fig!LinesBetween(s, e - 1)
  BY <1>3, <1>4 DEF Fig!QuarterlyFigures
<1>6. PICK p : /\ p = [kind |-> "qbr", start |-> s, figures |-> q.now, before |-> Fig!Comparison(q.before),
                       roster |-> q.roster]
               /\ v4' = Append(v4, p)
  BY <1>2, <1>4 DEF Fig!MakeQuarterly
<1>7. p.kind = "qbr" /\ p.start = s /\ p.figures = q.now /\ p.before = Fig!Comparison(q.before) /\ p.roster = q.roster
  BY <1>6
<1>8. /\ p.figures.created = OpenedIn(s, e) /\ p.figures.resolved = ResolvedIn(s, e)
      /\ p.figures.lines = Fig!LinesWithin(s, e)
  <2>1. s \in Int /\ e \in Int /\ b \in Int /\ b <= s
    BY <1>3
  <2>2. PICK lines : lines = Fig!LinesWithin(s, e)
    OBVIOUS
  <2>3. p.figures = Fig!Measures(b, s, e, lines)
    BY <1>5, <1>7, <2>2
  <2> QED BY <2>1, <2>2, <2>3, FiguresAreExact
<1>9. /\ q.before.created = OpenedIn(b, s) /\ q.before.resolved = ResolvedIn(b, s)
      /\ q.before.lines = Fig!LinesWithin(b, s)
  <2>1. s \in Int /\ b \in Int /\ b <= b
    BY <1>3
  <2>2. PICK lines : lines = Fig!LinesWithin(b, s)
    OBVIOUS
  <2>3. q.before = Fig!Measures(b, b, s, lines)
    BY <1>5, <2>2
  <2> QED BY <2>1, <2>2, <2>3, FiguresAreExact
<1>10. \A i \in DOMAIN v3 : v3[i] # None /\ v3[i] \in Nat
  BY <1>1
<1>11. Fig!LinesWithin(s, e) = LinesIn(s, e) /\ Fig!LinesWithin(b, s) = LinesIn(b, s)
  BY <1>3, <1>10 DEF Fig!LinesWithin, Fig!LinesBetween, LinesIn, Fig!InPeriod
<1>12. q.roster = LinesIn(s, e)
  BY <1>3, <1>5, <1>10 DEF Fig!LinesBetween, LinesIn, Fig!InPeriod
<1>13. LinesIn(s, e) \subseteq DOMAIN v3 /\ \A i \in LinesIn(s, e) : s <= v3[i] /\ v3[i] <= e
  BY <1>3, <1>10 DEF LinesIn, Fig!InPeriod
<1>14. Base(p).created = OpenedIn(b, s) /\ Base(p).resolved = ResolvedIn(b, s) /\ Base(p).lines = LinesIn(b, s)
  <2>1. CASE q.before.created = {} /\ q.before.resolved = {} /\ q.before.lines = {}
    BY <1>7, <1>9, <1>11, <2>1 DEF Base, Fig!Comparison
  <2>2. CASE ~(q.before.created = {} /\ q.before.resolved = {} /\ q.before.lines = {})
    <3>1. p.before = q.before
      BY <1>7, <2>2 DEF Fig!Comparison
    <3>2. PICK c \in SUBSET Reported, r \in SUBSET Reported, l \in SUBSET (1..MaxUnsettled) :
            q.before = [created |-> c, resolved |-> r, lines |-> l]
      <4>1. q.before = [created |-> q.before.created, resolved |-> q.before.resolved, lines |-> q.before.lines]
        BY <1>5 DEF Fig!Measures
      <4>2. q.before.created \subseteq Reported /\ q.before.resolved \subseteq Reported
        BY <1>9 DEF OpenedIn, ResolvedIn
      <4>3. q.before.lines \subseteq 1..MaxUnsettled
        <5>1. Len(v3) <= MaxUnsettled
          BY DEF FiguresInv, FiguresShape
        <5>2. q.before.lines \subseteq 1..Len(v3)
          BY <1>1, <1>9, <1>11 DEF LinesIn
        <5> QED BY <1>1, <5>1, <5>2
      <4> QED BY <4>1, <4>2, <4>3
    <3>3. q.before # None
      BY <3>2 DEF Fig!FiguresConstants
    <3> QED BY <1>9, <1>11, <3>1, <3>3 DEF Base
  <2> QED BY <2>1, <2>2
<1>15. /\ p.figures.lines \subseteq DOMAIN v3 /\ \A i \in p.figures.lines : s <= v3[i] /\ v3[i] <= e
       /\ p.roster = p.figures.lines /\ p.figures.lines \subseteq LinesIn(s, e)
  BY <1>7, <1>8, <1>11, <1>12, <1>13
<1>16. /\ Base(p).created = OpenedIn(s - PeriodDays, s) /\ Base(p).resolved = ResolvedIn(s - PeriodDays, s)
       /\ Base(p).lines = LinesIn(s - PeriodDays, s)
  BY <1>3, <1>14
<1>17. s = p.start /\ e = s + PeriodDays /\ e <= v1 /\ p.kind \in {"wsr", "qbr"} /\ \E m \in Nat : s = PeriodDays * m
  BY <1>2, <1>3, <1>7
<1> QED BY <1>1, <1>6, <1>8, <1>15, <1>16, <1>17, PackAdded

LEMMA TakeSnapshotKeeps ==
  ASSUME FiguresInv, Fig!FiguresConstants, Fig!TakeSnapshot
  PROVE  FiguresInv'
<1> USE DaysAreNumbers
<1>1. /\ FiguresShape /\ v1 \in Nat /\ v1 <= LastReportDay /\ (\A j \in Reported : v2[j] \in TicketFact /\ FactFits(j))
      /\ \A n \in DOMAIN v4 : PackFits(n)
  BY FigureTypes DEF FiguresInv
<1>20. PICK d \in Int :
         /\ d \in 0 .. LastReportDay /\ d = v1 - 1
         /\ v5' = [v5 EXCEPT ![d] = Fig!Measures(d, d, v1, Fig!LinesBetween(d, d))]
  <2>1. v5' = [v5 EXCEPT ![v1 - 1] = Fig!Measures(v1 - 1, v1 - 1, v1, Fig!LinesBetween(v1 - 1, v1 - 1))]
    BY DEF Fig!TakeSnapshot
  <2>2. v1 - 1 \in 0 .. LastReportDay
    BY <1>1 DEF Fig!TakeSnapshot
  <2>3. PICK d \in Int : d = v1 - 1
    BY <1>1
  <2> QED BY <2>1, <2>2, <2>3
<1>2. PICK f :
        /\ d \in 0 .. LastReportDay /\ d = v1 - 1 /\ f = Fig!Measures(d, d, v1, Fig!LinesBetween(d, d))
        /\ v5' = [v5 EXCEPT ![d] = f]
  BY <1>20
<1>3. UNCHANGED <<v1, v2, v3, v4, v6>>
  BY DEF Fig!TakeSnapshot
<1>4. DOMAIN v5' = 0 .. LastReportDay /\ v5'[d] = f /\ \A c \in (0 .. LastReportDay) \ {d} : v5'[c] = v5[c]
  BY <1>1, <1>2 DEF FiguresShape
<1>5. FiguresShape'
  BY <1>1, <1>3, <1>4 DEF FiguresShape
<1>6. \A j \in Reported : FactFits(j)'
  BY <1>1, <1>3 DEF FactFits
<1>7. \A n \in DOMAIN v4' : PackFits(n)'
  <2>1. \A a, b : OpenedIn(a, b)' = OpenedIn(a, b) /\ ResolvedIn(a, b)' = ResolvedIn(a, b) /\ LinesIn(a, b)' = LinesIn(a, b)
    BY <1>3 DEF OpenedIn, ResolvedIn, LinesIn
  <2>2. \A k, n : (ReopenedSince(k, n)' <=> ReopenedSince(k, n)) /\ (ReopenedAfter(k, n)' <=> ReopenedAfter(k, n))
    BY <1>3 DEF ReopenedSince, ReopenedAfter
  <2>3. \A n : Base(v4[n])' = Base(v4[n])
    BY <1>3 DEF Base
  <2> QED BY <1>1, <1>3, <2>1, <2>2, <2>3 DEF PackFits
<1>8. \A m, n \in DOMAIN v4' : PacksAgree(m, n)'
  BY <1>3 DEF FiguresInv, PacksAgree, Base
<1>9. ASSUME NEW c \in 0 .. LastReportDay PROVE SnapshotFits(c)'
  <2>1. CASE c # d
    BY <1>3, <1>4, <2>1 DEF FiguresInv, SnapshotFits, ReopenedAfter
  <2>2. CASE c = d
    <3>10. PICK t \in Int : t = v1
      BY <1>1
    <3>1. PICK lines : t = v1 /\ lines = Fig!LinesBetween(d, d)
      BY <3>10
    <3>2. f.created = OpenedIn(d, t) /\ f.resolved = ResolvedIn(d, t) /\ f.lines = lines
      <4>1. f = Fig!Measures(d, d, t, lines)
        BY <1>2, <3>1
      <4>2. d <= d
        OBVIOUS
      <4> QED BY <4>1, <4>2, FiguresAreExact
    <3>3. ASSUME NEW k \in Reported PROVE k \in f.resolved <=> v2[k].resolved = d
      <4>1. v2[k].resolved \in Nat \cup {None} /\ d # None
        BY <1>1, <1>2 DEF TicketFact
      <4>2. k \in f.resolved <=> v2[k].resolved # None /\ d <= v2[k].resolved /\ v2[k].resolved < t
        BY <3>2 DEF ResolvedIn, Fig!InPeriod
      <4>3. t = d + 1
        BY <1>2, <3>1
      <4> QED BY <4>1, <4>2, <4>3
    <3> QED BY <1>1, <1>2, <1>3, <1>4, <2>2, <3>3 DEF SnapshotFits
  <2> QED BY <2>1, <2>2
<1> QED BY <1>5, <1>6, <1>7, <1>8, <1>9 DEF FiguresInv

LEMMA FiguresStep ==
  ASSUME FiguresInv, Fig!FiguresConstants, Fig!FiguresNext
  PROVE  FiguresInv'
BY MakeWeeklyKeeps, MakeQuarterlyKeeps, TakeSnapshotKeeps, PassDayKeeps, MoveTicketKeeps, ReopenTicketKeeps,
   LogLineKeeps, DaysAreNumbers DEF Fig!FiguresNext

(* Of two periods of a kind the earlier ends before the later begins.      *)
LEMMA PeriodsDoNotOverlap ==
  ASSUME NEW p \in Nat, p >= 1, NEW a \in Nat, NEW b \in Nat, p * a < p * b
  PROVE  p * a + p <= p * b
<1>1. a + 1 <= b
  <2> SUFFICES ASSUME b <= a PROVE FALSE
    OBVIOUS
  <2>1. PICK c \in Nat : a = b + c
    OBVIOUS
  <2>2. p * a = p * b + p * c /\ p * c >= 0
    BY <2>1
  <2> QED BY <2>2
<1>2. PICK c \in Nat : b = a + 1 + c
  BY <1>1
<1>3. p * b = p * a + p + p * c /\ p * c >= 0
  BY <1>2
<1> QED BY <1>3

LEMMA FiguresMean ==
  ASSUME FiguresInv, Fig!FiguresConstants
  PROVE  Fig!LinesReportedOnce /\ Fig!ComparisonAgrees /\ Fig!SnapshotsAddUp
<1> USE DaysAreNumbers
<1>1. /\ FiguresShape /\ v1 \in 0 .. LastReportDay /\ (\A k \in Reported : v2[k] \in TicketFact /\ FactFits(k))
      /\ (\A i \in DOMAIN v3 : v3[i] \in 0 .. LastReportDay)
      /\ \A n \in DOMAIN v4 : PackFits(n) /\ v4[n].start \in Nat
  BY FigureTypes DEF FiguresInv
<1>2. Fig!LinesReportedOnce
  <2> SUFFICES ASSUME NEW m \in DOMAIN v4, NEW n \in DOMAIN v4
               PROVE  /\ v4[m].kind = "qbr" => v4[m].roster = v4[m].figures.lines
                      /\ v4[m].kind = v4[n].kind /\ v4[m].start < v4[n].start =>
                           \A i \in v4[m].figures.lines \cap v4[n].figures.lines :
                             v4[m].kind = "wsr" /\ v3[i] = v4[n].start
    BY DEF Fig!LinesReportedOnce
  <2>1. PackFits(m) /\ PackFits(n) /\ v4[m].start \in Nat /\ v4[n].start \in Nat
    BY <1>1
  <2>2. ASSUME v4[m].kind = v4[n].kind, v4[m].start < v4[n].start,
               NEW i \in v4[m].figures.lines \cap v4[n].figures.lines
        PROVE  v4[m].kind = "wsr" /\ v3[i] = v4[n].start
    <3>1. v4[m].start + PeriodDays <= v4[n].start
      <4>1. PICK a \in Nat, b \in Nat : v4[m].start = PeriodDays * a /\ v4[n].start = PeriodDays * b
        BY <2>1 DEF PackFits
      <4> QED BY <2>2, <4>1, PeriodsDoNotOverlap
    <3>2. v3[i] \in Nat /\ v3[i] <= v4[m].start + PeriodDays /\ v4[n].start <= v3[i]
      <4>1. v4[m].figures.lines \subseteq DOMAIN v3 /\ \A j \in v4[m].figures.lines : v3[j] <= v4[m].start + PeriodDays
        BY <2>1 DEF PackFits
      <4>2. \A j \in v4[n].figures.lines : v4[n].start <= v3[j]
        BY <2>1 DEF PackFits
      <4>3. i \in DOMAIN v3
        BY <2>2, <4>1
      <4>4. v3[i] \in 0 .. LastReportDay
        BY <1>1, <4>3
      <4> QED BY <2>2, <4>1, <4>2, <4>4
    <3>3. v4[m].kind # "qbr"
      <4> SUFFICES ASSUME v4[m].kind = "qbr" PROVE FALSE
        OBVIOUS
      <4>1. v3[i] < v4[m].start + PeriodDays
        BY <2>1, <2>2 DEF PackFits, LinesIn, Fig!InPeriod
      <4> QED BY <2>1, <3>1, <3>2, <4>1
    <3> QED BY <2>1, <3>1, <3>2, <3>3, SMTT(30) DEF PackFits
  <2> QED BY <2>1, <2>2 DEF PackFits
<1>3. Fig!ComparisonAgrees
  <2> SUFFICES ASSUME NEW m \in DOMAIN v4, NEW n \in DOMAIN v4, v4[m].kind = "qbr", v4[n].kind = "qbr", m < n,
                      v4[n].start = v4[m].start + PeriodDays
               PROVE  /\ Base(v4[n]).created = v4[m].figures.created
                      /\ \A k \in Reported :
                           (k \in Base(v4[n]).resolved) # (k \in v4[m].figures.resolved) =>
                             \E r \in v6 : r.of = k /\ r.after \in m .. n - 1
                      /\ v4[m].figures.lines \subseteq Base(v4[n]).lines
                      /\ \A i \in Base(v4[n]).lines \ v4[m].figures.lines :
                           Fig!InPeriod(v3[i], v4[m].start, v4[n].start)
    BY DEF Fig!ComparisonAgrees, Base
  <2> QED BY DEF FiguresInv, PacksAgree
<1>4. Fig!SnapshotsAddUp
  <2> DEFINE Days(n) == v4[n].start .. v4[n].start + PeriodDays - 1
  <2>0. SUFFICES ASSUME NEW n \in DOMAIN v4, \A d \in Days(n) : v5[d] # None, NEW k \in Reported,
                      (k \in v4[n].figures.resolved) #
                        (k \in UNION {v5[d].resolved : d \in {e \in Days(n) : v5[e] # None}})
               PROVE  \E r \in v6 : r.of = k /\ r.on > v4[n].start
    BY DEF Fig!SnapshotsAddUp
  <2>10. PICK days : days = Days(n)
    OBVIOUS
  <2>1. PICK s \in Nat, e \in Nat : s = v4[n].start /\ e = s + PeriodDays /\ e <= v1 /\ days = s .. e - 1
    <3>1. v4[n].start \in Nat /\ v4[n].start + PeriodDays <= v1
      BY <1>1 DEF PackFits
    <3> QED BY <2>10, <3>1
  <2>11. /\ \A d \in days : v5[d] # None
         /\ (k \in v4[n].figures.resolved) # (k \in UNION {v5[d].resolved : d \in {c \in days : v5[c] # None}})
    BY <2>0, <2>10
  <2> HIDE DEF Days
  <2> SUFFICES ASSUME ~ ReopenedAfter(k, s) PROVE FALSE
    BY <2>1 DEF ReopenedAfter
  <2>2. k \in v4[n].figures.resolved <=> Fig!InPeriod(v2[k].resolved, s, e)
    BY <1>1, <2>1 DEF PackFits, ResolvedIn
  <2>3. days \subseteq 0 .. LastReportDay /\ None \notin days
    BY <1>1, <2>1, SMTT(30)
  <2>4. ASSUME NEW d \in days PROVE k \in v5[d].resolved <=> v2[k].resolved = d
    <3>1. SnapshotFits(d) /\ v5[d] # None
      BY <2>11, <2>3 DEF FiguresInv
    <3>2. ~ ReopenedAfter(k, d)
      <4> SUFFICES ASSUME NEW r \in v6, r.of = k, r.on > d PROVE FALSE
        BY DEF ReopenedAfter
      <4>1. r.on \in Nat
        BY <1>1 DEF FiguresShape, ReopenedFact
      <4>2. r.on > s
        BY <2>1, <4>1
      <4> QED BY <4>2 DEF ReopenedAfter
    <3> QED BY <3>1, <3>2 DEF SnapshotFits
  <2>5. k \in UNION {v5[d].resolved : d \in {c \in days : v5[c] # None}} <=> \E d \in days : v2[k].resolved = d
    <3>1. \A d \in days : v5[d] # None
      BY <2>11
    <3>2. (\E d \in days : k \in v5[d].resolved) <=> \E d \in days : v2[k].resolved = d
      BY <2>4
    <3>3. {c \in days : v5[c] # None} = days
      BY <3>1
    <3>4. k \in UNION {v5[d].resolved : d \in days} <=> \E d \in days : k \in v5[d].resolved
      OBVIOUS
    <3> QED BY <3>2, <3>3, <3>4
  <2>6. (\E d \in days : v2[k].resolved = d) <=> Fig!InPeriod(v2[k].resolved, s, e)
    <3>1. v2[k].resolved \in Nat \cup {None}
      BY <1>1 DEF TicketFact
    <3>2. CASE v2[k].resolved = None
      BY <2>3, <3>2 DEF Fig!InPeriod
    <3>3. CASE v2[k].resolved # None
      BY <2>1, <3>1, <3>3, SMTT(30) DEF Fig!InPeriod
    <3> QED BY <3>2, <3>3
  <2> QED BY <2>11, <2>2, <2>5, <2>6
<1> QED BY <1>2, <1>3, <1>4

-----------------------------------------------------------------------------
(* The health score                                                        *)

(* A number for each factor, summed over some of them.                     *)
FactorTerm(w, s, f) == IF f \in s THEN w[f] ELSE 0
FactorSum(w, s) ==
  FactorTerm(w, s, "sla") + FactorTerm(w, s, "csat") + FactorTerm(w, s, "budget")
    + FactorTerm(w, s, "reopened") + FactorTerm(w, s, "engagement")

(* g adds up w, taking any factor out at a time.                           *)
AddsFactors(g, w, M) ==
  g = [s \in SUBSET M |-> IF s = {} THEN 0 ELSE g[s \ {CHOOSE x \in s : TRUE}] + w[CHOOSE x \in s : TRUE]]

LEMMA OneFactorLess ==
  ASSUME NEW s \in SUBSET Hlt!Factors, NEW f \in s, NEW w, \A x \in s : w[x] \in Int
  PROVE  FactorSum(w, s) = FactorSum(w, s \ {f}) + w[f] /\ FactorSum(w, s) \in Int
<1>1. f \in {"sla", "csat", "budget", "reopened", "engagement"}
  BY DEF Hlt!Factors
<1>2. \A x : FactorTerm(w, s, x) \in Int /\ FactorTerm(w, s \ {f}, x) \in Int
  BY DEF FactorTerm
<1>3. FactorTerm(w, s, f) = w[f] /\ FactorTerm(w, s \ {f}, f) = 0
  BY DEF FactorTerm
<1>4. \A x : x # f => FactorTerm(w, s \ {f}, x) = FactorTerm(w, s, x)
  BY DEF FactorTerm
<1>5. PICK a1 \in Int, a2 \in Int, a3 \in Int, a4 \in Int, a5 \in Int :
        /\ a1 = FactorTerm(w, s, "sla") /\ a2 = FactorTerm(w, s, "csat") /\ a3 = FactorTerm(w, s, "budget")
        /\ a4 = FactorTerm(w, s, "reopened") /\ a5 = FactorTerm(w, s, "engagement")
  BY <1>2
<1>6. PICK b1 \in Int, b2 \in Int, b3 \in Int, b4 \in Int, b5 \in Int :
        /\ b1 = FactorTerm(w, s \ {f}, "sla") /\ b2 = FactorTerm(w, s \ {f}, "csat") /\ b3 = FactorTerm(w, s \ {f}, "budget")
        /\ b4 = FactorTerm(w, s \ {f}, "reopened") /\ b5 = FactorTerm(w, s \ {f}, "engagement")
  BY <1>2
<1>7. FactorSum(w, s) = a1 + a2 + a3 + a4 + a5 /\ FactorSum(w, s \ {f}) = b1 + b2 + b3 + b4 + b5
  BY <1>5, <1>6 DEF FactorSum
<1>8. CASE f = "sla"
  <2>1. w[f] = a1 /\ b1 = 0 /\ b2 = a2 /\ b3 = a3 /\ b4 = a4 /\ b5 = a5
    BY <1>3, <1>4, <1>5, <1>6, <1>8
  <2> QED BY <1>7, <2>1
<1>9. CASE f = "csat"
  <2>1. w[f] = a2 /\ b2 = 0 /\ b1 = a1 /\ b3 = a3 /\ b4 = a4 /\ b5 = a5
    BY <1>3, <1>4, <1>5, <1>6, <1>9
  <2> QED BY <1>7, <2>1
<1>10. CASE f = "budget"
  <2>1. w[f] = a3 /\ b3 = 0 /\ b1 = a1 /\ b2 = a2 /\ b4 = a4 /\ b5 = a5
    BY <1>3, <1>4, <1>5, <1>6, <1>10
  <2> QED BY <1>7, <2>1
<1>11. CASE f = "reopened"
  <2>1. w[f] = a4 /\ b4 = 0 /\ b1 = a1 /\ b2 = a2 /\ b3 = a3 /\ b5 = a5
    BY <1>3, <1>4, <1>5, <1>6, <1>11
  <2> QED BY <1>7, <2>1
<1>12. CASE f = "engagement"
  <2>1. w[f] = a5 /\ b5 = 0 /\ b1 = a1 /\ b2 = a2 /\ b3 = a3 /\ b4 = a4
    BY <1>3, <1>4, <1>5, <1>6, <1>12
  <2> QED BY <1>7, <2>1
<1> QED BY <1>1, <1>8, <1>9, <1>10, <1>11, <1>12

LEMMA SumExists ==
  ASSUME NEW M \in SUBSET Hlt!Factors, NEW w, \A x \in M : w[x] \in Int
  PROVE  \E g : AddsFactors(g, w, M)
<1> DEFINE g == [s \in SUBSET M |-> FactorSum(w, s)]
<1>1. ASSUME NEW s \in SUBSET M
      PROVE  g[s] = IF s = {} THEN 0 ELSE g[s \ {CHOOSE x \in s : TRUE}] + w[CHOOSE x \in s : TRUE]
  <2>1. CASE s = {}
    BY <2>1 DEF FactorSum, FactorTerm
  <2>2. CASE s # {}
    <3>1. PICK f \in s : f = CHOOSE x \in s : TRUE
      BY <2>2
    <3>2. s \ {f} \in SUBSET M /\ s \in SUBSET Hlt!Factors
      OBVIOUS
    <3>3. FactorSum(w, s) = FactorSum(w, s \ {f}) + w[f]
      BY <3>2, OneFactorLess
    <3>4. g[s] = FactorSum(w, s) /\ g[s \ {f}] = FactorSum(w, s \ {f})
      BY <3>2
    <3> HIDE DEF g
    <3> QED BY <2>2, <3>1, <3>3, <3>4
  <2> QED BY <2>1, <2>2
<1>2. g = [s \in SUBSET M |-> g[s]]
  OBVIOUS
<1> HIDE DEF g
<1> QED BY <1>1, <1>2, ZenonT(60) DEF AddsFactors

LEMMA SumIsUnique ==
  ASSUME NEW M \in SUBSET Hlt!Factors, NEW w, \A x \in M : w[x] \in Int, NEW g, AddsFactors(g, w, M)
  PROVE  g[M] = FactorSum(w, M)
<1> DEFINE Size(s) == FactorSum([x \in Hlt!Factors |-> 1], s)
           Wrong == {s \in SUBSET M : g[s] # FactorSum(w, s)}
           Sizes == {Size(s) : s \in Wrong}
<1>1. SUFFICES ASSUME Wrong # {} PROVE FALSE
  OBVIOUS
<1>2. \A s \in SUBSET M : Size(s) \in Nat
  BY DEF FactorSum, FactorTerm, Hlt!Factors
<1>3. \A s \in SUBSET M : \A f \in s : Size(s \ {f}) < Size(s)
  <2> TAKE s \in SUBSET M
  <2> TAKE f \in s
  <2>0. f \in Hlt!Factors /\ \A x \in s : x \in Hlt!Factors
    OBVIOUS
  <2>1. PICK u : u = [x \in Hlt!Factors |-> 1]
    OBVIOUS
  <2>4. (\A x \in s : u[x] \in Int) /\ u[f] = 1
    BY <2>0, <2>1
  <2>2. FactorSum(u, s) = FactorSum(u, s \ {f}) + u[f] /\ s \in SUBSET Hlt!Factors
    BY <2>4, OneFactorLess
  <2>3. Size(s) \in Nat /\ Size(s \ {f}) \in Nat
    BY <1>2
  <2> QED BY <2>1, <2>2, <2>3, <2>4
<1> HIDE DEF Size
<1>4. PICK s \in Wrong : \A t \in Wrong : Size(s) <= Size(t)
  <2>1. Sizes \subseteq Nat /\ Sizes # {}
    BY <1>1, <1>2
  <2>2. PICK n \in Sizes : \A m \in Sizes : n <= m
    <3> HIDE DEF Sizes
    <3> QED BY <2>1, LeastNumber
  <2> QED BY <2>2
<1>5. s \in SUBSET M /\ g[s] # FactorSum(w, s)
  BY <1>4
<1>6. g[s] = IF s = {} THEN 0 ELSE g[s \ {CHOOSE x \in s : TRUE}] + w[CHOOSE x \in s : TRUE]
  BY <1>5 DEF AddsFactors
<1>7. CASE s = {}
  BY <1>5, <1>6, <1>7 DEF FactorSum, FactorTerm
<1>8. CASE s # {}
  <2>1. PICK f \in s : f = CHOOSE x \in s : TRUE
    BY <1>8
  <2>2. s \ {f} \in SUBSET M /\ s \in SUBSET Hlt!Factors /\ \A x \in s : w[x] \in Int
    BY <1>5
  <2>3. s \ {f} \notin Wrong
    <3>1. Size(s \ {f}) < Size(s) /\ Size(s) \in Nat /\ Size(s \ {f}) \in Nat
      BY <1>2, <1>3, <1>5, <2>2
    <3> HIDE DEF Wrong
    <3> QED BY <1>4, <3>1
  <2>4. g[s \ {f}] = FactorSum(w, s \ {f})
    BY <2>2, <2>3
  <2>5. FactorSum(w, s) = FactorSum(w, s \ {f}) + w[f]
    BY <2>2, OneFactorLess
  <2> QED BY <1>5, <1>6, <1>8, <2>1, <2>4, <2>5
<1> QED BY <1>7, <1>8

LEMMA WeightIsSum ==
  ASSUME NEW x, NEW M \in SUBSET Hlt!Factors, M = Hlt!Measured(x)
  PROVE  Hlt!MeasuredWeight(x) = FactorSum(Hlt!HealthWeight, M)
<1> DEFINE w == Hlt!HealthWeight
           g == CHOOSE h : h = [s \in SUBSET M |-> IF s = {} THEN 0 ELSE h[s \ {CHOOSE y \in s : TRUE}] + w[CHOOSE y \in s : TRUE]]
<1>1. Hlt!MeasuredWeight(x) = g[M]
  BY DEF Hlt!MeasuredWeight, Hlt!FoldSet, Hlt!MapThenFoldSet
<1>2. \A f \in M : w[f] \in Int
  BY DEF Hlt!HealthWeight, Hlt!Factors
<1> HIDE DEF w
<1>3. \E h : h = [s \in SUBSET M |-> IF s = {} THEN 0 ELSE h[s \ {CHOOSE y \in s : TRUE}] + w[CHOOSE y \in s : TRUE]]
  <2>1. \E h : AddsFactors(h, w, M)
    BY <1>2, SumExists
  <2> QED BY <2>1, Zenon DEF AddsFactors
<1>4. g = [s \in SUBSET M |-> IF s = {} THEN 0 ELSE g[s \ {CHOOSE y \in s : TRUE}] + w[CHOOSE y \in s : TRUE]]
  BY <1>3, Zenon
<1>5. AddsFactors(g, w, M)
  BY <1>4, Zenon DEF AddsFactors
<1> HIDE DEF g
<1>6. g[M] = FactorSum(w, M)
  BY <1>2, <1>5, SumIsUnique
<1> QED BY <1>1, <1>6 DEF w

LEMMA TotalIsSum ==
  ASSUME NEW x, NEW M \in SUBSET Hlt!Factors, M = Hlt!Measured(x), M # {}, NEW w,
         \A f \in M : w[f] = Hlt!FactorScore(x)[f] * Hlt!HealthWeight[f] /\ w[f] \in Int
  PROVE  Hlt!HealthOf(x) = Hlt!RoundedShare(FactorSum(w, M), 10 * Hlt!MeasuredWeight(x))
<1> DEFINE g == CHOOSE h : h = [s \in SUBSET M |-> IF s = {} THEN 0 ELSE h[s \ {CHOOSE y \in s : TRUE}]
                                 + Hlt!FactorScore(x)[CHOOSE y \in s : TRUE] * Hlt!HealthWeight[CHOOSE y \in s : TRUE]]
<1>1. Hlt!HealthOf(x) = Hlt!RoundedShare(g[M], 10 * Hlt!MeasuredWeight(x))
  BY DEF Hlt!HealthOf, Hlt!FoldSet, Hlt!MapThenFoldSet
<1>2. ASSUME NEW h, NEW s \in SUBSET M
      PROVE  (IF s = {} THEN 0 ELSE h[s \ {CHOOSE y \in s : TRUE}]
                + Hlt!FactorScore(x)[CHOOSE y \in s : TRUE] * Hlt!HealthWeight[CHOOSE y \in s : TRUE])
             = (IF s = {} THEN 0 ELSE h[s \ {CHOOSE y \in s : TRUE}] + w[CHOOSE y \in s : TRUE])
  <2>1. CASE s = {}
    BY <2>1
  <2>2. CASE s # {}
    <3>1. PICK f \in s : f = CHOOSE y \in s : TRUE
      BY <2>2
    <3>2. w[f] = Hlt!FactorScore(x)[f] * Hlt!HealthWeight[f]
      BY <1>2
    <3> QED BY <3>1, <3>2
  <2> QED BY <2>1, <2>2
<1>3. \E h : h = [s \in SUBSET M |-> IF s = {} THEN 0 ELSE h[s \ {CHOOSE y \in s : TRUE}] + w[CHOOSE y \in s : TRUE]]
  <2>1. \E h : AddsFactors(h, w, M)
    BY SumExists
  <2> QED BY <2>1, Zenon DEF AddsFactors
<1>4. \E h : h = [s \in SUBSET M |-> IF s = {} THEN 0 ELSE h[s \ {CHOOSE y \in s : TRUE}]
                      + Hlt!FactorScore(x)[CHOOSE y \in s : TRUE] * Hlt!HealthWeight[CHOOSE y \in s : TRUE]]
  <2>1. PICK h : h = [s \in SUBSET M |-> IF s = {} THEN 0 ELSE h[s \ {CHOOSE y \in s : TRUE}] + w[CHOOSE y \in s : TRUE]]
    BY <1>3
  <2>2. h = [s \in SUBSET M |-> IF s = {} THEN 0 ELSE h[s \ {CHOOSE y \in s : TRUE}]
               + Hlt!FactorScore(x)[CHOOSE y \in s : TRUE] * Hlt!HealthWeight[CHOOSE y \in s : TRUE]]
    BY <1>2, <2>1, SMTT(30)
  <2> QED BY <2>2, ZenonT(60)
<1>5. g = [s \in SUBSET M |-> IF s = {} THEN 0 ELSE g[s \ {CHOOSE y \in s : TRUE}]
             + Hlt!FactorScore(x)[CHOOSE y \in s : TRUE] * Hlt!HealthWeight[CHOOSE y \in s : TRUE]]
  BY <1>4, Zenon
<1> HIDE DEF g
<1>6. AddsFactors(g, w, M)
  BY <1>2, <1>5, SMTT(30) DEF AddsFactors
<1>7. g[M] = FactorSum(w, M)
  BY <1>6, SumIsUnique
<1> QED BY <1>1, <1>7

(* The score of a factor, in tenths of a point.                            *)
LEMMA ClampsToTenths ==
  ASSUME NEW n \in Int
  PROVE  Hlt!Clamp(n) \in 0 .. 1000
BY DEF Hlt!Clamp

LEMMA RatiosArePercentages ==
  ASSUME NEW r \in Hlt!Ratios, r[2] # 0
  PROVE  Hlt!Percentage(r) \in Int
<1>1. r[1] \in Nat /\ r[2] \in Nat /\ r[2] >= 1
  BY DEF Hlt!Ratios
<1>2. PICK n \in Int, d \in Nat : n = 2 * (1000 * r[1]) + r[2] /\ d = 2 * r[2] /\ d >= 1
  BY <1>1
<1>3. n \div d \in Int
  BY <1>2
<1> QED BY <1>2, <1>3 DEF Hlt!Percentage, Hlt!RoundedShare

LEMMA BudgetsAreAhead ==
  ASSUME NEW p \in [available : {4}, consumed : {0, 3, 6}, days : {4}, passed : {1, 3}]
  PROVE  Hlt!Ahead(p) \in Int
<1>1. p.available = 4 /\ p.consumed \in Nat /\ p.days = 4 /\ p.passed \in Nat
  OBVIOUS
<1>2. (1000 * p.consumed) \div p.available \in Int
  BY <1>1
<1>3. PICK n \in Int : n = 1000 * (IF p.passed + 1 > p.days THEN p.days ELSE p.passed + 1)
  BY <1>1
<1>4. Hlt!Elapsed(p) = n \div 4
  BY <1>1, <1>3 DEF Hlt!Elapsed
<1>5. n \div 4 \in Int
  OBVIOUS
<1> QED BY <1>2, <1>4, <1>5 DEF Hlt!Ahead

(* The two halves of the engagement, and their mean.                       *)
Visits(x) == 1000 * Hlt!Signins(x)
Answers(x) == (1000 * x.answered[1]) \div x.answered[2]
MeanOf(p, q) == (p + q) \div 2

LEMMA MeanOfTenths ==
  ASSUME NEW v \in Int, 0 <= v, v <= 1000, NEW a \in Int, 0 <= a, a <= 1000
  PROVE  MeanOf(v, a) \in Int /\ 0 <= MeanOf(v, a) /\ MeanOf(v, a) <= 1000
BY DEF MeanOf

LEMMA EngagementOf ==
  ASSUME NEW x
  PROVE  Hlt!FactorScore(x)["engagement"] =
           IF x.answered[2] = 0 THEN IF x.portal THEN Visits(x) ELSE None
           ELSE IF x.portal THEN MeanOf(Visits(x), Answers(x)) ELSE Answers(x)
BY Zenon DEF Hlt!FactorScore, Visits, Answers, MeanOf

LEMMA ScoresAreTenths ==
  ASSUME NEW x \in ChangedAccounts, NEW f \in Hlt!Factors
  PROVE  Hlt!FactorScore(x)[f] \in (0 .. 1000) \cup {None}
<1>1. /\ x.met \in Hlt!Ratios /\ x.reopened \in Hlt!Ratios /\ x.csat \in {None, 10, 50}
      /\ x.position \in {Hlt!NoBudget} \cup [available : {4}, consumed : {0, 3, 6}, days : {4}, passed : {1, 3}]
      /\ x.portal \in BOOLEAN /\ x.signins \in {0, 2} /\ x.answered \in {<<0, 0>>, <<0, 2>>, <<1, 2>>}
  BY DEF ChangedAccounts
<1>2. CASE f = "sla"
  <2>1. x.met[2] # 0 => Hlt!Clamp(Hlt!Percentage(x.met)) \in 0 .. 1000
    BY <1>1, RatiosArePercentages, ClampsToTenths, SMTT(30)
  <2> QED BY <1>2, <2>1 DEF Hlt!FactorScore
<1>3. CASE f = "csat"
  <2>1. x.csat # None => 25 * (x.csat - 10) \in Int
    BY <1>1
  <2>2. x.csat # None => Hlt!Clamp(25 * (x.csat - 10)) \in 0 .. 1000
    BY <2>1, ClampsToTenths, SMTT(30)
  <2> QED BY <1>3, <2>2 DEF Hlt!FactorScore
<1>4. CASE f = "budget"
  <2>1. x.position.available # 0 => Hlt!Ahead(x.position) \in Int
    <3>1. Hlt!NoBudget.available = 0
      BY DEF Hlt!NoBudget
    <3> QED BY <1>1, <3>1, BudgetsAreAhead
  <2>2. x.position.available # 0 => 1000 - 2 * Hlt!Ahead(x.position) \in Int
    BY <2>1
  <2>3. x.position.available # 0 => Hlt!Clamp(1000 - 2 * Hlt!Ahead(x.position)) \in 0 .. 1000
    BY <2>2, ClampsToTenths, SMTT(30)
  <2> QED BY <1>4, <2>3 DEF Hlt!FactorScore
<1>5. CASE f = "reopened"
  <2>1. x.reopened[2] # 0 => 1000 - 4 * Hlt!Percentage(x.reopened) \in Int
    BY <1>1, RatiosArePercentages
  <2>2. x.reopened[2] # 0 => Hlt!Clamp(1000 - 4 * Hlt!Percentage(x.reopened)) \in 0 .. 1000
    BY <2>1, ClampsToTenths, SMTT(30)
  <2> QED BY <1>5, <2>2 DEF Hlt!FactorScore
<1>6. CASE f = "engagement"
  <2>1. Visits(x) \in 0 .. 1000
    BY <1>1 DEF Visits, Hlt!Signins
  <2>2. x.answered[2] # 0 => Answers(x) \in 0 .. 1000
    <3>1. CASE x.answered[1] = 0 /\ x.answered[2] = 2
      BY <3>1 DEF Answers
    <3>2. CASE x.answered[1] = 1 /\ x.answered[2] = 2
      BY <3>2 DEF Answers
    <3>3. x.answered[2] # 0 => x.answered[2] = 2 /\ x.answered[1] \in {0, 1}
      BY <1>1
    <3> QED BY <3>1, <3>2, <3>3
  <2>3. ASSUME x.answered[2] # 0 PROVE MeanOf(Visits(x), Answers(x)) \in 0 .. 1000
    <3>1. PICK v \in Int : v = Visits(x) /\ 0 <= v /\ v <= 1000
      BY <2>1
    <3>2. PICK a \in Int : a = Answers(x) /\ 0 <= a /\ a <= 1000
      BY <2>2, <2>3
    <3>3. MeanOf(v, a) \in Int /\ 0 <= MeanOf(v, a) /\ MeanOf(v, a) <= 1000
      BY <3>1, <3>2, MeanOfTenths
    <3> QED BY <3>1, <3>2, <3>3
  <2> QED BY <1>6, <2>1, <2>2, <2>3, EngagementOf
<1> QED BY <1>2, <1>3, <1>4, <1>5, <1>6 DEF Hlt!Factors

(* What a factor has by weight, and what it adds to the total.             *)
Share(x, f) == IF Hlt!FactorScore(x)[f] = None THEN 0 ELSE Hlt!HealthWeight[f]
Part(x, f) == IF Hlt!FactorScore(x)[f] = None THEN 0 ELSE Hlt!FactorScore(x)[f] * Hlt!HealthWeight[f]
Shares(x) ==
  Share(x, "sla") + Share(x, "csat") + Share(x, "budget") + Share(x, "reopened") + Share(x, "engagement")
Parts(x) ==
  Part(x, "sla") + Part(x, "csat") + Part(x, "budget") + Part(x, "reopened") + Part(x, "engagement")

LEMMA WeightsAreTens ==
  ASSUME NEW f \in Hlt!Factors
  PROVE  Hlt!HealthWeight[f] \in 10 .. 30
BY DEF Hlt!Factors, Hlt!HealthWeight

LEMMA PartsAreNumbers ==
  ASSUME Hlt!HealthConstants, NEW x \in ChangedAccounts, NEW f \in Hlt!Factors
  PROVE  /\ Share(x, f) \in Nat /\ Part(x, f) \in Nat /\ Part(x, f) <= 1000 * Share(x, f)
         /\ f \in Hlt!Measured(x) => Share(x, f) >= 10
         /\ f \in Hlt!Measured(x) <=> Hlt!FactorScore(x)[f] # None
         /\ Hlt!FactorScore(x)[f] # None => Hlt!FactorScore(x)[f] \in 0 .. 1000
<1>1. PICK w \in 10 .. 30 : w = Hlt!HealthWeight[f]
  BY WeightsAreTens
<1>2. f \in Hlt!Measured(x) <=> Hlt!FactorScore(x)[f] # None
  BY DEF Hlt!Measured
<1>3. CASE Hlt!FactorScore(x)[f] = None
  BY <1>2, <1>3 DEF Share, Part
<1>4. CASE Hlt!FactorScore(x)[f] # None
  <2>1. PICK s \in 0 .. 1000 : s = Hlt!FactorScore(x)[f]
    BY <1>4, ScoresAreTenths
  <2>2. Share(x, f) = w /\ Part(x, f) = s * w
    BY <1>1, <1>4, <2>1 DEF Share, Part
  <2>3. s * w \in Nat /\ s * w <= 1000 * w
    OBVIOUS
  <2> QED BY <1>2, <2>1, <2>2, <2>3
<1> QED BY <1>3, <1>4

LEMMA HealthIsRounded ==
  ASSUME Hlt!HealthConstants, NEW x \in ChangedAccounts
  PROVE  /\ Hlt!MeasuredWeight(x) = Shares(x)
         /\ Hlt!Measured(x) # {} => Hlt!HealthOf(x) = Hlt!RoundedShare(Parts(x), 10 * Shares(x))
<1>1. PICK M \in SUBSET Hlt!Factors : M = Hlt!Measured(x)
  BY DEF Hlt!Measured
<1>2. \A f \in Hlt!Factors : f \in M <=> Hlt!FactorScore(x)[f] # None
  BY <1>1 DEF Hlt!Measured
<1>3. {"sla", "csat", "budget", "reopened", "engagement"} = Hlt!Factors
  BY DEF Hlt!Factors
<1>4. Hlt!MeasuredWeight(x) = Shares(x)
  <2>1. \A f \in Hlt!Factors : FactorTerm(Hlt!HealthWeight, M, f) = Share(x, f)
    BY <1>2 DEF FactorTerm, Share
  <2>2. Hlt!MeasuredWeight(x) = FactorSum(Hlt!HealthWeight, M)
    BY <1>1, WeightIsSum
  <2> QED BY <1>3, <2>1, <2>2 DEF FactorSum, Shares
<1>5. ASSUME M # {} PROVE Hlt!HealthOf(x) = Hlt!RoundedShare(Parts(x), 10 * Shares(x))
  <2>1. PICK w : w = [f \in Hlt!Factors |-> Part(x, f)]
    OBVIOUS
  <2>2. \A f \in M : w[f] = Hlt!FactorScore(x)[f] * Hlt!HealthWeight[f] /\ w[f] \in Int
    BY <1>2, <2>1, PartsAreNumbers DEF Part
  <2>3. Hlt!HealthOf(x) = Hlt!RoundedShare(FactorSum(w, M), 10 * Hlt!MeasuredWeight(x))
    BY <1>1, <1>5, <2>2, TotalIsSum
  <2>4. \A f \in Hlt!Factors : FactorTerm(w, M, f) = Part(x, f)
    BY <1>2, <2>1 DEF FactorTerm, Part
  <2>5. FactorSum(w, M) = Parts(x)
    BY <1>3, <2>4 DEF FactorSum, Parts
  <2> QED BY <1>4, <2>3, <2>5
<1> QED BY <1>1, <1>4, <1>5

(* What is rounded lies within half a unit of the mean.                    *)
Rounds(T, W, h) == 20 * (W * h) <= 2 * T + 10 * W /\ 2 * T + 10 * W < 20 * (W * h) + 20 * W

LEMMA Divides ==
  ASSUME NEW d \in Nat, d >= 1, NEW n \in Nat
  PROVE  n \div d \in Nat /\ d * (n \div d) <= n /\ n < d * (n \div d) + d
OBVIOUS

LEMMA RoundingBounds ==
  ASSUME NEW T \in Nat, NEW W \in Nat, W >= 1
  PROVE  \E h \in Nat : h = Hlt!RoundedShare(T, 10 * W) /\ Rounds(T, W, h)
<1>1. PICK n \in Nat, d \in Nat : n = 2 * T + 10 * W /\ d = 20 * W /\ d >= 1
  OBVIOUS
<1>2. PICK h \in Nat : h = n \div d /\ d * h <= n /\ n < d * h + d
  BY <1>1, Divides
<1>3. Hlt!RoundedShare(T, 10 * W) = (2 * T + 10 * W) \div (2 * (10 * W))
  BY DEF Hlt!RoundedShare
<1>4. 2 * (10 * W) = d
  BY <1>1
<1>5. Hlt!RoundedShare(T, 10 * W) = h
  BY <1>1, <1>2, <1>3, <1>4, Zenon
<1>6. d * h = 20 * (W * h)
  BY <1>1
<1>7. Rounds(T, W, h)
  BY <1>1, <1>2, <1>6 DEF Rounds
<1> QED BY <1>5, <1>7

LEMMA TimesMore ==
  ASSUME NEW W \in Nat, NEW a \in Int, NEW b \in Int, a < b
  PROVE  W * a \in Int /\ W * b \in Int /\ W * a + W <= W * b
<1>1. PICK c \in Nat : b = a + 1 + c
  <2>1. b - a - 1 \in Nat /\ b = a + 1 + (b - a - 1)
    OBVIOUS
  <2> QED BY <2>1
<1>2. W * (a + 1 + c) = W * a + W + W * c /\ W * c \in Nat /\ W * a \in Int
  OBVIOUS
<1> QED BY <1>1, <1>2

(* The five parts together.                                                *)
LEMMA PartsAddUp ==
  ASSUME Hlt!HealthConstants, NEW x \in ChangedAccounts
  PROVE  /\ Shares(x) \in Nat /\ Parts(x) \in Nat /\ Parts(x) <= 1000 * Shares(x) /\ Shares(x) <= 100
         /\ Hlt!Measured(x) # {} => Shares(x) >= 10
         /\ Hlt!Measured(x) = {} => Shares(x) = 0
<1>0. \A f \in Hlt!Factors : Share(x, f) \in Nat /\ Part(x, f) \in Nat
  <2> TAKE f \in Hlt!Factors
  <2> QED BY PartsAreNumbers
<1>9. \A f \in Hlt!Factors : Part(x, f) <= 1000 * Share(x, f)
  <2> TAKE f \in Hlt!Factors
  <2> QED BY PartsAreNumbers
<1>1. "sla" \in Hlt!Factors /\ "csat" \in Hlt!Factors /\ "budget" \in Hlt!Factors
      /\ "reopened" \in Hlt!Factors /\ "engagement" \in Hlt!Factors
  BY DEF Hlt!Factors
<1>2. PICK a1 \in Nat, a2 \in Nat, a3 \in Nat, a4 \in Nat, a5 \in Nat :
        /\ a1 = Share(x, "sla") /\ a2 = Share(x, "csat") /\ a3 = Share(x, "budget")
        /\ a4 = Share(x, "reopened") /\ a5 = Share(x, "engagement")
  BY <1>0, <1>1
<1>3. PICK b1 \in Nat, b2 \in Nat, b3 \in Nat, b4 \in Nat, b5 \in Nat :
        /\ b1 = Part(x, "sla") /\ b2 = Part(x, "csat") /\ b3 = Part(x, "budget")
        /\ b4 = Part(x, "reopened") /\ b5 = Part(x, "engagement")
  BY <1>0, <1>1
<1>4. b1 <= 1000 * a1 /\ b2 <= 1000 * a2 /\ b3 <= 1000 * a3 /\ b4 <= 1000 * a4 /\ b5 <= 1000 * a5
  BY <1>1, <1>2, <1>3, <1>9
<1>5. a1 <= 30 /\ a2 <= 25 /\ a3 <= 20 /\ a4 <= 15 /\ a5 <= 10
  BY <1>2 DEF Share, Hlt!HealthWeight
<1>6. Shares(x) = a1 + a2 + a3 + a4 + a5 /\ Parts(x) = b1 + b2 + b3 + b4 + b5
  BY <1>2, <1>3 DEF Shares, Parts
<1>7. ASSUME Hlt!Measured(x) # {} PROVE a1 + a2 + a3 + a4 + a5 >= 10
  <2>1. PICK f \in Hlt!Factors : f \in Hlt!Measured(x)
    BY <1>7 DEF Hlt!Measured
  <2>2. Share(x, f) \in Nat /\ Share(x, f) >= 10
    BY <2>1, PartsAreNumbers
  <2>3. a1 >= 10 \/ a2 >= 10 \/ a3 >= 10 \/ a4 >= 10 \/ a5 >= 10
    BY <1>2, <2>2 DEF Hlt!Factors
  <2> QED BY <2>3
<1>8. ASSUME Hlt!Measured(x) = {} PROVE a1 = 0 /\ a2 = 0 /\ a3 = 0 /\ a4 = 0 /\ a5 = 0
  <2>1. \A f \in Hlt!Factors : Hlt!FactorScore(x)[f] = None
    BY <1>8 DEF Hlt!Measured
  <2>2. \A f \in Hlt!Factors : Share(x, f) = 0
    BY <2>1 DEF Share
  <2> QED BY <1>1, <1>2, <2>2
<1> QED BY <1>4, <1>5, <1>6, <1>7, <1>8

(* The score is the mean, rounded, of what was measured.                   *)
LEMMA HealthIsAMean ==
  ASSUME Hlt!HealthConstants, NEW x \in ChangedAccounts, Hlt!Measured(x) # {}
  PROVE  \E T \in Nat, W \in Nat, h \in Nat :
           /\ T = Parts(x) /\ W = Shares(x) /\ h = Hlt!HealthOf(x)
           /\ W >= 10 /\ W <= 100 /\ Rounds(T, W, h) /\ h <= 100
<1>1. PICK T \in Nat, W \in Nat : T = Parts(x) /\ W = Shares(x) /\ W >= 10 /\ W <= 100 /\ T <= 1000 * W
  BY PartsAddUp
<1>2. Hlt!HealthOf(x) = Hlt!RoundedShare(Parts(x), 10 * Shares(x))
  BY HealthIsRounded
<1>3. PICK h \in Nat : h = Hlt!RoundedShare(T, 10 * W) /\ Rounds(T, W, h)
  BY <1>1, RoundingBounds
<1>4. h <= 100
  <2>1. SUFFICES ASSUME 100 < h PROVE FALSE
    OBVIOUS
  <2>2. W * 100 + W <= W * h /\ W * h \in Int
    BY <2>1, TimesMore
  <2>3. 20 * (W * h) <= 2 * T + 10 * W
    BY <1>3 DEF Rounds
  <2> QED BY <1>1, <2>2, <2>3
<1>5. h = Hlt!HealthOf(x)
  BY <1>1, <1>2, <1>3, Zenon
<1> QED BY <1>1, <1>3, <1>4, <1>5

LEMMA PartBounds ==
  ASSUME NEW x, NEW f, NEW w \in Nat, w = Share(x, f), NEW p \in Nat, p = Part(x, f), NEW c \in Int,
         Hlt!FactorScore(x)[f] # None => Hlt!FactorScore(x)[f] \in Nat /\ Hlt!HealthWeight[f] \in Nat
  PROVE  /\ (Hlt!FactorScore(x)[f] # None => Hlt!FactorScore(x)[f] >= c) => p >= c * w
         /\ (Hlt!FactorScore(x)[f] # None => Hlt!FactorScore(x)[f] <= c) => p <= c * w
<1>1. CASE Hlt!FactorScore(x)[f] = None
  BY <1>1 DEF Share, Part
<1>2. CASE Hlt!FactorScore(x)[f] # None
  <2>1. PICK s \in Nat : s = Hlt!FactorScore(x)[f]
    BY <1>2
  <2>2. p = s * w
    BY <1>2, <2>1 DEF Share, Part
  <2>3. (s >= c => s * w >= c * w) /\ (s <= c => s * w <= c * w)
    OBVIOUS
  <2> QED BY <1>2, <2>1, <2>2, <2>3
<1> QED BY <1>1, <1>2

LEMMA TotalBounds ==
  ASSUME Hlt!HealthConstants, NEW x \in ChangedAccounts, NEW c \in Int,
         NEW T \in Nat, T = Parts(x), NEW W \in Nat, W = Shares(x)
  PROVE  /\ (\A f \in Hlt!Measured(x) : Hlt!FactorScore(x)[f] >= c) => T >= c * W
         /\ (\A f \in Hlt!Measured(x) : Hlt!FactorScore(x)[f] <= c) => T <= c * W
<1>0. \A f \in Hlt!Factors : Share(x, f) \in Nat /\ Part(x, f) \in Nat
  <2> TAKE f \in Hlt!Factors
  <2> QED BY PartsAreNumbers
<1>1. "sla" \in Hlt!Factors /\ "csat" \in Hlt!Factors /\ "budget" \in Hlt!Factors
      /\ "reopened" \in Hlt!Factors /\ "engagement" \in Hlt!Factors
  BY DEF Hlt!Factors
<1>2. PICK a1 \in Nat, a2 \in Nat, a3 \in Nat, a4 \in Nat, a5 \in Nat :
        /\ a1 = Share(x, "sla") /\ a2 = Share(x, "csat") /\ a3 = Share(x, "budget")
        /\ a4 = Share(x, "reopened") /\ a5 = Share(x, "engagement")
  BY <1>0, <1>1
<1>3. PICK b1 \in Nat, b2 \in Nat, b3 \in Nat, b4 \in Nat, b5 \in Nat :
        /\ b1 = Part(x, "sla") /\ b2 = Part(x, "csat") /\ b3 = Part(x, "budget")
        /\ b4 = Part(x, "reopened") /\ b5 = Part(x, "engagement")
  BY <1>0, <1>1
<1>4. W = a1 + a2 + a3 + a4 + a5 /\ T = b1 + b2 + b3 + b4 + b5
  BY <1>2, <1>3 DEF Shares, Parts
<1>5. c * (a1 + a2 + a3 + a4 + a5) = c * a1 + c * a2 + c * a3 + c * a4 + c * a5
  OBVIOUS
<1>6. ASSUME NEW f \in Hlt!Factors
      PROVE  /\ (\A g \in Hlt!Measured(x) : Hlt!FactorScore(x)[g] >= c) => Part(x, f) >= c * Share(x, f)
             /\ (\A g \in Hlt!Measured(x) : Hlt!FactorScore(x)[g] <= c) => Part(x, f) <= c * Share(x, f)
  <2>1. PICK w \in Nat, p \in Nat : w = Share(x, f) /\ p = Part(x, f)
    BY <1>0
  <2>2. Hlt!HealthWeight[f] \in Nat
    BY WeightsAreTens
  <2>3. Hlt!FactorScore(x)[f] # None => Hlt!FactorScore(x)[f] \in Nat /\ Hlt!HealthWeight[f] \in Nat
    BY <2>2, ScoresAreTenths, SMTT(30)
  <2>4. /\ (Hlt!FactorScore(x)[f] # None => Hlt!FactorScore(x)[f] >= c) => p >= c * w
        /\ (Hlt!FactorScore(x)[f] # None => Hlt!FactorScore(x)[f] <= c) => p <= c * w
    BY <2>1, <2>3, PartBounds
  <2>5. Hlt!FactorScore(x)[f] # None => f \in Hlt!Measured(x)
    BY DEF Hlt!Measured
  <2> QED BY <2>1, <2>4, <2>5
<1>7. ASSUME \A f \in Hlt!Measured(x) : Hlt!FactorScore(x)[f] >= c PROVE T >= c * W
  <2>1. b1 >= c * a1 /\ b2 >= c * a2 /\ b3 >= c * a3 /\ b4 >= c * a4 /\ b5 >= c * a5
    BY <1>1, <1>2, <1>3, <1>6, <1>7
  <2> QED BY <1>4, <1>5, <2>1
<1>8. ASSUME \A f \in Hlt!Measured(x) : Hlt!FactorScore(x)[f] <= c PROVE T <= c * W
  <2>1. b1 <= c * a1 /\ b2 <= c * a2 /\ b3 <= c * a3 /\ b4 <= c * a4 /\ b5 <= c * a5
    BY <1>1, <1>2, <1>3, <1>6, <1>8
  <2> QED BY <1>4, <1>5, <2>1
<1> QED BY <1>7, <1>8

(* The mean lies between the worst and the best of the scores.             *)
LEMMA MeanLiesBetween ==
  ASSUME Hlt!HealthConstants, NEW x \in ChangedAccounts, Hlt!Measured(x) # {}, NEW h \in Nat, h = Hlt!HealthOf(x)
  PROVE  /\ \E f \in Hlt!Measured(x) : Hlt!FactorScore(x)[f] <= 10 * h + 5
         /\ \E f \in Hlt!Measured(x) : Hlt!FactorScore(x)[f] >= 10 * h - 5
<1>1. PICK T \in Nat, W \in Nat : T = Parts(x) /\ W = Shares(x) /\ W >= 10 /\ Rounds(T, W, h)
  BY HealthIsAMean
<1>2. PICK P \in Nat : P = W * h
  OBVIOUS
<1>3. 20 * P <= 2 * T + 10 * W /\ 2 * T + 10 * W < 20 * P + 20 * W
  BY <1>1, <1>2 DEF Rounds
<1>4. \A f \in Hlt!Measured(x) : Hlt!FactorScore(x)[f] \in Nat
  BY PartsAreNumbers, SMTT(30) DEF Hlt!Measured
<1>5. (10 * h + 6) * W = 10 * P + 6 * W /\ (10 * h - 6) * W = 10 * P - 6 * W
  BY <1>2
<1>6. ASSUME \A f \in Hlt!Measured(x) : ~ (Hlt!FactorScore(x)[f] <= 10 * h + 5) PROVE FALSE
  <2>1. \A f \in Hlt!Measured(x) : Hlt!FactorScore(x)[f] >= 10 * h + 6
    BY <1>4, <1>6
  <2>2. PICK c \in Int : c = 10 * h + 6
    OBVIOUS
  <2>3. T >= c * W
    BY <1>1, <2>1, <2>2, TotalBounds
  <2> QED BY <1>1, <1>3, <1>5, <2>2, <2>3
<1>7. ASSUME \A f \in Hlt!Measured(x) : ~ (Hlt!FactorScore(x)[f] >= 10 * h - 5) PROVE FALSE
  <2>1. \A f \in Hlt!Measured(x) : Hlt!FactorScore(x)[f] <= 10 * h - 6
    BY <1>4, <1>7
  <2>2. PICK c \in Int : c = 10 * h - 6
    OBVIOUS
  <2>3. T <= c * W
    BY <1>1, <2>1, <2>2, TotalBounds
  <2> QED BY <1>1, <1>3, <1>5, <2>2, <2>3
<1> QED BY <1>6, <1>7

(* Where the accounts agree on all factors but one, the totals differ by    *)
(* that one.                                                               *)
LEMMA OneFactorDiffers ==
  ASSUME Hlt!HealthConstants, NEW x \in ChangedAccounts, NEW y \in ChangedAccounts, NEW f \in Hlt!Factors,
         \A g \in Hlt!Factors \ {f} : Hlt!FactorScore(x)[g] = Hlt!FactorScore(y)[g]
  PROVE  /\ Shares(x) - Share(x, f) = Shares(y) - Share(y, f)
         /\ Parts(x) - Part(x, f) = Parts(y) - Part(y, f)
<1>0. \A g \in Hlt!Factors : /\ Share(x, g) \in Nat /\ Part(x, g) \in Nat /\ Share(y, g) \in Nat /\ Part(y, g) \in Nat
  <2> TAKE g \in Hlt!Factors
  <2> QED BY PartsAreNumbers
<1>1. "sla" \in Hlt!Factors /\ "csat" \in Hlt!Factors /\ "budget" \in Hlt!Factors
      /\ "reopened" \in Hlt!Factors /\ "engagement" \in Hlt!Factors
  BY DEF Hlt!Factors
<1>2. \A g \in Hlt!Factors : g # f => Share(x, g) = Share(y, g) /\ Part(x, g) = Part(y, g)
  BY DEF Share, Part
<1>3. PICK a1 \in Nat, a2 \in Nat, a3 \in Nat, a4 \in Nat, a5 \in Nat :
        /\ a1 = Share(x, "sla") /\ a2 = Share(x, "csat") /\ a3 = Share(x, "budget")
        /\ a4 = Share(x, "reopened") /\ a5 = Share(x, "engagement")
  BY <1>0, <1>1
<1>4. PICK b1 \in Nat, b2 \in Nat, b3 \in Nat, b4 \in Nat, b5 \in Nat :
        /\ b1 = Share(y, "sla") /\ b2 = Share(y, "csat") /\ b3 = Share(y, "budget")
        /\ b4 = Share(y, "reopened") /\ b5 = Share(y, "engagement")
  BY <1>0, <1>1
<1>5. PICK c1 \in Nat, c2 \in Nat, c3 \in Nat, c4 \in Nat, c5 \in Nat :
        /\ c1 = Part(x, "sla") /\ c2 = Part(x, "csat") /\ c3 = Part(x, "budget")
        /\ c4 = Part(x, "reopened") /\ c5 = Part(x, "engagement")
  BY <1>0, <1>1
<1>6. PICK d1 \in Nat, d2 \in Nat, d3 \in Nat, d4 \in Nat, d5 \in Nat :
        /\ d1 = Part(y, "sla") /\ d2 = Part(y, "csat") /\ d3 = Part(y, "budget")
        /\ d4 = Part(y, "reopened") /\ d5 = Part(y, "engagement")
  BY <1>0, <1>1
<1>7. Shares(x) = a1 + a2 + a3 + a4 + a5 /\ Shares(y) = b1 + b2 + b3 + b4 + b5
  BY <1>3, <1>4 DEF Shares
<1>8. Parts(x) = c1 + c2 + c3 + c4 + c5 /\ Parts(y) = d1 + d2 + d3 + d4 + d5
  BY <1>5, <1>6 DEF Parts
<1>9. CASE f = "sla"
  <2>1. a2 = b2 /\ a3 = b3 /\ a4 = b4 /\ a5 = b5 /\ c2 = d2 /\ c3 = d3 /\ c4 = d4 /\ c5 = d5
    BY <1>1, <1>2, <1>3, <1>4, <1>5, <1>6, <1>9
  <2>2. Share(x, f) = a1 /\ Share(y, f) = b1 /\ Part(x, f) = c1 /\ Part(y, f) = d1
    BY <1>3, <1>4, <1>5, <1>6, <1>9
  <2> QED BY <1>7, <1>8, <2>1, <2>2
<1>10. CASE f = "csat"
  <2>1. a1 = b1 /\ a3 = b3 /\ a4 = b4 /\ a5 = b5 /\ c1 = d1 /\ c3 = d3 /\ c4 = d4 /\ c5 = d5
    BY <1>1, <1>2, <1>3, <1>4, <1>5, <1>6, <1>10
  <2>2. Share(x, f) = a2 /\ Share(y, f) = b2 /\ Part(x, f) = c2 /\ Part(y, f) = d2
    BY <1>3, <1>4, <1>5, <1>6, <1>10
  <2> QED BY <1>7, <1>8, <2>1, <2>2
<1>11. CASE f = "budget"
  <2>1. a2 = b2 /\ a1 = b1 /\ a4 = b4 /\ a5 = b5 /\ c2 = d2 /\ c1 = d1 /\ c4 = d4 /\ c5 = d5
    BY <1>1, <1>2, <1>3, <1>4, <1>5, <1>6, <1>11
  <2>2. Share(x, f) = a3 /\ Share(y, f) = b3 /\ Part(x, f) = c3 /\ Part(y, f) = d3
    BY <1>3, <1>4, <1>5, <1>6, <1>11
  <2> QED BY <1>7, <1>8, <2>1, <2>2
<1>12. CASE f = "reopened"
  <2>1. a2 = b2 /\ a3 = b3 /\ a1 = b1 /\ a5 = b5 /\ c2 = d2 /\ c3 = d3 /\ c1 = d1 /\ c5 = d5
    BY <1>1, <1>2, <1>3, <1>4, <1>5, <1>6, <1>12
  <2>2. Share(x, f) = a4 /\ Share(y, f) = b4 /\ Part(x, f) = c4 /\ Part(y, f) = d4
    BY <1>3, <1>4, <1>5, <1>6, <1>12
  <2> QED BY <1>7, <1>8, <2>1, <2>2
<1>13. CASE f = "engagement"
  <2>1. a2 = b2 /\ a3 = b3 /\ a4 = b4 /\ a1 = b1 /\ c2 = d2 /\ c3 = d3 /\ c4 = d4 /\ c1 = d1
    BY <1>1, <1>2, <1>3, <1>4, <1>5, <1>6, <1>13
  <2>2. Share(x, f) = a5 /\ Share(y, f) = b5 /\ Part(x, f) = c5 /\ Part(y, f) = d5
    BY <1>3, <1>4, <1>5, <1>6, <1>13
  <2> QED BY <1>7, <1>8, <2>1, <2>2
<1> QED BY <1>9, <1>10, <1>11, <1>12, <1>13 DEF Hlt!Factors

(* A factor's score rests on the facts of its own.                         *)
LEMMA FactorsRestOnFacts ==
  ASSUME NEW x, NEW y
  PROVE  /\ x.met = y.met => Hlt!FactorScore(x)["sla"] = Hlt!FactorScore(y)["sla"]
         /\ x.csat = y.csat => Hlt!FactorScore(x)["csat"] = Hlt!FactorScore(y)["csat"]
         /\ x.position = y.position => Hlt!FactorScore(x)["budget"] = Hlt!FactorScore(y)["budget"]
         /\ x.reopened = y.reopened => Hlt!FactorScore(x)["reopened"] = Hlt!FactorScore(y)["reopened"]
         /\ x.portal = y.portal /\ x.signins = y.signins /\ x.answered = y.answered =>
              Hlt!FactorScore(x)["engagement"] = Hlt!FactorScore(y)["engagement"]
<1>1. ASSUME x.met = y.met PROVE Hlt!FactorScore(x)["sla"] = Hlt!FactorScore(y)["sla"]
  BY <1>1 DEF Hlt!FactorScore
<1>2. ASSUME x.csat = y.csat PROVE Hlt!FactorScore(x)["csat"] = Hlt!FactorScore(y)["csat"]
  BY <1>2 DEF Hlt!FactorScore
<1>3. ASSUME x.position = y.position PROVE Hlt!FactorScore(x)["budget"] = Hlt!FactorScore(y)["budget"]
  BY <1>3 DEF Hlt!FactorScore
<1>4. ASSUME x.reopened = y.reopened PROVE Hlt!FactorScore(x)["reopened"] = Hlt!FactorScore(y)["reopened"]
  BY <1>4 DEF Hlt!FactorScore
<1>5. ASSUME x.portal = y.portal, x.signins = y.signins, x.answered = y.answered
      PROVE  Hlt!FactorScore(x)["engagement"] = Hlt!FactorScore(y)["engagement"]
  <2>1. Visits(x) = Visits(y) /\ Answers(x) = Answers(y)
    <3>1. Answers(x) = Answers(y)
      BY <1>5, ZenonT(60) DEF Answers
    <3>2. Hlt!Signins(x) = Hlt!Signins(y)
      BY <1>5 DEF Hlt!Signins
    <3>3. Visits(x) = Visits(y)
      BY <3>2, ZenonT(60) DEF Visits
    <3> QED BY <3>1, <3>3
  <2>2. x.portal <=> y.portal
    BY <1>5
  <2> QED BY <1>5, <2>1, <2>2, EngagementOf
<1> QED BY <1>1, <1>2, <1>3, <1>4, <1>5

LEMMA OneFactOneFactor ==
  ASSUME NEW x, NEW y, NEW fact \in AccountFacts, \A other \in AccountFacts \ {fact} : x[other] = y[other]
  PROVE  \E f \in Hlt!Factors : \A g \in Hlt!Factors \ {f} : Hlt!FactorScore(x)[g] = Hlt!FactorScore(y)[g]
<1> DEFINE Same(g) == Hlt!FactorScore(x)[g] = Hlt!FactorScore(y)[g]
<1>1. /\ fact # "met" => Same("sla")
      /\ fact # "csat" => Same("csat")
      /\ fact # "position" => Same("budget")
      /\ fact # "reopened" => Same("reopened")
      /\ fact \notin {"portal", "signins", "answered"} => Same("engagement")
  BY FactorsRestOnFacts DEF AccountFacts
<1> HIDE DEF Same
<1>2. \E f \in Hlt!Factors : \A g \in Hlt!Factors \ {f} : Same(g)
  BY <1>1 DEF AccountFacts, Hlt!Factors
<1> QED BY <1>2 DEF Same

(* A better score of the same weight never lowers the mean.                *)
LEMMA MeanGrows ==
  ASSUME NEW T \in Nat, NEW U \in Nat, NEW W \in Nat, NEW h \in Nat, NEW k \in Nat,
         Rounds(T, W, h), Rounds(U, W, k), T <= U, W >= 1
  PROVE  h <= k
<1>1. SUFFICES ASSUME k < h PROVE FALSE
  OBVIOUS
<1>2. PICK P \in Int, Q \in Int : P = W * h /\ Q = W * k
  OBVIOUS
<1>3. Q + W <= P
  BY <1>1, <1>2, TimesMore
<1>4. 20 * P <= 2 * T + 10 * W /\ 2 * U + 10 * W < 20 * Q + 20 * W
  BY <1>2 DEF Rounds
<1> QED BY <1>3, <1>4

(* What a score adds by its weight.                                        *)
Weighs(A, s, w) == A = s * w

(* One more score draws the mean towards itself.                           *)
LEMMA MeanIsDrawn ==
  ASSUME NEW T \in Nat, NEW U \in Nat, NEW W \in Nat, NEW V \in Nat,
         NEW h \in Nat, NEW k \in Nat, NEW s \in Nat, NEW w \in Nat,
         NEW A \in Nat, Weighs(A, s, w), Rounds(T, W, h), Rounds(U, V, k), V = W + w, U = T + A, W >= 1
  PROVE  /\ s > 10 * h + 5 => k >= h
         /\ s + 5 < 10 * h => k <= h
<1>1. PICK P \in Int, Q \in Int, R \in Int, S \in Int : P = W * h /\ Q = V * k /\ R = V * h /\ S = w * h
  OBVIOUS
<1>2. R = P + S
  BY <1>1
<1>3. 20 * P <= 2 * T + 10 * W /\ 2 * T + 10 * W < 20 * P + 20 * W
  BY <1>1 DEF Rounds
<1>4. 20 * Q <= 2 * U + 10 * V /\ 2 * U + 10 * V < 20 * Q + 20 * V
  BY <1>1 DEF Rounds
<1>6. ASSUME s > 10 * h + 5, k < h PROVE FALSE
  <2>1. Q + V <= R
    BY <1>1, <1>6, TimesMore
  <2>2. s * w >= 10 * (w * h) + 6 * w
    <3>1. PICK c \in Nat : s = 10 * h + 6 + c
      <4>1. s - (10 * h + 6) \in Nat /\ s = 10 * h + 6 + (s - (10 * h + 6))
        BY <1>6
      <4> QED BY <4>1
    <3>2. (10 * h + 6 + c) * w = 10 * (w * h) + 6 * w + c * w /\ c * w \in Nat
      OBVIOUS
    <3>3. w * h \in Nat
      OBVIOUS
    <3> QED BY <3>1, <3>2, <3>3
  <2>3. A >= 10 * S + 6 * w
    BY <1>1, <2>2 DEF Weighs
  <2>4. 2 * U = 2 * T + 2 * A /\ 10 * V = 10 * W + 10 * w
    OBVIOUS
  <2> QED BY <1>2, <1>3, <1>4, <2>1, <2>3, <2>4
<1>7. ASSUME s + 5 < 10 * h, h < k PROVE FALSE
  <2>1. R + V <= Q
    BY <1>1, <1>7, TimesMore
  <2>2. s * w + 6 * w <= 10 * (w * h)
    <3>1. PICK c \in Nat : 10 * h = s + 6 + c
      <4>1. 10 * h - (s + 6) \in Nat /\ 10 * h = s + 6 + (10 * h - (s + 6))
        BY <1>7
      <4> QED BY <4>1
    <3>2. (s + 6 + c) * w = s * w + 6 * w + c * w /\ c * w \in Nat /\ s * w \in Nat
      OBVIOUS
    <3>3. (10 * h) * w = 10 * (w * h) /\ w * h \in Nat
      OBVIOUS
    <3> QED BY <3>1, <3>2, <3>3
  <2>3. A + 6 * w <= 10 * S
    BY <1>1, <2>2 DEF Weighs
  <2>4. 2 * U = 2 * T + 2 * A /\ 10 * V = 10 * W + 10 * w
    OBVIOUS
  <2> QED BY <1>2, <1>3, <1>4, <2>1, <2>3, <2>4
<1> QED BY <1>6, <1>7

(* So much for a factor of which the score changed.                        *)
LEMMA ScoreFollows ==
  ASSUME Hlt!HealthConstants, NEW x \in ChangedAccounts, NEW y \in ChangedAccounts, NEW f \in Hlt!Factors,
         \A g \in Hlt!Factors \ {f} : Hlt!FactorScore(x)[g] = Hlt!FactorScore(y)[g],
         Hlt!Measured(y) # {}, Hlt!FactorScore(x)[f] # None
  PROVE  LET old == Hlt!FactorScore(y)[f]
             new == Hlt!FactorScore(x)[f]
             before == Hlt!HealthOf(y)
             after == Hlt!HealthOf(x)
         IN  /\ old # None => (new > old => after >= before) /\ (new < old => after <= before)
             /\ old = None => (new > 10 * before + 5 => after >= before) /\ (new + 5 < 10 * before => after <= before)
<1>1. PICK T \in Nat, W \in Nat, h \in Nat :
           /\ T = Parts(y) /\ W = Shares(y) /\ h = Hlt!HealthOf(y) /\ W >= 10 /\ Rounds(T, W, h)
  BY HealthIsAMean
<1>2. Hlt!Measured(x) # {}
  BY DEF Hlt!Measured
<1>3. PICK U \in Nat, V \in Nat, k \in Nat :
           /\ U = Parts(x) /\ V = Shares(x) /\ k = Hlt!HealthOf(x) /\ V >= 10 /\ Rounds(U, V, k)
  BY <1>2, HealthIsAMean
<1>4. PICK w \in Nat : w = Hlt!HealthWeight[f]
  BY WeightsAreTens
<1>5. PICK s \in Nat : s = Hlt!FactorScore(x)[f]
  BY ScoresAreTenths, SMTT(30)
<1>6. Share(x, f) = w /\ Part(x, f) = s * w
  BY <1>4, <1>5 DEF Share, Part
<1>7. /\ Shares(x) - Share(x, f) = Shares(y) - Share(y, f)
      /\ Parts(x) - Part(x, f) = Parts(y) - Part(y, f)
  BY OneFactorDiffers
<1>8. PICK A \in Nat : A = s * w
  OBVIOUS
<1>9. V - w = W - Share(y, f) /\ U - A = T - Part(y, f)
  BY <1>1, <1>3, <1>6, <1>7, <1>8
<1>10. CASE Hlt!FactorScore(y)[f] # None
  <2>1. PICK r \in Nat : r = Hlt!FactorScore(y)[f]
    <3>1. Hlt!FactorScore(y)[f] \in (0 .. 1000) \cup {None}
      BY ScoresAreTenths
    <3> QED BY <1>10, <3>1, SMTT(30)
  <2>2. PICK B \in Nat : B = r * w
    OBVIOUS
  <2>3. Share(y, f) = w /\ Part(y, f) = B
    BY <1>4, <1>10, <2>1, <2>2 DEF Share, Part
  <2>4. V = W /\ U - A = T - B
    BY <1>9, <2>3
  <2>5. (s > r => B <= A) /\ (s < r => A <= B)
    BY <1>8, <2>2
  <2>6. s > r => h <= k
    <3>1. s > r => T <= U
      BY <2>4, <2>5
    <3> QED BY <1>1, <1>3, <2>4, <3>1, MeanGrows
  <2>7. s < r => k <= h
    <3>1. s < r => U <= T
      BY <2>4, <2>5
    <3> QED BY <1>1, <1>3, <2>4, <3>1, MeanGrows
  <2> QED BY <1>1, <1>3, <1>5, <1>10, <2>1, <2>6, <2>7
<1>11. CASE Hlt!FactorScore(y)[f] = None
  <2>1. Share(y, f) = 0 /\ Part(y, f) = 0
    BY <1>11 DEF Share, Part
  <2>2. V = W + w /\ U = T + A /\ W >= 1 /\ Weighs(A, s, w)
    BY <1>1, <1>8, <1>9, <2>1 DEF Weighs
  <2>3. (s > 10 * h + 5 => k >= h) /\ (s + 5 < 10 * h => k <= h)
    BY <1>1, <1>3, <2>2, MeanIsDrawn
  <2> QED BY <1>1, <1>3, <1>5, <1>11, <2>3
<1> QED BY <1>10, <1>11

LEMMA AccountsMayChange ==
  Hlt!Accounts \subseteq ChangedAccounts
BY DEF Hlt!Accounts, ChangedAccounts

LEMMA HealthStarts ==
  ASSUME Hlt!AccountInit
  PROVE  HealthInv
<1>1. v1 \in Hlt!Accounts /\ v2 = None
  BY DEF Hlt!AccountInit
<1> QED BY <1>1, AccountsMayChange DEF HealthInv

LEMMA OneFactChanges ==
  ASSUME NEW a \in Hlt!Accounts, NEW b, NEW fact \in AccountFacts, b \in ChangedAccounts,
         \A other \in AccountFacts \ {fact} : b[other] = a[other], v1' = b, v2' = a, Hlt!HealthConstants
  PROVE  HealthInv'
<1>1. a # None /\ a \in ChangedAccounts
  BY AccountsMayChange DEF Hlt!HealthConstants
<1>2. v1' \in ChangedAccounts /\ v2' # None /\ v2' \in ChangedAccounts
  BY <1>1
<1>3. \E g \in AccountFacts : \A other \in AccountFacts \ {g} : v1'[other] = v2'[other]
  OBVIOUS
<1> QED BY <1>2, <1>3 DEF HealthInv

LEMMA HealthStep ==
  ASSUME HealthInv, Hlt!HealthConstants, Hlt!AccountNext
  PROVE  HealthInv'
<1>1. v2 = None /\ v2' = v1
  BY DEF Hlt!AccountNext, Hlt!FactChanges
<1>2. PICK a \in Hlt!Accounts : a = v1
  BY <1>1 DEF HealthInv
<1>3. a \in ChangedAccounts
  BY AccountsMayChange
<1>4. ASSUME NEW r \in Hlt!Ratios, v1' = [v1 EXCEPT !.met = r] PROVE HealthInv'
  <2>1. PICK b : b = [a EXCEPT !.met = r]
    OBVIOUS
  <2>2. b \in ChangedAccounts /\ \A other \in AccountFacts \ {"met"} : b[other] = a[other]
    BY <1>3, <2>1 DEF ChangedAccounts, AccountFacts
  <2>3. "met" \in AccountFacts
    BY DEF AccountFacts
  <2> QED BY <1>1, <1>2, <1>4, <2>1, <2>2, <2>3, OneFactChanges
<1>5. ASSUME NEW r \in Hlt!Ratios, v1' = [v1 EXCEPT !.reopened = r] PROVE HealthInv'
  <2>1. PICK b : b = [a EXCEPT !.reopened = r]
    OBVIOUS
  <2>2. b \in ChangedAccounts /\ \A other \in AccountFacts \ {"reopened"} : b[other] = a[other]
    BY <1>3, <2>1 DEF ChangedAccounts, AccountFacts
  <2>3. "reopened" \in AccountFacts
    BY DEF AccountFacts
  <2> QED BY <1>1, <1>2, <1>5, <2>1, <2>2, <2>3, OneFactChanges
<1>6. ASSUME NEW mean \in {10, 50}, v1' = [v1 EXCEPT !.csat = mean] PROVE HealthInv'
  <2>1. PICK b : b = [a EXCEPT !.csat = mean]
    OBVIOUS
  <2>2. b \in ChangedAccounts /\ \A other \in AccountFacts \ {"csat"} : b[other] = a[other]
    BY <1>3, <2>1 DEF ChangedAccounts, AccountFacts
  <2>3. "csat" \in AccountFacts
    BY DEF AccountFacts
  <2> QED BY <1>1, <1>2, <1>6, <2>1, <2>2, <2>3, OneFactChanges
<1>7. ASSUME NEW n \in {0, 3, 6}, v1.position # Hlt!NoBudget, v1' = [v1 EXCEPT !.position.consumed = n] PROVE HealthInv'
  <2>1. PICK p : p = [a.position EXCEPT !.consumed = n]
    OBVIOUS
  <2>2. PICK b : b = [a EXCEPT !.position = p]
    OBVIOUS
  <2>3. p \in [available : {4}, consumed : {0, 3, 6}, days : {4}, passed : {1, 3}]
    <3>1. a.position \in [available : {4}, consumed : {0, 3, 6}, days : {4}, passed : {1, 3}]
      BY <1>2, <1>3, <1>7 DEF ChangedAccounts
    <3> QED BY <2>1, <3>1
  <2>4. b \in ChangedAccounts /\ \A other \in AccountFacts \ {"position"} : b[other] = a[other]
    BY <1>3, <2>2, <2>3 DEF ChangedAccounts, AccountFacts
  <2>5. "position" \in AccountFacts
    BY DEF AccountFacts
  <2>6. v1' = b
    BY <1>2, <1>7, <2>1, <2>2
  <2> QED BY <1>1, <1>2, <2>4, <2>5, <2>6, OneFactChanges
<1>8. ASSUME v1' = [v1 EXCEPT !.portal = ~@] PROVE HealthInv'
  <2>1. PICK b : b = [a EXCEPT !.portal = ~@]
    OBVIOUS
  <2>2. b \in ChangedAccounts /\ \A other \in AccountFacts \ {"portal"} : b[other] = a[other]
    BY <1>3, <2>1 DEF ChangedAccounts, AccountFacts
  <2>3. "portal" \in AccountFacts
    BY DEF AccountFacts
  <2> QED BY <1>1, <1>2, <1>8, <2>1, <2>2, <2>3, OneFactChanges
<1>9. ASSUME NEW r \in {<<0, 0>>, <<0, 2>>, <<1, 2>>}, v1' = [v1 EXCEPT !.answered = r] PROVE HealthInv'
  <2>1. PICK b : b = [a EXCEPT !.answered = r]
    OBVIOUS
  <2>2. b \in ChangedAccounts /\ \A other \in AccountFacts \ {"answered"} : b[other] = a[other]
    BY <1>3, <2>1 DEF ChangedAccounts, AccountFacts
  <2>3. "answered" \in AccountFacts
    BY DEF AccountFacts
  <2> QED BY <1>1, <1>2, <1>9, <2>1, <2>2, <2>3, OneFactChanges
<1> QED BY <1>4, <1>5, <1>6, <1>7, <1>8, <1>9 DEF Hlt!AccountNext, Hlt!FactChanges

LEMMA HealthMeans ==
  ASSUME HealthInv, Hlt!HealthConstants
  PROVE  Hlt!ScoreFollowsFactors /\ Hlt!ScoreIsAMean
<1>1. PICK x \in ChangedAccounts : x = v1
  BY DEF HealthInv
<1>2. Hlt!ScoreFollowsFactors
  <2>1. SUFFICES ASSUME v2 # None, Hlt!HealthOf(v2) # None, NEW f \in Hlt!Factors,
                        Hlt!FactorScore(v2)[f] # Hlt!FactorScore(v1)[f]
        PROVE  LET old == Hlt!FactorScore(v2)[f]
                   new == Hlt!FactorScore(v1)[f]
                   before == Hlt!HealthOf(v2)
                   after == Hlt!HealthOf(v1)
               IN  /\ old # None /\ new # None => (new > old => after >= before) /\ (new < old => after <= before)
                   /\ old = None => (new > 10 * before + 5 => after >= before) /\ (new + 5 < 10 * before => after <= before)
    BY Zenon DEF Hlt!ScoreFollowsFactors
  <2>2. PICK y \in ChangedAccounts : y = v2
    BY <2>1 DEF HealthInv
  <2>3. PICK fact \in AccountFacts : \A other \in AccountFacts \ {fact} : x[other] = y[other]
    BY <1>1, <2>1, <2>2 DEF HealthInv
  <2>4. PICK g \in Hlt!Factors : \A h \in Hlt!Factors \ {g} : Hlt!FactorScore(x)[h] = Hlt!FactorScore(y)[h]
    BY <2>3, OneFactOneFactor
  <2>5. g = f
    BY <1>1, <2>1, <2>2, <2>4
  <2>6. Hlt!Measured(y) # {}
    BY <2>1, <2>2, Zenon DEF Hlt!HealthOf
  <2>7. CASE Hlt!FactorScore(x)[f] = None
    BY <1>1, <2>1, <2>2, <2>7
  <2>8. CASE Hlt!FactorScore(x)[f] # None
    <3>1. LET old == Hlt!FactorScore(y)[f]
              new == Hlt!FactorScore(x)[f]
              before == Hlt!HealthOf(y)
              after == Hlt!HealthOf(x)
          IN  /\ old # None => (new > old => after >= before) /\ (new < old => after <= before)
              /\ old = None => (new > 10 * before + 5 => after >= before) /\ (new + 5 < 10 * before => after <= before)
      BY <2>4, <2>5, <2>6, <2>8, ScoreFollows
    <3> QED BY <1>1, <2>2, <3>1, Zenon
  <2> QED BY <2>7, <2>8
<1>3. Hlt!ScoreIsAMean
  <2>1. CASE Hlt!Measured(x) = {}
    <3>1. Hlt!HealthOf(x) = None /\ Hlt!HealthBand(x) = "unrated"
      BY <2>1, Zenon DEF Hlt!HealthOf, Hlt!HealthBand
    <3>2. Hlt!MeasuredWeight(x) = 0
      BY <2>1, PartsAddUp, HealthIsRounded
    <3>3. {Hlt!FactorScore(v1)[f] : f \in Hlt!Measured(v1)} = {}
      BY <1>1, <2>1
    <3> QED BY <1>1, <3>1, <3>2, <3>3 DEF Hlt!ScoreIsAMean
  <2>2. CASE Hlt!Measured(x) # {}
    <3>1. PICK T \in Nat, W \in Nat, h \in Nat :
               /\ T = Parts(x) /\ W = Shares(x) /\ h = Hlt!HealthOf(x) /\ W >= 10 /\ W <= 100
      BY <2>2, HealthIsAMean
    <3>2. Hlt!MeasuredWeight(x) \in 10 .. 100
      BY <3>1, HealthIsRounded
    <3>3. /\ \E f \in Hlt!Measured(x) : Hlt!FactorScore(x)[f] <= 10 * Hlt!HealthOf(x) + 5
          /\ \E f \in Hlt!Measured(x) : Hlt!FactorScore(x)[f] >= 10 * Hlt!HealthOf(x) - 5
      <4>1. /\ \E f \in Hlt!Measured(x) : Hlt!FactorScore(x)[f] <= 10 * h + 5
            /\ \E f \in Hlt!Measured(x) : Hlt!FactorScore(x)[f] >= 10 * h - 5
        BY <2>2, <3>1, MeanLiesBetween
      <4> QED BY <3>1, <4>1
    <3>4. {Hlt!FactorScore(x)[f] : f \in Hlt!Measured(x)} # {}
      BY <2>2
    <3> QED BY <1>1, <3>2, <3>3, <3>4 DEF Hlt!ScoreIsAMean
  <2> QED BY <2>1, <2>2
<1> QED BY <1>2, <1>3

-----------------------------------------------------------------------------
(* The parts together                                                      *)

ReportsInv ==
  /\ part \in {"schedule", "review", "figures", "health"}
  /\ part = "schedule" => ScheduleInv
  /\ part = "review" => ReviewInv
  /\ part = "figures" => FiguresInv
  /\ part = "health" => HealthInv

LEMMA ReportsStart ==
  ASSUME Sch!ScheduleConstants, Rev!ReviewConstants, Fig!FiguresConstants, Hlt!HealthConstants, ReportsInit
  PROVE  ReportsInv
<1>1. CASE part = "schedule" /\ Sch!ScheduleInit
  BY <1>1, ScheduleStarts DEF ReportsInv
<1>2. CASE part = "review" /\ Rev!ReviewInit
  BY <1>2, ReviewStarts DEF ReportsInv
<1>3. CASE part = "figures" /\ Fig!FiguresInit
  BY <1>3, FiguresStart DEF ReportsInv
<1>4. CASE part = "health" /\ Hlt!AccountInit
  BY <1>4, HealthStarts DEF ReportsInv
<1> QED BY <1>1, <1>2, <1>3, <1>4 DEF ReportsInit

LEMMA ReportsRest ==
  ASSUME ReportsInv, UNCHANGED vars
  PROVE  ReportsInv'
<1>1. UNCHANGED <<part, v1, v2, v3, v4, v5, v6, v7, v8, v9, v10>>
  BY DEF vars
<1>2. ScheduleInv => ScheduleInv'
  BY <1>1 DEF ScheduleInv, ScheduleShape, RunFits, NextIsNear, RunsTakeTurns, PeriodsToCome, HearsOf
<1>3. ReviewInv => ReviewInv'
  <2>1. UNCHANGED <<ReviewShape, SentWasDecided>>
    BY <1>1 DEF ReviewShape, SentWasDecided
  <2>2. \A t \in Requests : ReviewerFits(t)' <=> ReviewerFits(t)
    BY <1>1 DEF ReviewerFits
  <2>3. ReviewersTakeTurns' <=> ReviewersTakeTurns
    BY <1>1 DEF ReviewersTakeTurns, Reviewing, StoredFits
  <2> QED BY <2>1, <2>2, <2>3 DEF ReviewInv
<1>4. FiguresInv => FiguresInv'
  <2>1. FiguresShape' <=> FiguresShape
    BY <1>1 DEF FiguresShape
  <2>2. \A k \in Reported : FactFits(k)' <=> FactFits(k)
    BY <1>1 DEF FactFits
  <2>3. \A n \in DOMAIN v4 : PackFits(n)' <=> PackFits(n)
    BY <1>1 DEF PackFits, OpenedIn, ResolvedIn, LinesIn, ReopenedSince, ReopenedAfter, Base
  <2>4. \A d \in 0 .. LastReportDay : SnapshotFits(d)' <=> SnapshotFits(d)
    BY <1>1 DEF SnapshotFits, ReopenedAfter
  <2>5. \A m, n \in DOMAIN v4 : PacksAgree(m, n)' <=> PacksAgree(m, n)
    BY <1>1 DEF PacksAgree, Base
  <2> QED BY <1>1, <2>1, <2>2, <2>3, <2>4, <2>5 DEF FiguresInv
<1>5. HealthInv => HealthInv'
  BY <1>1 DEF HealthInv
<1> QED BY <1>1, <1>2, <1>3, <1>4, <1>5 DEF ReportsInv

LEMMA ReportsStep ==
  ASSUME ReportsInv, Sch!ScheduleConstants, Rev!ReviewConstants, Fig!FiguresConstants, Hlt!HealthConstants,
         [ReportsNext /\ UNCHANGED part]_vars
  PROVE  ReportsInv'
<1>1. CASE UNCHANGED vars
  BY <1>1, ReportsRest
<1>2. CASE part = "schedule" /\ Sch!ScheduleNext /\ UNCHANGED part
  BY <1>2, ScheduleStep DEF ReportsInv
<1>3. CASE part = "review" /\ Rev!ReviewNext /\ UNCHANGED part
  BY <1>3, ReviewStep DEF ReportsInv
<1>4. CASE part = "figures" /\ Fig!FiguresNext /\ UNCHANGED part
  BY <1>4, FiguresStep DEF ReportsInv
<1>5. CASE part = "health" /\ Hlt!AccountNext /\ UNCHANGED part
  BY <1>5, HealthStep DEF ReportsInv
<1> QED BY <1>1, <1>2, <1>3, <1>4, <1>5 DEF ReportsNext

(* What holds of a schedule's row and the runs of its periods               *)
(* (schedules.module.ts runDue, runNow, patch), of a held run, its narrative *)
(* and files (approve, editNarrative, regenerate, cancel, expireReviews), of *)
(* the packs, snapshots and tickets they count (reporting.service.ts        *)
(* generateWsr, buildQbr), and of an account of which one fact changed, at  *)
(* every step.                                                             *)
THEOREM ReportsInvariant ==
  ASSUME Sch!ScheduleConstants, Rev!ReviewConstants, Fig!FiguresConstants, Hlt!HealthConstants
  PROVE  ReportsSpec => []ReportsInv
<1>1. ReportsInit => ReportsInv
  BY ReportsStart
<1>2. ReportsInv /\ [ReportsNext /\ UNCHANGED part]_vars => ReportsInv'
  BY ReportsStep
<1> QED BY <1>1, <1>2, PTL DEF ReportsSpec

(* For any requests, reviewers, instants, tickets, days and period lengths:  *)
(* a held report is decided for good, by a second reader, and sent once and *)
(* as it was last edited while reviewers take turns (schedules.module.ts    *)
(* approve, expireReviews); the job builds the pack of a period once, and an *)
(* enabled schedule has a next instant (runDue, patch); a line of time is    *)
(* reported in one pack, and packs and snapshots of one period agree unless  *)
(* a ticket was reopened (reporting.service.ts generateWsr, buildQbr); the   *)
(* health score lies among the scores of its factors and follows the one    *)
(* that changed (health.ts computeHealth).                                 *)
THEOREM ReportsAreKept ==
  ASSUME Sch!ScheduleConstants, Rev!ReviewConstants, Fig!FiguresConstants, Hlt!HealthConstants
  PROVE  ReportsSpec => []ReportsHold
<1>1. ReportsInv => ReportsHold
  BY ScheduleMeans, ReviewMeans, FiguresMean, HealthMeans DEF ReportsInv, ReportsHold
<1> QED BY <1>1, ReportsInvariant, PTL
=============================================================================
