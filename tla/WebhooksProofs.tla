--------------------------- MODULE WebhooksProofs ---------------------------
(***************************************************************************)
(* Proofs about one webhook subscription and its deliveries: for every set *)
(* of events, every finite set of delivery transactions, every ladder      *)
(* length and every pause threshold; at the end, about the endpoints of    *)
(* WebhookAdmin, for every set of keys, endpoints, accounts and requests.  *)
(***************************************************************************)
EXTENDS Webhooks, SequenceTheorems, FiniteSetTheorems, TLAPS

USE MaxAttemptsAssumption, PauseAfterAssumption, BoundsAssumption, NoneAssumption,
    WorkersAssumption

-----------------------------------------------------------------------------
(* What a transaction keeps of event e: a claimed row, the attempt under way *)
(* or an uncommitted row.                                                    *)
Keeps(w, e) == e \in todo[w] \/ hand[w] = e \/ wrote[w][e] # "none"
Resends(w) == kind[w] \in {"retry", "replay"}

(* A transaction takes an event through claim, attempt and row in this      *)
(* order, and only an open one that is past its checks calls or writes.     *)
TransactionsAreOrderly ==
  \A w \in Workers :
    /\ todo[w] # {} => kind[w] = "retry"
    /\ hand[w] # NoEvent => kind[w] # "idle"
    /\ answer[w] # "none" => hand[w] # NoEvent /\ kind[w] # "claiming"
    /\ hand[w] \notin todo[w]
    /\ \A e \in Events :
         wrote[w][e] # "none" =>
           kind[w] \in {"first", "retry", "replay"} /\ e \notin todo[w] /\ hand[w] # e

(* The locks on the delivery rows: a row has one claimant, and stays as it   *)
(* was claimed until that transaction ends.                                  *)
ClaimsAreExclusive ==
  \A e \in Events, v, w \in Workers :
    Resends(v) /\ Resends(w) /\ Keeps(v, e) /\ Keeps(w, e) => v = w

ClaimedRowsStay ==
  \A e \in Events, w \in Workers :
    Keeps(w, e) =>
      /\ kind[w] = "retry" => Latest(e) = "retrying"
      /\ kind[w] = "replay" => Latest(e) = "dead_lettered"

(* The unique key of the attempt: one uncommitted row per event, a first     *)
(* attempt only where there is none yet, and its status fits its number.     *)
OneUncommittedRow ==
  \A e \in Events, v, w \in Workers :
    wrote[v][e] # "none" /\ wrote[w][e] # "none" => v = w

UncommittedRowsFit ==
  \A e \in Events, w \in Workers :
    /\ wrote[w][e] # "replayed"
    /\ wrote[w][e] # "none" /\ kind[w] = "first" => log[e] = <<>>
    /\ wrote[w][e] = "dropped" => kind[w] = "retry"
    /\ wrote[w][e] = "retrying" => Len(log[e]) + 1 < MaxAttempts
    /\ wrote[w][e] = "dead_lettered" => Len(log[e]) + 1 >= MaxAttempts

LadderInv ==
  /\ TypeOK
  /\ TransactionsAreOrderly
  /\ ClaimsAreExclusive
  /\ ClaimedRowsStay
  /\ OneUncommittedRow
  /\ UncommittedRowsFit
  /\ OneLadderPerEvent

-----------------------------------------------------------------------------
(* Types *)

LEMMA CountedIsSubscription ==
  ASSUME NEW s \in Subscription, NEW verdict
  PROVE  Counted(s, verdict) \in Subscription
BY DEF Counted, Subscription

LEMMA VerdictIsStatus ==
  ASSUME NEW n, NEW result
  PROVE  Verdict(n, result) \in RowStatuses \ {"replayed"}
BY DEF Verdict, RowStatuses

LEMMA ExtendedIsSeq ==
  ASSUME NEW rows \in Seq(RowStatuses), NEW status \in RowStatuses \cup {"none", "dropped"}
  PROVE  Extended(rows, status) \in Seq(RowStatuses)
<1> DEFINE marked == IF rows = <<>> THEN rows ELSE [rows EXCEPT ![Len(rows)] = "replayed"]
<1>1. marked \in Seq(RowStatuses)
  BY ExceptSeq DEF RowStatuses
<1>2. status \in RowStatuses => Append(marked, status) \in Seq(RowStatuses)
  BY <1>1
<1> QED
  BY <1>1, <1>2 DEF Extended

LEMMA SeenIsSubscription ==
  ASSUME TypeOK, NEW w \in Workers
  PROVE  SubSeenBy(w) \in Subscription
BY DEF TypeOK, SubSeenBy

LEMMA InitType == Init => TypeOK
BY DEF Init, TypeOK, Fresh, NothingWritten, Subscription, RowStatuses

LEMMA ClosedType ==
  ASSUME TypeOK, NEW w \in Workers, Closed(w)
  PROVE  /\ kind' \in [Workers -> {"idle", "first", "retry", "replay", "claiming"}]
         /\ todo' \in [Workers -> SUBSET Events]
         /\ hand' \in [Workers -> Events \cup {NoEvent}]
         /\ answer' \in [Workers -> {"none", "ok", "bad"}]
         /\ wrote' \in [Workers -> [Events -> RowStatuses \cup {"none", "dropped"}]]
         /\ began' \in [Workers -> {"active", "revoked"}]
BY DEF TypeOK, Closed, NothingWritten

LEMMA UnlockedType ==
  ASSUME TypeOK, NEW w \in Workers, Unlocked(w)
  PROVE  lock' \in Workers \cup {NoWorker} /\ draft' \in Subscription
BY DEF TypeOK, Unlocked, Fresh, Subscription

LEMMA NextType == TypeOK /\ [Next]_vars => TypeOK'
<1> SUFFICES ASSUME TypeOK, [Next]_vars PROVE TypeOK'
  OBVIOUS
<1>1. ASSUME NEW w \in Workers, NEW e \in Events,
             StartFirst(w, e) \/ TakeRetry(w, e) \/ StartReplay(w, e)
      PROVE  TypeOK'
  <2>1. CASE StartFirst(w, e)
    BY <2>1 DEF StartFirst, Open, TypeOK, database, history
  <2>2. CASE TakeRetry(w, e)
    <3>1. wrote' = wrote \/ wrote' = [wrote EXCEPT ![w][e] = "dropped"]
      BY <2>2 DEF TakeRetry
    <3>2. wrote \in [Workers -> [Events -> RowStatuses \cup {"none", "dropped"}]]
      BY DEF TypeOK
    <3>3. wrote' \in [Workers -> [Events -> RowStatuses \cup {"none", "dropped"}]]
      BY <3>1, <3>2
    <3>4. hand' \in [Workers -> Events \cup {NoEvent}]
      <4>1. hand' = hand \/ hand' = [hand EXCEPT ![w] = e]
        BY <2>2 DEF TakeRetry
      <4>2. hand \in [Workers -> Events \cup {NoEvent}]
        BY DEF TypeOK
      <4> QED
        BY <4>1, <4>2
    <3>5. todo' \in [Workers -> SUBSET Events]
      BY <2>2 DEF TakeRetry, TypeOK
    <3>6. UNCHANGED <<database, kind, answer, began, lock, draft, console, history>>
      BY <2>2 DEF TakeRetry
    <3> QED
      BY <3>3, <3>4, <3>5, <3>6 DEF TypeOK, database, history
  <2>3. CASE StartReplay(w, e)
    BY <2>3 DEF StartReplay, Open, TypeOK, database, history
  <2> QED
    BY <1>1, <2>1, <2>2, <2>3
<1>2. ASSUME NEW w \in Workers, NEW due \in SUBSET Events, StartRetry(w, due)
      PROVE  TypeOK'
  BY <1>2 DEF StartRetry, Open, TypeOK, database, history
<1>3. ASSUME NEW w \in Workers, ClaimReplay(w) PROVE TypeOK'
  BY <1>3 DEF ClaimReplay, TypeOK, database, history
<1>4. ASSUME NEW w \in Workers, RefuseReplay(w) PROVE TypeOK'
  BY <1>4, ClosedType DEF RefuseReplay, TypeOK, database, history
<1>5. ASSUME NEW w \in Workers, Post(w, "ok") \/ Post(w, "bad") PROVE TypeOK'
  <2>1. hand[w] \in Events
    BY <1>5 DEF Post, TypeOK
  <2>2. posts' \in [Events -> Nat]
    <3>1. posts \in [Events -> Nat] /\ posts' = [posts EXCEPT ![hand[w]] = @ + 1]
      BY <1>5 DEF Post, TypeOK
    <3> QED
      BY <2>1, <3>1
  <2> QED
    BY <1>5, <2>2 DEF Post, TypeOK, database
<1>6. ASSUME NEW w \in Workers, Record(w) PROVE TypeOK'
  <2> DEFINE verdict == Verdict(Len(log[hand[w]]) + 1, answer[w])
  <2>1. verdict \in RowStatuses
    BY VerdictIsStatus
  <2>2. wrote' = [wrote EXCEPT ![w][hand[w]] = verdict]
    BY <1>6 DEF Record
  <2>3. wrote' \in [Workers -> [Events -> RowStatuses \cup {"none", "dropped"}]]
    BY <2>1, <2>2 DEF TypeOK
  <2>4. lock' \in Workers \cup {NoWorker} /\ draft' \in Subscription
    BY <1>6, SeenIsSubscription, CountedIsSubscription DEF Record, TypeOK
  <2> QED
    BY <1>6, <2>3, <2>4 DEF Record, TypeOK, database, history
<1>7. ASSUME NEW w \in Workers, Commit(w) PROVE TypeOK'
  <2>1. \A e \in Events : Extended(log[e], wrote[w][e]) \in Seq(RowStatuses)
    BY ExtendedIsSeq DEF TypeOK
  <2>2. log' \in [Events -> Seq(RowStatuses)]
    BY <1>7, <2>1 DEF Commit
  <2>3. sub' \in Subscription
    BY <1>7, SeenIsSubscription DEF Commit
  <2> QED
    BY <1>7, <2>2, <2>3, ClosedType, UnlockedType DEF Commit, TypeOK, history
<1>8. ASSUME NEW w \in Workers, DuplicateFirst(w) \/ Abort(w) PROVE TypeOK'
  <2>1. Rollback(w)
    BY <1>8 DEF DuplicateFirst, Abort
  <2>2. rollbacks' \in Nat /\ aborts' \in 0 .. MaxAborts
    BY <1>8, <2>1 DEF Rollback, DuplicateFirst, Abort, TypeOK
  <2> QED
    BY <2>1, <2>2, ClosedType, UnlockedType DEF Rollback, TypeOK, database
<1>9. ASSUME NEW a \in Admins, Write(a) PROVE TypeOK'
  <2>1. Written(console[a]) \in Subscription
    BY <1>9 DEF Write, Written, TypeOK, Fresh, Subscription
  <2> QED
    BY <1>9, <2>1 DEF Write, TypeOK, tx, history
<1>10. ASSUME NEW a \in Admins, NEW op \in {"pause", "resume", "remove"}, Check(a, op)
       PROVE  TypeOK'
  BY <1>10 DEF Check, TypeOK, database, tx, history
<1>11. CASE Revoke
  BY <1>11 DEF Revoke, TypeOK, Subscription, tx, history
<1>12. CASE UNCHANGED vars
  BY <1>12 DEF vars, database, tx, history, TypeOK
<1> QED
  BY <1>1, <1>2, <1>3, <1>4, <1>5, <1>6, <1>7, <1>8, <1>9, <1>10, <1>11, <1>12 DEF Next

(* The rows, the transactions and the console stay well-formed               *)
(* (webhooks.module.ts 803-951).                                            *)
THEOREM TypeCorrect == Spec => []TypeOK
<1> QED
  BY InitType, NextType, PTL DEF Spec

-----------------------------------------------------------------------------
(* The automatic pause *)

(* Below the threshold the row stays active; at it, it never does.           *)
BelowThreshold(s) == s.status = "active" => s.failures < PauseAfter

PauseInv == TypeOK /\ BelowThreshold(sub) /\ BelowThreshold(draft)

LEMMA CountedBelowThreshold ==
  ASSUME NEW s \in Subscription, BelowThreshold(s), NEW verdict \in {"delivered", "dead_lettered"}
  PROVE  BelowThreshold(Counted(s, verdict))
BY DEF Counted, BelowThreshold, Subscription

LEMMA PauseInit == Init => PauseInv
BY InitType DEF Init, PauseInv, BelowThreshold, Fresh

LEMMA PauseNext == PauseInv /\ [Next]_vars => PauseInv'
<1> SUFFICES ASSUME PauseInv, [Next]_vars PROVE BelowThreshold(sub)' /\ BelowThreshold(draft)'
  BY NextType DEF PauseInv
<1>1. BelowThreshold(Fresh)
  BY DEF BelowThreshold, Fresh
<1>2. \A w \in Workers : BelowThreshold(SubSeenBy(w))
  BY DEF PauseInv, SubSeenBy
<1>3. ASSUME NEW w \in Workers, Unlocked(w) PROVE BelowThreshold(draft')
  BY <1>1, <1>3 DEF PauseInv, Unlocked, Fresh
<1>4. ASSUME NEW w \in Workers, Record(w)
      PROVE  BelowThreshold(sub)' /\ BelowThreshold(draft)'
  <2> DEFINE verdict == Verdict(Len(log[hand[w]]) + 1, answer[w])
  <2>1. sub' = sub
    BY <1>4 DEF Record, database
  <2>2. draft' = draft \/ (verdict # "retrying" /\ draft' = Counted(SubSeenBy(w), verdict))
    BY <1>4 DEF Record
  <2>3. verdict # "retrying" => verdict \in {"delivered", "dead_lettered"}
    BY DEF Verdict
  <2>4. verdict # "retrying" => BelowThreshold(Counted(SubSeenBy(w), verdict))
    BY <1>2, <2>3, CountedBelowThreshold, SeenIsSubscription DEF PauseInv
  <2> QED
    BY <2>1, <2>2, <2>4 DEF PauseInv, BelowThreshold
<1>5. ASSUME NEW w \in Workers, Commit(w) \/ DuplicateFirst(w) \/ Abort(w)
      PROVE  BelowThreshold(sub)' /\ BelowThreshold(draft)'
  BY <1>2, <1>3, <1>5 DEF PauseInv, Commit, DuplicateFirst, Abort, Rollback, database, BelowThreshold
<1>6. ASSUME NEW a \in Admins, Write(a)
      PROVE  BelowThreshold(sub)' /\ BelowThreshold(draft)'
  <2>1. sub' = Written(console[a]) /\ draft' = draft
    BY <1>6 DEF Write
  <2>2. console[a] \in {"pause", "resume", "remove"} /\ sub \in Subscription
    BY <1>6 DEF Write, PauseInv, TypeOK
  <2>3. BelowThreshold(Written(console[a]))
    BY <1>1, <2>2 DEF Written, BelowThreshold, Subscription
  <2> QED
    BY <2>1, <2>3 DEF PauseInv, BelowThreshold
<1>7. CASE Revoke
  BY <1>7 DEF PauseInv, TypeOK, Revoke, BelowThreshold, Subscription
<1>8. CASE UNCHANGED <<sub, draft>>
  BY <1>8 DEF PauseInv, BelowThreshold
<1>9. ASSUME NEW w \in Workers, NEW e \in Events,
             StartFirst(w, e) \/ TakeRetry(w, e) \/ StartReplay(w, e)
      PROVE  UNCHANGED <<sub, draft>>
  BY <1>9 DEF StartFirst, TakeRetry, StartReplay, database
<1>10. ASSUME NEW w \in Workers, NEW due \in SUBSET Events, StartRetry(w, due)
       PROVE  UNCHANGED <<sub, draft>>
  BY <1>10 DEF StartRetry, database
<1>11. ASSUME NEW w \in Workers,
              ClaimReplay(w) \/ RefuseReplay(w) \/ Post(w, "ok") \/ Post(w, "bad")
       PROVE  UNCHANGED <<sub, draft>>
  BY <1>11 DEF ClaimReplay, RefuseReplay, Post, database
<1>12. ASSUME NEW a \in Admins, NEW op \in {"pause", "resume", "remove"}, Check(a, op)
       PROVE  UNCHANGED <<sub, draft>>
  BY <1>12 DEF Check, database
<1>13. CASE UNCHANGED vars
  BY <1>8, <1>13 DEF vars, database
<1> QED
  BY <1>4, <1>5, <1>6, <1>7, <1>8, <1>9, <1>10, <1>11, <1>12, <1>13 DEF Next

(* A subscription at the failure threshold is never active, whatever order   *)
(* outcomes, pauses and resumes come in (webhooks.module.ts 919-930).        *)
THEOREM ThresholdPauses == Spec => []NoActiveAtThreshold
<1>1. PauseInv => NoActiveAtThreshold
  BY DEF PauseInv, BelowThreshold, NoActiveAtThreshold
<1> QED
  BY <1>1, PauseInit, PauseNext, PTL DEF Spec

-----------------------------------------------------------------------------
(* The ladder of attempts *)

LEMMA LadderInit == Init => LadderInv
<1> SUFFICES ASSUME Init PROVE LadderInv
  OBVIOUS
<1>1. \A w \in Workers : todo[w] = {} /\ hand[w] = NoEvent /\ answer[w] = "none" /\ kind[w] = "idle"
  BY DEF Init
<1>2. \A w \in Workers, e \in Events : wrote[w][e] = "none" /\ ~Keeps(w, e)
  BY DEF Init, NothingWritten, Keeps
<1>3. \A e \in Events : log[e] = <<>> /\ Latest(e) = "none" /\ Len(log[e]) = 0
  BY DEF Init, Latest
<1> QED
  BY <1>1, <1>2, <1>3, InitType
     DEF LadderInv, TransactionsAreOrderly, ClaimsAreExclusive, ClaimedRowsStay,
         OneUncommittedRow, UncommittedRowsFit, OneLadderPerEvent

(* The ladder looks only at the rows and at the transactions' claims.        *)
LEMMA LadderSame ==
  ASSUME LadderInv, TypeOK', UNCHANGED <<log, kind, todo, hand, answer, wrote>>
  PROVE  LadderInv'
BY DEF LadderInv, TransactionsAreOrderly, ClaimsAreExclusive, ClaimedRowsStay,
       OneUncommittedRow, UncommittedRowsFit, OneLadderPerEvent, Keeps, Resends, Latest

(* Rows are locked for every claimed event.                                  *)
LEMMA LockedMeansKept ==
  ASSUME TypeOK, NEW w \in Workers, NEW e \in Events, e \notin LockedByOthers(w),
         NEW v \in Workers \ {w}, Resends(v)
  PROVE  ~Keeps(v, e)
BY DEF LockedByOthers, Keeps, Resends, TypeOK

LEMMA StartFirstLadder ==
  ASSUME LadderInv, TypeOK', NEW w \in Workers, NEW e \in Events, StartFirst(w, e)
  PROVE  LadderInv'
<1>1. /\ kind[w] = "idle"
      /\ kind' = [kind EXCEPT ![w] = "first"]
      /\ hand' = [hand EXCEPT ![w] = e]
      /\ UNCHANGED <<log, todo, answer, wrote>>
      /\ log[e] = <<>>
  BY DEF StartFirst, Open, database
<1>2. \A v \in Workers : v # w => kind'[v] = kind[v] /\ hand'[v] = hand[v]
  BY <1>1 DEF LadderInv, TypeOK
<1>3. kind'[w] = "first" /\ hand'[w] = e
  BY <1>1 DEF LadderInv, TypeOK
<1>4. todo[w] = {} /\ answer[w] = "none" /\ \A f \in Events : wrote[w][f] = "none"
  BY <1>1 DEF LadderInv, TransactionsAreOrderly
<1>5. \A v \in Workers, f \in Events : v # w => (Keeps(v, f)' <=> Keeps(v, f)) /\ (Resends(v)' <=> Resends(v))
  BY <1>1, <1>2 DEF Keeps, Resends
<1>6. TransactionsAreOrderly'
  BY <1>1, <1>2, <1>3, <1>4 DEF LadderInv, TransactionsAreOrderly
<1>7. ClaimsAreExclusive'
  BY <1>3, <1>5 DEF LadderInv, ClaimsAreExclusive, Resends
<1>8. ClaimedRowsStay'
  BY <1>1, <1>2, <1>3, <1>5 DEF LadderInv, ClaimedRowsStay, Latest
<1>9. OneUncommittedRow' /\ UncommittedRowsFit' /\ OneLadderPerEvent'
  BY <1>1, <1>2, <1>3, <1>4 DEF LadderInv, OneUncommittedRow, UncommittedRowsFit, OneLadderPerEvent, Latest
<1> QED
  BY <1>6, <1>7, <1>8, <1>9 DEF LadderInv

LEMMA StartRetryLadder ==
  ASSUME LadderInv, TypeOK', NEW w \in Workers, NEW due \in SUBSET Events, StartRetry(w, due)
  PROVE  LadderInv'
<1>1. /\ kind[w] = "idle"
      /\ kind' = [kind EXCEPT ![w] = "retry"]
      /\ todo' = [todo EXCEPT ![w] = due]
      /\ UNCHANGED <<log, hand, answer, wrote>>
  BY DEF StartRetry, Open, database
<1>2. \A v \in Workers : v # w => kind'[v] = kind[v] /\ todo'[v] = todo[v]
  BY <1>1 DEF LadderInv, TypeOK
<1>3. kind'[w] = "retry" /\ todo'[w] = due
  BY <1>1 DEF LadderInv, TypeOK
<1>4. hand[w] = NoEvent /\ answer[w] = "none" /\ \A f \in Events : wrote[w][f] = "none"
  BY <1>1 DEF LadderInv, TransactionsAreOrderly
<1>5. \A v \in Workers, f \in Events : v # w => (Keeps(v, f)' <=> Keeps(v, f)) /\ (Resends(v)' <=> Resends(v))
  BY <1>1, <1>2 DEF Keeps, Resends
<1>6. \A f \in Events : Keeps(w, f)' <=> f \in due
  BY <1>1, <1>3, <1>4 DEF Keeps
<1>7. \A f \in due : Latest(f) = "retrying" /\ \A v \in Workers : v # w /\ Resends(v) => ~Keeps(v, f)
  BY LockedMeansKept DEF StartRetry, Claimable, LadderInv
<1>8. TransactionsAreOrderly'
  BY <1>1, <1>2, <1>3, <1>4 DEF LadderInv, TransactionsAreOrderly
<1>9. ClaimsAreExclusive'
  BY <1>5, <1>6, <1>7 DEF LadderInv, ClaimsAreExclusive
<1>10. ClaimedRowsStay'
  BY <1>1, <1>2, <1>3, <1>5, <1>6, <1>7 DEF LadderInv, ClaimedRowsStay, Latest
<1>11. OneUncommittedRow' /\ UncommittedRowsFit' /\ OneLadderPerEvent'
  BY <1>1, <1>2, <1>3, <1>4 DEF LadderInv, OneUncommittedRow, UncommittedRowsFit, OneLadderPerEvent, Latest
<1> QED
  BY <1>8, <1>9, <1>10, <1>11 DEF LadderInv

LEMMA TakeRetryLadder ==
  ASSUME LadderInv, TypeOK', NEW w \in Workers, NEW e \in Events, TakeRetry(w, e)
  PROVE  LadderInv'
<1>1. /\ kind[w] = "retry" /\ hand[w] = NoEvent /\ e \in todo[w]
      /\ todo' = [todo EXCEPT ![w] = @ \ {e}]
      /\ UNCHANGED <<log, kind, answer>>
  BY DEF TakeRetry, database
<1>2. \/ hand' = [hand EXCEPT ![w] = e] /\ wrote' = wrote
      \/ hand' = hand /\ wrote' = [wrote EXCEPT ![w][e] = "dropped"]
  BY DEF TakeRetry
<1>3. \A v \in Workers : v # w => todo'[v] = todo[v] /\ hand'[v] = hand[v] /\ wrote'[v] = wrote[v]
  BY <1>1, <1>2 DEF LadderInv, TypeOK
<1>4. todo'[w] = todo[w] \ {e} /\ \A f \in Events : f # e => wrote'[w][f] = wrote[w][f]
  BY <1>1, <1>2 DEF LadderInv, TypeOK
<1>5. answer[w] = "none" /\ wrote[w][e] = "none"
  BY <1>1 DEF LadderInv, TransactionsAreOrderly
<1>6. \/ hand'[w] = e /\ wrote'[w][e] = "none"
      \/ hand'[w] = NoEvent /\ wrote'[w][e] = "dropped"
  BY <1>1, <1>2, <1>5 DEF LadderInv, TypeOK
<1>7. \A v \in Workers, f \in Events : Keeps(v, f)' <=> Keeps(v, f)
  BY <1>1, <1>3, <1>4, <1>5, <1>6 DEF Keeps
<1>8. TransactionsAreOrderly'
  BY <1>1, <1>3, <1>4, <1>5, <1>6 DEF LadderInv, TransactionsAreOrderly
<1>9. ClaimsAreExclusive' /\ ClaimedRowsStay'
  BY <1>1, <1>7 DEF LadderInv, ClaimsAreExclusive, ClaimedRowsStay, Resends, Latest
<1>10. \A v \in Workers : wrote[v][e] = "none"
  <2> SUFFICES ASSUME NEW v \in Workers, wrote[v][e] # "none" PROVE FALSE
    OBVIOUS
  <2>1. Keeps(w, e) /\ Keeps(v, e) /\ v # w
    BY <1>1, <1>5 DEF Keeps
  <2>2. kind[v] = "first"
    BY <1>1, <2>1 DEF LadderInv, TransactionsAreOrderly, ClaimsAreExclusive, Resends
  <2>3. Latest(e) = "none" /\ Latest(e) = "retrying"
    BY <1>1, <2>1, <2>2 DEF LadderInv, UncommittedRowsFit, ClaimedRowsStay, Latest
  <2> QED
    BY <2>3
<1>11. OneUncommittedRow'
  BY <1>3, <1>4, <1>10 DEF LadderInv, OneUncommittedRow
<1>12. UncommittedRowsFit' /\ OneLadderPerEvent'
  BY <1>1, <1>3, <1>4, <1>6 DEF LadderInv, UncommittedRowsFit, OneLadderPerEvent, Latest
<1> QED
  BY <1>8, <1>9, <1>11, <1>12 DEF LadderInv

LEMMA StartReplayLadder ==
  ASSUME LadderInv, TypeOK', NEW w \in Workers, NEW e \in Events, StartReplay(w, e)
  PROVE  LadderInv'
<1>1. /\ kind[w] = "idle"
      /\ kind' = [kind EXCEPT ![w] = "claiming"]
      /\ hand' = [hand EXCEPT ![w] = e]
      /\ UNCHANGED <<log, todo, answer, wrote>>
  BY DEF StartReplay, Open, database
<1>2. \A v \in Workers : v # w => kind'[v] = kind[v] /\ hand'[v] = hand[v]
  BY <1>1 DEF LadderInv, TypeOK
<1>3. kind'[w] = "claiming" /\ hand'[w] = e
  BY <1>1 DEF LadderInv, TypeOK
<1>4. todo[w] = {} /\ answer[w] = "none" /\ \A f \in Events : wrote[w][f] = "none"
  BY <1>1 DEF LadderInv, TransactionsAreOrderly
<1>5. \A v \in Workers, f \in Events : v # w => (Keeps(v, f)' <=> Keeps(v, f)) /\ (Resends(v)' <=> Resends(v))
  BY <1>1, <1>2 DEF Keeps, Resends
<1>6. TransactionsAreOrderly'
  BY <1>1, <1>2, <1>3, <1>4 DEF LadderInv, TransactionsAreOrderly
<1>7. ClaimsAreExclusive'
  BY <1>3, <1>5 DEF LadderInv, ClaimsAreExclusive, Resends
<1>8. ClaimedRowsStay'
  BY <1>1, <1>2, <1>3, <1>5 DEF LadderInv, ClaimedRowsStay, Latest
<1>9. OneUncommittedRow' /\ UncommittedRowsFit' /\ OneLadderPerEvent'
  BY <1>1, <1>2, <1>3, <1>4 DEF LadderInv, OneUncommittedRow, UncommittedRowsFit, OneLadderPerEvent, Latest
<1> QED
  BY <1>6, <1>7, <1>8, <1>9 DEF LadderInv

LEMMA ClaimReplayLadder ==
  ASSUME LadderInv, TypeOK', NEW w \in Workers, ClaimReplay(w)
  PROVE  LadderInv'
<1>1. /\ kind[w] = "claiming"
      /\ kind' = [kind EXCEPT ![w] = "replay"]
      /\ UNCHANGED <<log, todo, hand, answer, wrote>>
  BY DEF ClaimReplay, database
<1>2. \A v \in Workers : v # w => kind'[v] = kind[v]
  BY <1>1 DEF LadderInv, TypeOK
<1>3. kind'[w] = "replay"
  BY <1>1 DEF LadderInv, TypeOK
<1>4. /\ todo[w] = {} /\ answer[w] = "none" /\ \A f \in Events : wrote[w][f] = "none"
  BY <1>1 DEF LadderInv, TransactionsAreOrderly
<1>5. \A v \in Workers, f \in Events : (Keeps(v, f)' <=> Keeps(v, f)) /\ (v # w => (Resends(v)' <=> Resends(v)))
  BY <1>1, <1>2 DEF Keeps, Resends
<1>6. \A f \in Events : Keeps(w, f) <=> f = hand[w]
  BY <1>4 DEF Keeps
<1>7. \A f \in Events : Keeps(w, f) => /\ Latest(f) = "dead_lettered"
                                       /\ \A v \in Workers : v # w /\ Resends(v) => ~Keeps(v, f)
  BY <1>6, LockedMeansKept DEF ClaimReplay, StillDead, LadderInv
<1>8. TransactionsAreOrderly'
  BY <1>1, <1>2, <1>3, <1>4 DEF LadderInv, TransactionsAreOrderly
<1>9. ClaimsAreExclusive'
  BY <1>5, <1>7 DEF LadderInv, ClaimsAreExclusive
<1>10. ClaimedRowsStay'
  BY <1>1, <1>2, <1>3, <1>5, <1>7 DEF LadderInv, ClaimedRowsStay, Latest
<1>11. OneUncommittedRow' /\ UncommittedRowsFit' /\ OneLadderPerEvent'
  BY <1>1, <1>2, <1>3, <1>4 DEF LadderInv, OneUncommittedRow, UncommittedRowsFit, OneLadderPerEvent, Latest
<1> QED
  BY <1>8, <1>9, <1>10, <1>11 DEF LadderInv

(* A transaction that ends, either way, lets go of its claims and of nothing *)
(* else.                                                                     *)
OthersKept(w) ==
  \A v \in Workers :
    v # w => /\ kind'[v] = kind[v] /\ todo'[v] = todo[v] /\ hand'[v] = hand[v]
             /\ answer'[v] = answer[v] /\ wrote'[v] = wrote[v]

ClaimsGone(w) ==
  /\ kind'[w] = "idle" /\ todo'[w] = {} /\ hand'[w] = NoEvent /\ answer'[w] = "none"
  /\ \A f \in Events : wrote'[w][f] = "none"

LEMMA ClosedClaims ==
  ASSUME TypeOK, NEW w \in Workers, Closed(w)
  PROVE  /\ OthersKept(w) /\ ClaimsGone(w)
         /\ \A v \in Workers, f \in Events :
              v # w => (Keeps(v, f)' <=> Keeps(v, f)) /\ (Resends(v)' <=> Resends(v))
         /\ \A f \in Events : ~Keeps(w, f)'
<1>1. OthersKept(w)
  BY DEF Closed, TypeOK, OthersKept
<1>2. ClaimsGone(w)
  BY DEF Closed, TypeOK, NothingWritten, ClaimsGone
<1> QED
  BY <1>1, <1>2 DEF OthersKept, ClaimsGone, Keeps, Resends

LEMMA ClosedOrder ==
  ASSUME LadderInv, NEW w \in Workers, Closed(w)
  PROVE  TransactionsAreOrderly' /\ ClaimsAreExclusive' /\ OneUncommittedRow'
<1>1. TransactionsAreOrderly' /\ OneUncommittedRow'
  BY ClosedClaims DEF LadderInv, TransactionsAreOrderly, OneUncommittedRow, OthersKept, ClaimsGone
<1>2. ClaimsAreExclusive'
  BY ClosedClaims DEF LadderInv, ClaimsAreExclusive
<1> QED
  BY <1>1, <1>2

LEMMA ClosedLadder ==
  ASSUME LadderInv, TypeOK', NEW w \in Workers, Closed(w), log' = log
  PROVE  LadderInv'
<1>1. ClaimedRowsStay'
  BY ClosedClaims DEF LadderInv, ClaimedRowsStay, Latest, OthersKept
<1>2. UncommittedRowsFit' /\ OneLadderPerEvent'
  BY ClosedClaims DEF LadderInv, UncommittedRowsFit, OneLadderPerEvent, Latest, OthersKept, ClaimsGone
<1> QED
  BY <1>1, <1>2, ClosedOrder DEF LadderInv

(* What the commit of a row does to the ladder of its event.                 *)
LEMMA ExtendedRows ==
  ASSUME NEW rows \in Seq(RowStatuses), NEW status \in RowStatuses,
         \A n \in 1 .. Len(rows) - 1 : rows[n] = "replayed"
  PROVE  /\ Len(Extended(rows, status)) = Len(rows) + 1
         /\ \A n \in 1 .. Len(rows) : Extended(rows, status)[n] = "replayed"
         /\ Extended(rows, status)[Len(rows) + 1] = status
<1> DEFINE marked == IF rows = <<>> THEN rows ELSE [rows EXCEPT ![Len(rows)] = "replayed"]
<1>1. marked \in Seq(RowStatuses) /\ Len(marked) = Len(rows)
  BY ExceptSeq DEF RowStatuses
<1>2. \A n \in 1 .. Len(rows) : marked[n] = "replayed"
  OBVIOUS
<1>3. Extended(rows, status) = Append(marked, status)
  BY DEF Extended, RowStatuses
<1> HIDE DEF marked
<1> QED
  BY <1>1, <1>2, <1>3

LEMMA DroppedRows ==
  ASSUME NEW rows \in Seq(RowStatuses), rows # <<>>,
         \A n \in 1 .. Len(rows) - 1 : rows[n] = "replayed"
  PROVE  /\ Len(Extended(rows, "dropped")) = Len(rows)
         /\ \A n \in 1 .. Len(rows) : Extended(rows, "dropped")[n] = "replayed"
<1>1. Extended(rows, "dropped") = [rows EXCEPT ![Len(rows)] = "replayed"]
  BY DEF Extended
<1> QED
  BY <1>1

(* An event of which the committing transaction wrote a row is claimed by    *)
(* nobody else, and nobody else has a row of it.                             *)
LEMMA WrittenAlone ==
  ASSUME LadderInv, NEW w \in Workers, NEW f \in Events, wrote[w][f] # "none",
         NEW v \in Workers, v # w
  PROVE  wrote[v][f] = "none" /\ (Resends(v) => ~Keeps(v, f))
<1>1. wrote[v][f] = "none"
  BY DEF LadderInv, OneUncommittedRow
<1>2. ASSUME Resends(v), Keeps(v, f) PROVE FALSE
  <2>1. kind[w] = "first"
    BY <1>2 DEF LadderInv, TransactionsAreOrderly, ClaimsAreExclusive, Resends, Keeps
  <2>2. Latest(f) = "none"
    BY <2>1 DEF LadderInv, UncommittedRowsFit, Latest
  <2> QED
    BY <1>2, <2>2 DEF LadderInv, ClaimedRowsStay, Resends
<1> QED
  BY <1>1, <1>2

LEMMA CommitLadder ==
  ASSUME LadderInv, TypeOK', NEW w \in Workers, Commit(w)
  PROVE  LadderInv'
<1>1. Closed(w) /\ log' = [f \in Events |-> Extended(log[f], wrote[w][f])]
  BY DEF Commit
<1>2. \A f \in Events : wrote[w][f] = "none" => log'[f] = log[f]
  BY <1>1 DEF Extended
<1>3. \A f \in Events : log'[f] = Extended(log[f], wrote[w][f]) /\ log[f] \in Seq(RowStatuses)
  BY <1>1 DEF LadderInv, TypeOK
<1>4. ClaimedRowsStay'
  <2> SUFFICES ASSUME NEW f \in Events, NEW v \in Workers, Keeps(v, f)'
               PROVE  /\ kind'[v] = "retry" => Latest(f)' = "retrying"
                      /\ kind'[v] = "replay" => Latest(f)' = "dead_lettered"
    BY DEF ClaimedRowsStay
  <2>1. v # w /\ Keeps(v, f) /\ kind'[v] = kind[v]
    BY <1>1, ClosedClaims DEF LadderInv, OthersKept
  <2>2. Resends(v) => log'[f] = log[f]
    BY <1>2, <2>1, WrittenAlone
  <2> QED
    BY <2>1, <2>2 DEF LadderInv, ClaimedRowsStay, Latest, Resends
<1>5. UncommittedRowsFit'
  <2> SUFFICES ASSUME NEW f \in Events, NEW v \in Workers, wrote'[v][f] # "none"
               PROVE  /\ wrote'[v][f] # "replayed"
                      /\ kind'[v] = "first" => log'[f] = <<>>
                      /\ wrote'[v][f] = "dropped" => kind'[v] = "retry"
                      /\ wrote'[v][f] = "retrying" => Len(log'[f]) + 1 < MaxAttempts
                      /\ wrote'[v][f] = "dead_lettered" => Len(log'[f]) + 1 >= MaxAttempts
    BY DEF UncommittedRowsFit
  <2>1. v # w /\ wrote'[v] = wrote[v] /\ kind'[v] = kind[v]
    BY <1>1, ClosedClaims DEF LadderInv, OthersKept, ClaimsGone
  <2>2. log'[f] = log[f]
    BY <1>2, <2>1, WrittenAlone
  <2> QED
    BY <2>1, <2>2 DEF LadderInv, UncommittedRowsFit
<1>6. OneLadderPerEvent'
  <2> SUFFICES ASSUME NEW f \in Events
               PROVE  /\ \A n \in 1 .. Len(log'[f]) - 1 : log'[f][n] = "replayed"
                      /\ Latest(f)' = "retrying" => Len(log'[f]) < MaxAttempts
                      /\ Latest(f)' = "dead_lettered" => Len(log'[f]) >= MaxAttempts
    BY DEF OneLadderPerEvent
  <2> DEFINE rows == log[f]
             status == wrote[w][f]
  <2>1. rows \in Seq(RowStatuses) /\ \A n \in 1 .. Len(rows) - 1 : rows[n] = "replayed"
    BY <1>3 DEF LadderInv, OneLadderPerEvent
  <2>2. log'[f] = Extended(rows, status)
    BY <1>3
  <2>3. status \in RowStatuses \cup {"none", "dropped"}
    BY DEF LadderInv, TypeOK
  <2>4. CASE status = "none"
    BY <1>2, <2>4 DEF LadderInv, OneLadderPerEvent, Latest
  <2>5. CASE status = "dropped"
    <3>1. rows # <<>>
      BY <2>5 DEF LadderInv, UncommittedRowsFit, ClaimedRowsStay, Keeps, Latest
    <3>2. Len(log'[f]) = Len(rows) /\ \A n \in 1 .. Len(rows) : log'[f][n] = "replayed"
      BY <2>1, <2>2, <2>5, <3>1, DroppedRows
    <3>3. Len(rows) \in Nat /\ Len(rows) > 0
      BY <2>1, <3>1
    <3>4. Latest(f)' = "replayed"
      BY <3>1, <3>2, <3>3 DEF Latest
    <3> QED
      BY <3>2, <3>3, <3>4
  <2>6. CASE status \in RowStatuses
    <3>1. /\ Len(log'[f]) = Len(rows) + 1
          /\ \A n \in 1 .. Len(rows) : log'[f][n] = "replayed"
          /\ log'[f][Len(rows) + 1] = status
      BY <2>1, <2>2, <2>6, ExtendedRows
    <3>2. Len(rows) \in Nat
      BY <2>1
    <3>3. Latest(f)' = status
      BY <3>1, <3>2 DEF Latest
    <3>4. /\ status = "retrying" => Len(rows) + 1 < MaxAttempts
          /\ status = "dead_lettered" => Len(rows) + 1 >= MaxAttempts
      BY DEF LadderInv, UncommittedRowsFit
    <3> QED
      BY <3>1, <3>2, <3>3, <3>4
  <2> QED
    BY <2>3, <2>4, <2>5, <2>6
<1> QED
  BY <1>1, <1>4, <1>5, <1>6, ClosedOrder DEF LadderInv

LEMMA PostLadder ==
  ASSUME LadderInv, TypeOK', NEW w \in Workers, NEW result \in {"ok", "bad"}, Post(w, result)
  PROVE  LadderInv'
<1>1. /\ kind[w] \in {"first", "retry", "replay"} /\ hand[w] # NoEvent
      /\ answer' = [answer EXCEPT ![w] = result]
      /\ UNCHANGED <<log, kind, todo, hand, wrote>>
  BY DEF Post, database
<1>2. \A v \in Workers : v # w => answer'[v] = answer[v]
  BY <1>1 DEF LadderInv, TypeOK
<1>3. TransactionsAreOrderly'
  BY <1>1, <1>2 DEF LadderInv, TransactionsAreOrderly
<1>4. \A v \in Workers, f \in Events : (Keeps(v, f)' <=> Keeps(v, f)) /\ (Resends(v)' <=> Resends(v))
  BY <1>1 DEF Keeps, Resends
<1>5. ClaimsAreExclusive' /\ ClaimedRowsStay'
  BY <1>1, <1>4 DEF LadderInv, ClaimsAreExclusive, ClaimedRowsStay, Latest
<1>6. OneUncommittedRow' /\ UncommittedRowsFit' /\ OneLadderPerEvent'
  BY <1>1 DEF LadderInv, OneUncommittedRow, UncommittedRowsFit, OneLadderPerEvent, Latest
<1> QED
  BY <1>3, <1>5, <1>6 DEF LadderInv

LEMMA RecordLadder ==
  ASSUME LadderInv, TypeOK', NEW w \in Workers, Record(w)
  PROVE  LadderInv'
<1> DEFINE e == hand[w]
           verdict == Verdict(Len(log[e]) + 1, answer[w])
<1>1. /\ answer[w] # "none"
      /\ \A v \in Workers \ {w} : wrote[v][e] = "none"
      /\ kind[w] = "first" => log[e] = <<>>
      /\ wrote' = [wrote EXCEPT ![w][e] = verdict]
      /\ hand' = [hand EXCEPT ![w] = NoEvent]
      /\ answer' = [answer EXCEPT ![w] = "none"]
      /\ UNCHANGED <<log, kind, todo>>
  BY DEF Record, database
<1>2. e \in Events /\ kind[w] \in {"first", "retry", "replay"} /\ e \notin todo[w] /\ wrote[w][e] = "none"
  BY <1>1 DEF LadderInv, TypeOK, TransactionsAreOrderly
<1>3. \A v \in Workers : v # w =>
        hand'[v] = hand[v] /\ answer'[v] = answer[v] /\ wrote'[v] = wrote[v]
  BY <1>1 DEF LadderInv, TypeOK
<1>4. /\ hand'[w] = NoEvent /\ answer'[w] = "none" /\ wrote'[w][e] = verdict
      /\ \A f \in Events : f # e => wrote'[w][f] = wrote[w][f]
  BY <1>1, <1>2 DEF LadderInv, TypeOK
<1>5. Len(log[e]) \in Nat
  BY <1>2 DEF LadderInv, TypeOK
<1>6. /\ verdict # "none" /\ verdict # "replayed" /\ verdict # "dropped"
      /\ verdict = "retrying" => Len(log[e]) + 1 < MaxAttempts
      /\ verdict = "dead_lettered" => Len(log[e]) + 1 >= MaxAttempts
  BY <1>5 DEF Verdict
<1> HIDE DEF e, verdict
<1>7. \A v \in Workers, f \in Events : Keeps(v, f)' <=> Keeps(v, f)
  BY <1>1, <1>2, <1>3, <1>4, <1>6 DEF Keeps, e
<1>a. hand[w] \notin todo[w] /\ NoEvent \notin todo[w] /\ hand[w] = e /\ kind[w] # "idle"
  BY <1>1, <1>2 DEF LadderInv, TypeOK, e
<1>8. TransactionsAreOrderly'
  <2> SUFFICES ASSUME NEW v \in Workers
               PROVE  /\ todo'[v] # {} => kind'[v] = "retry"
                      /\ hand'[v] # NoEvent => kind'[v] # "idle"
                      /\ answer'[v] # "none" => hand'[v] # NoEvent /\ kind'[v] # "claiming"
                      /\ hand'[v] \notin todo'[v]
                      /\ \A f \in Events :
                           wrote'[v][f] # "none" =>
                             kind'[v] \in {"first", "retry", "replay"} /\ f \notin todo'[v] /\ hand'[v] # f
    BY DEF TransactionsAreOrderly
  <2>1. CASE v = w
    <3>1. \A f \in Events : wrote'[w][f] # "none" =>
            kind'[w] \in {"first", "retry", "replay"} /\ f \notin todo'[w] /\ hand'[w] # f
      BY <1>1, <1>2, <1>4 DEF LadderInv, TransactionsAreOrderly
    <3> QED
      BY <2>1, <3>1, <1>1, <1>2, <1>4, <1>a DEF LadderInv, TransactionsAreOrderly
  <2>2. CASE v # w
    BY <2>2, <1>1, <1>3 DEF LadderInv, TransactionsAreOrderly
  <2> QED
    BY <2>1, <2>2
<1>9. ClaimsAreExclusive' /\ ClaimedRowsStay'
  BY <1>1, <1>7 DEF LadderInv, ClaimsAreExclusive, ClaimedRowsStay, Resends, Latest
<1>10. OneUncommittedRow'
  BY <1>1, <1>2, <1>3, <1>4 DEF LadderInv, OneUncommittedRow
<1>11. UncommittedRowsFit'
  BY <1>1, <1>2, <1>3, <1>4, <1>6 DEF LadderInv, UncommittedRowsFit
<1>12. OneLadderPerEvent'
  BY <1>1 DEF LadderInv, OneLadderPerEvent, Latest
<1> QED
  BY <1>8, <1>9, <1>10, <1>11, <1>12 DEF LadderInv
LEMMA LadderNext == LadderInv /\ [Next]_vars => LadderInv'
<1> SUFFICES ASSUME LadderInv, [Next]_vars PROVE LadderInv'
  OBVIOUS
<1>1. TypeOK'
  BY NextType DEF LadderInv
<1>2. ASSUME NEW w \in Workers, RefuseReplay(w) \/ DuplicateFirst(w) \/ Abort(w)
      PROVE  LadderInv'
  <2>1. Closed(w) /\ log' = log
    BY <1>2 DEF RefuseReplay, DuplicateFirst, Abort, Rollback, database
  <2> QED
    BY <1>1, <2>1, ClosedLadder
<1>3. ASSUME NEW a \in Admins, Write(a) PROVE LadderInv'
  BY <1>1, <1>3, LadderSame DEF Write, tx
<1>4. ASSUME NEW a \in Admins, NEW op \in {"pause", "resume", "remove"}, Check(a, op)
      PROVE  LadderInv'
  BY <1>1, <1>4, LadderSame DEF Check, tx, database
<1>5. CASE Revoke
  BY <1>1, <1>5, LadderSame DEF Revoke, tx
<1>6. CASE UNCHANGED vars
  BY <1>1, <1>6, LadderSame DEF vars, tx, database
<1> QED
  BY <1>1, <1>2, <1>3, <1>4, <1>5, <1>6, StartFirstLadder, TakeRetryLadder, StartReplayLadder,
     StartRetryLadder, ClaimReplayLadder, PostLadder, RecordLadder, CommitLadder DEF Next

(* The attempts of an event form one ladder, and no two retries or replays   *)
(* call for it at once (webhooks.module.ts 803-951): the row locks make the  *)
(* claims exclusive, the unique key of the attempt the rows.                 *)
THEOREM TakingTurns == Spec => []AttemptsTakeTurns
<1>1. LadderInv => AttemptsTakeTurns
  <2> SUFFICES ASSUME LadderInv PROVE ResendIsExclusive
    BY DEF LadderInv, AttemptsTakeTurns
  <2> QED
    BY DEF LadderInv, ClaimsAreExclusive, ResendIsExclusive, Resending, Resends, Keeps
<1> QED
  BY <1>1, LadderInit, LadderNext, PTL DEF Spec

-----------------------------------------------------------------------------
(* Every call is accounted for *)

Forgetting(e) == {w \in Workers : e \in Forgotten(w)}

CallsInv == LadderInv /\ CallsAreAccountedFor

(* The account of an event stands when its calls and rows do and nobody      *)
(* forgets a call of it that was pending.                                    *)
LEMMA AccountStands ==
  ASSUME CallsInv, TypeOK', NEW e \in Events,
         posts'[e] = posts[e], Len(log'[e]) >= Len(log[e]), rollbacks' >= rollbacks,
         \A w \in Workers : e \in Forgotten(w) => (e \in Forgotten(w))'
  PROVE  posts'[e] <= Len(log'[e]) + rollbacks' + Cardinality(Forgetting(e)')
<1>1. Forgetting(e) \subseteq Forgetting(e)' /\ IsFiniteSet(Forgetting(e)')
  BY FS_Subset DEF Forgetting
<1>2. Cardinality(Forgetting(e)) <= Cardinality(Forgetting(e)')
  BY <1>1, FS_Subset
<1>3. Cardinality(Forgetting(e)) \in Nat /\ Cardinality(Forgetting(e)') \in Nat
  BY <1>1, FS_Subset, FS_CardinalityType
<1>4. posts[e] <= Len(log[e]) + rollbacks + Cardinality(Forgetting(e))
  BY DEF CallsInv, CallsAreAccountedFor, Forgetting
<1>5. /\ posts[e] \in Nat /\ rollbacks \in Nat /\ rollbacks' \in Nat
      /\ Len(log[e]) \in Nat /\ Len(log'[e]) \in Nat
  BY DEF CallsInv, LadderInv, TypeOK
<1> HIDE DEF Forgetting
<1> QED
  BY <1>2, <1>3, <1>4, <1>5, SMTT(30)

LEMMA OneMore ==
  ASSUME NEW S, IsFiniteSet(S), NEW x
  PROVE  IsFiniteSet(S \cup {x}) /\ Cardinality(S \cup {x}) <= Cardinality(S) + 1
<1>1. Cardinality(S) \in Nat
  BY FS_CardinalityType
<1>2. x \in S => S \cup {x} = S
  OBVIOUS
<1>3. IsFiniteSet(S \cup {x}) /\ (x \notin S => Cardinality(S \cup {x}) = Cardinality(S) + 1)
  BY FS_AddElement
<1> QED
  BY <1>1, <1>2, <1>3

(* ... and when one pending call is settled by a row or a rollback.          *)
LEMMA AccountSettled ==
  ASSUME CallsInv, TypeOK', NEW e \in Events, NEW w \in Workers,
         posts'[e] = posts[e], Len(log'[e]) >= Len(log[e]), rollbacks' >= rollbacks,
         Len(log'[e]) + rollbacks' > Len(log[e]) + rollbacks,
         \A v \in Workers : v # w /\ e \in Forgotten(v) => (e \in Forgotten(v))'
  PROVE  posts'[e] <= Len(log'[e]) + rollbacks' + Cardinality(Forgetting(e)')
<1>1. Forgetting(e) \subseteq Forgetting(e)' \cup {w} /\ IsFiniteSet(Forgetting(e)')
  BY FS_Subset DEF Forgetting
<1>2. /\ IsFiniteSet(Forgetting(e)' \cup {w})
      /\ Cardinality(Forgetting(e)' \cup {w}) <= Cardinality(Forgetting(e)') + 1
  BY <1>1, OneMore
<1>3. Cardinality(Forgetting(e)) <= Cardinality(Forgetting(e)' \cup {w})
  BY <1>1, <1>2, FS_Subset
<1>4. /\ Cardinality(Forgetting(e)) \in Nat /\ Cardinality(Forgetting(e)') \in Nat
      /\ Cardinality(Forgetting(e)' \cup {w}) \in Nat
  BY <1>1, <1>2, FS_Subset, FS_CardinalityType
<1>5. posts[e] <= Len(log[e]) + rollbacks + Cardinality(Forgetting(e))
  BY DEF CallsInv, CallsAreAccountedFor, Forgetting
<1>6. /\ posts[e] \in Nat /\ rollbacks \in Nat /\ rollbacks' \in Nat
      /\ Len(log[e]) \in Nat /\ Len(log'[e]) \in Nat
  BY DEF CallsInv, LadderInv, TypeOK
<1> HIDE DEF Forgetting
<1> QED
  BY <1>2, <1>3, <1>4, <1>5, <1>6, SMTT(30)

LEMMA AccountSame ==
  ASSUME CallsInv, TypeOK', UNCHANGED <<posts, log, rollbacks>>,
         \A w \in Workers, e \in Events : e \in Forgotten(w) => (e \in Forgotten(w))'
  PROVE  CallsAreAccountedFor'
<1>1. \A e \in Events : Len(log[e]) \in Nat /\ rollbacks \in Nat
  BY DEF CallsInv, LadderInv, TypeOK
<1>2. \A e \in Events : posts'[e] <= Len(log'[e]) + rollbacks' + Cardinality(Forgetting(e)')
  BY <1>1, AccountStands
<1> QED
  BY <1>2 DEF CallsAreAccountedFor, Forgetting

LEMMA PostAccount ==
  ASSUME CallsInv, TypeOK', NEW w \in Workers, NEW result \in {"ok", "bad"}, Post(w, result)
  PROVE  CallsAreAccountedFor'
<1>1. /\ answer' = [answer EXCEPT ![w] = result] /\ answer[w] = "none"
      /\ posts' = [posts EXCEPT ![hand[w]] = @ + 1]
      /\ hand[w] \in Events
      /\ UNCHANGED <<log, hand, wrote, rollbacks>>
  BY DEF Post, CallsInv, LadderInv, TypeOK, database
<1>2. \A v \in Workers, f \in Events : f \in Forgotten(v) => (f \in Forgotten(v))'
  <2>1. \A v \in Workers : answer[v] # "none" => answer'[v] # "none"
    BY <1>1 DEF CallsInv, LadderInv, TypeOK
  <2> QED
    BY <1>1, <2>1 DEF Forgotten
<1>3. hand[w] \notin Forgotten(w) /\ (hand[w] \in Forgotten(w))'
  <2>1. wrote[w][hand[w]] = "none"
    BY <1>1 DEF CallsInv, LadderInv, TransactionsAreOrderly
  <2>2. answer'[w] # "none" /\ hand'[w] = hand[w]
    BY <1>1 DEF CallsInv, LadderInv, TypeOK
  <2> QED
    BY <1>1, <2>1, <2>2 DEF Forgotten, RowStatuses
<1>4. \A f \in Events : Len(log[f]) \in Nat /\ rollbacks \in Nat /\ posts[f] \in Nat
  BY DEF CallsInv, LadderInv, TypeOK
<1>5. \A f \in Events : f # hand[w] => posts'[f] = posts[f]
  BY <1>1 DEF CallsInv, LadderInv, TypeOK
<1>6. \A f \in Events : f # hand[w] =>
        posts'[f] <= Len(log'[f]) + rollbacks' + Cardinality(Forgetting(f)')
  BY <1>1, <1>2, <1>4, <1>5, AccountStands
<1>7. posts'[hand[w]] <= Len(log'[hand[w]]) + rollbacks' + Cardinality(Forgetting(hand[w])')
  <2> DEFINE e == hand[w]
  <2>1. Forgetting(e) \cup {w} \subseteq {v \in Workers : (e \in Forgotten(v))'} /\ w \notin Forgetting(e)
    BY <1>1, <1>2, <1>3 DEF Forgetting
  <2>2. Forgetting(hand[w])' = {v \in Workers : (e \in Forgotten(v))'}
    BY <1>1 DEF Forgetting
  <2>3. IsFiniteSet(Forgetting(e)) /\ IsFiniteSet(Forgetting(e)')
    BY FS_Subset DEF Forgetting
  <2>4. Cardinality(Forgetting(e) \cup {w}) = Cardinality(Forgetting(e)) + 1
    BY <2>1, <2>3, FS_AddElement
  <2>5. Cardinality(Forgetting(e) \cup {w}) <= Cardinality(Forgetting(e)')
    BY <2>1, <2>2, <2>3, FS_Subset
  <2>6. Cardinality(Forgetting(e)) \in Nat /\ Cardinality(Forgetting(e)') \in Nat
    BY <2>3, FS_CardinalityType
  <2>7. posts[e] <= Len(log[e]) + rollbacks + Cardinality(Forgetting(e))
    BY <1>1 DEF CallsInv, CallsAreAccountedFor, Forgetting
  <2>8. posts'[e] = posts[e] + 1
    BY <1>1 DEF CallsInv, LadderInv, TypeOK
  <2> QED
    BY <1>1, <1>4, <2>4, <2>5, <2>6, <2>7, <2>8, SMTT(30)
<1>8. \A f \in Events : posts'[f] <= Len(log'[f]) + rollbacks' + Cardinality(Forgetting(f)')
  <2> SUFFICES ASSUME NEW f \in Events
               PROVE  posts'[f] <= Len(log'[f]) + rollbacks' + Cardinality(Forgetting(f)')
    OBVIOUS
  <2>1. CASE f = hand[w]
    <3>1. Forgetting(f)' = Forgetting(hand[w])'
      BY <1>1, <2>1 DEF Forgetting
    <3> QED
      BY <1>7, <2>1, <3>1
  <2> QED
    BY <1>6, <2>1
<1> QED
  BY <1>8 DEF CallsAreAccountedFor, Forgetting

LEMMA CommitAccount ==
  ASSUME CallsInv, TypeOK', NEW w \in Workers, Commit(w)
  PROVE  CallsAreAccountedFor'
<1>1. /\ Closed(w) /\ hand[w] = NoEvent
      /\ log' = [f \in Events |-> Extended(log[f], wrote[w][f])]
      /\ UNCHANGED <<posts, rollbacks>>
  BY DEF Commit, history
<1>2. \A v \in Workers, f \in Events : v # w /\ f \in Forgotten(v) => (f \in Forgotten(v))'
  BY <1>1, ClosedClaims DEF CallsInv, LadderInv, OthersKept, Forgotten
<1>3. answer[w] = "none"
  BY <1>1 DEF CallsInv, LadderInv, TransactionsAreOrderly
<1>4. \A f \in Events :
        /\ log[f] \in Seq(RowStatuses) /\ log'[f] = Extended(log[f], wrote[w][f])
        /\ Len(log[f]) \in Nat /\ rollbacks \in Nat
        /\ \A n \in 1 .. Len(log[f]) - 1 : log[f][n] = "replayed"
  BY <1>1 DEF CallsInv, LadderInv, TypeOK, OneLadderPerEvent
<1>5. ASSUME NEW f \in Events, f \in Forgotten(w)
      PROVE  posts'[f] <= Len(log'[f]) + rollbacks' + Cardinality(Forgetting(f)')
  <2>1. wrote[w][f] \in RowStatuses
    BY <1>3, <1>5 DEF Forgotten
  <2>2. Len(log'[f]) = Len(log[f]) + 1
    BY <1>4, <2>1, ExtendedRows
  <2> QED
    BY <1>1, <1>2, <1>4, <2>2, AccountSettled
<1>6. ASSUME NEW f \in Events, f \notin Forgotten(w)
      PROVE  posts'[f] <= Len(log'[f]) + rollbacks' + Cardinality(Forgetting(f)')
  <2>1. wrote[w][f] \in {"none", "dropped"}
    BY <1>3, <1>6 DEF Forgotten, CallsInv, LadderInv, TypeOK
  <2>2. wrote[w][f] = "dropped" => log[f] # <<>>
    BY DEF CallsInv, LadderInv, UncommittedRowsFit, ClaimedRowsStay, Keeps, Latest
  <2>3. Len(log'[f]) = Len(log[f])
    BY <1>4, <2>1, <2>2, DroppedRows DEF Extended
  <2> QED
    BY <1>1, <1>2, <1>4, <1>6, <2>3, AccountStands
<1> QED
  BY <1>5, <1>6 DEF CallsAreAccountedFor, Forgetting

LEMMA RollbackAccount ==
  ASSUME CallsInv, TypeOK', NEW w \in Workers, Rollback(w)
  PROVE  CallsAreAccountedFor'
<1>1. /\ Closed(w) /\ UNCHANGED <<posts, log>>
      /\ rollbacks' = IF Forgotten(w) = {} THEN rollbacks ELSE rollbacks + 1
  BY DEF Rollback, database
<1>2. \A v \in Workers, f \in Events : v # w /\ f \in Forgotten(v) => (f \in Forgotten(v))'
  BY <1>1, ClosedClaims DEF CallsInv, LadderInv, OthersKept, Forgotten
<1>3. \A f \in Events : Len(log[f]) \in Nat /\ rollbacks \in Nat
  BY DEF CallsInv, LadderInv, TypeOK
<1>4. ASSUME NEW f \in Events, f \in Forgotten(w)
      PROVE  posts'[f] <= Len(log'[f]) + rollbacks' + Cardinality(Forgetting(f)')
  BY <1>1, <1>2, <1>3, <1>4, AccountSettled
<1>5. ASSUME NEW f \in Events, f \notin Forgotten(w)
      PROVE  posts'[f] <= Len(log'[f]) + rollbacks' + Cardinality(Forgetting(f)')
  BY <1>1, <1>2, <1>3, <1>5, AccountStands
<1> QED
  BY <1>4, <1>5 DEF CallsAreAccountedFor, Forgetting

LEMMA CallsInit == Init => CallsInv
<1> SUFFICES ASSUME Init PROVE CallsAreAccountedFor
  BY LadderInit DEF CallsInv
<1>1. \A e \in Events : posts[e] = 0 /\ Len(log[e]) = 0 /\ rollbacks = 0
  BY DEF Init
<1>2. \A e \in Events : Cardinality(Forgetting(e)) \in Nat
  BY FS_Subset, FS_CardinalityType DEF Forgetting
<1> QED
  BY <1>1, <1>2 DEF CallsAreAccountedFor, Forgetting

LEMMA CallsNext == CallsInv /\ [Next]_vars => CallsInv'
<1> SUFFICES ASSUME CallsInv, [Next]_vars PROVE CallsAreAccountedFor'
  BY LadderNext DEF CallsInv
<1>1. TypeOK'
  BY NextType DEF CallsInv, LadderInv
<1>2. ASSUME UNCHANGED <<posts, log, rollbacks, answer, hand, wrote>> PROVE CallsAreAccountedFor'
  BY <1>1, <1>2, AccountSame DEF Forgotten
<1>3. ASSUME NEW w \in Workers, NEW e \in Events, StartFirst(w, e) \/ StartReplay(w, e)
      PROVE  CallsAreAccountedFor'
  <2>1. UNCHANGED <<posts, log, rollbacks, answer, wrote>> /\ hand' = [hand EXCEPT ![w] = e] /\ kind[w] = "idle"
    BY <1>3 DEF StartFirst, StartReplay, Open, database, history
  <2>2. answer[w] = "none" /\ \A v \in Workers : v # w => hand'[v] = hand[v]
    BY <2>1 DEF CallsInv, LadderInv, TypeOK, TransactionsAreOrderly
  <2>3. \A v \in Workers, f \in Events : f \in Forgotten(v) => (f \in Forgotten(v))'
    BY <2>1, <2>2 DEF Forgotten
  <2> QED
    BY <1>1, <2>1, <2>3, AccountSame
<1>4. ASSUME NEW w \in Workers, NEW e \in Events, TakeRetry(w, e) PROVE CallsAreAccountedFor'
  <2>1. /\ UNCHANGED <<posts, log, rollbacks, answer>> /\ hand[w] = NoEvent /\ e \in todo[w]
        /\ \/ hand' = [hand EXCEPT ![w] = e] /\ wrote' = wrote
           \/ hand' = hand /\ wrote' = [wrote EXCEPT ![w][e] = "dropped"]
    BY <1>4 DEF TakeRetry, database, history
  <2>2. answer[w] = "none" /\ wrote[w][e] = "none"
    BY <2>1 DEF CallsInv, LadderInv, TransactionsAreOrderly
  <2>3. \A v \in Workers : v # w => hand'[v] = hand[v] /\ wrote'[v] = wrote[v]
    BY <2>1 DEF CallsInv, LadderInv, TypeOK
  <2>4. \A f \in Events : f # e => wrote'[w][f] = wrote[w][f]
    BY <2>1 DEF CallsInv, LadderInv, TypeOK
  <2>5. \A v \in Workers, f \in Events : f \in Forgotten(v) => (f \in Forgotten(v))'
    <3> SUFFICES ASSUME NEW v \in Workers, NEW f \in Events, f \in Forgotten(v)
                 PROVE  (f \in Forgotten(v))'
      OBVIOUS
    <3>1. CASE v = w
      <4>1. wrote[w][f] \in RowStatuses
        BY <2>2, <3>1 DEF Forgotten
      <4>2. f # e
        BY <2>2, <4>1 DEF RowStatuses
      <4> QED
        BY <2>4, <3>1, <4>1, <4>2 DEF Forgotten
    <3>2. CASE v # w
      BY <2>1, <2>3, <3>2 DEF Forgotten
    <3> QED
      BY <3>1, <3>2
  <2> QED
    BY <1>1, <2>1, <2>5, AccountSame
<1>5. ASSUME NEW w \in Workers, NEW due \in SUBSET Events, StartRetry(w, due)
      PROVE  CallsAreAccountedFor'
  BY <1>2, <1>5 DEF StartRetry, database, history
<1>6. ASSUME NEW w \in Workers, ClaimReplay(w) PROVE CallsAreAccountedFor'
  BY <1>2, <1>6 DEF ClaimReplay, database, history
<1>7. ASSUME NEW w \in Workers, RefuseReplay(w) PROVE CallsAreAccountedFor'
  <2>1. Closed(w) /\ UNCHANGED <<posts, log, rollbacks>> /\ kind[w] = "claiming"
    BY <1>7 DEF RefuseReplay, database, history
  <2>2. Forgotten(w) \cap Events = {}
    BY <2>1 DEF CallsInv, LadderInv, TransactionsAreOrderly, Forgotten, RowStatuses
  <2>3. \A v \in Workers, f \in Events : f \in Forgotten(v) => (f \in Forgotten(v))'
    BY <2>1, <2>2, ClosedClaims DEF CallsInv, LadderInv, OthersKept, Forgotten
  <2> QED
    BY <1>1, <2>1, <2>3, AccountSame
<1>8. ASSUME NEW w \in Workers, Record(w) PROVE CallsAreAccountedFor'
  <2> DEFINE e == hand[w]
             verdict == Verdict(Len(log[e]) + 1, answer[w])
  <2>1. /\ UNCHANGED <<posts, log, rollbacks>> /\ answer[w] # "none"
        /\ hand' = [hand EXCEPT ![w] = NoEvent] /\ answer' = [answer EXCEPT ![w] = "none"]
        /\ wrote' = [wrote EXCEPT ![w][e] = verdict]
    BY <1>8 DEF Record, database, history
  <2>2. e \in Events /\ verdict \in RowStatuses
    BY <2>1, VerdictIsStatus DEF CallsInv, LadderInv, TypeOK, TransactionsAreOrderly
  <2> HIDE DEF verdict
  <2>3. \A v \in Workers : v # w =>
          hand'[v] = hand[v] /\ answer'[v] = answer[v] /\ wrote'[v] = wrote[v]
    BY <2>1 DEF CallsInv, LadderInv, TypeOK
  <2>4. wrote'[w][e] = verdict /\ \A f \in Events : f # e => wrote'[w][f] = wrote[w][f]
    BY <2>1, <2>2 DEF CallsInv, LadderInv, TypeOK
  <2>5. \A v \in Workers, f \in Events : f \in Forgotten(v) => (f \in Forgotten(v))'
    BY <2>2, <2>3, <2>4 DEF Forgotten
  <2> QED
    BY <1>1, <2>1, <2>5, AccountSame
<1>9. ASSUME NEW a \in Admins, Write(a) PROVE CallsAreAccountedFor'
  BY <1>2, <1>9 DEF Write, tx, history
<1>10. ASSUME NEW a \in Admins, NEW op \in {"pause", "resume", "remove"}, Check(a, op)
       PROVE  CallsAreAccountedFor'
  BY <1>2, <1>10 DEF Check, tx, history, database
<1>11. CASE Revoke
  BY <1>2, <1>11 DEF Revoke, tx, history
<1>12. CASE UNCHANGED vars
  BY <1>2, <1>12 DEF vars, tx, history, database
<1>13. ASSUME NEW w \in Workers, DuplicateFirst(w) \/ Abort(w) PROVE CallsAreAccountedFor'
  BY <1>1, <1>13, RollbackAccount DEF DuplicateFirst, Abort
<1> QED
  BY <1>1, <1>3, <1>4, <1>5, <1>6, <1>7, <1>8, <1>9, <1>10, <1>11, <1>12, <1>13,
     PostAccount, CommitAccount DEF Next

(* No call for an event goes unaccounted: beyond the rows it left there is   *)
(* at most one per transaction that rolled back or is still open.            *)
THEOREM CallsCounted == Spec => []CallsAreAccountedFor
<1>1. CallsInv => CallsAreAccountedFor
  BY DEF CallsInv
<1> QED
  BY <1>1, CallsInit, CallsNext, PTL DEF Spec

-----------------------------------------------------------------------------
(* API clients and their endpoints (WebhookAdmin).                         *)

CONSTANTS None, Requests, ClientKeys, Endpoints, Held, MaxCalls

VARIABLES keys, subs, trail, calls, begun, posting, told, removed, overtaken, reopened, muddled

Con == INSTANCE WebhookAdmin

(* What is committed: keys, endpoints and what is told of them.            *)
RowsFit ==
  /\ keys \in [ClientKeys -> Con!KeyRow \cup {None}]
  /\ subs \in [Endpoints -> Con!EndpointRow \cup {None}]
  /\ \A s \in Endpoints : subs[s] # None =>
       keys[subs[s].client] # None /\ subs[s].account \in keys[subs[s].client].grants
  /\ trail \in [Endpoints -> Con!Statuses \cup {None}]
  /\ \A s \in removed : s \in Endpoints /\ subs[s] # None

RowsHold ==
  /\ RowsFit
  /\ Con!OneLiveEndpoint /\ Con!RemovedStaysRemoved /\ Con!PauseTellsWhy
  /\ Con!RevokedIsQuiet /\ Con!TrailTellsStatus

(* What a request carries: the accounts a revocation is bound to are the   *)
(* key's, a registration is for one of them, and a status was read that    *)
(* allows what is going to be written.                                     *)
Operation == {"create", "revoke", "rotate", "pause", "resume", "remove"}
CallFits(x, ks, rows) ==
  x.step # "idle" =>
    /\ x.op \in Operation
    /\ x.op # "revoke" => x.sub \in Endpoints
    /\ x.op \notin {"create", "revoke"} => rows[x.sub] # None
    /\ x.op \in {"create", "rotate"} => x.secret \in Nat
    /\ x.op \in {"create", "revoke"} => x.key \in ClientKeys
    /\ x.op = "revoke" => ks[x.key] # None /\ x.bound = ks[x.key].grants
    /\ x.op = "create" => x.account \in Con!Accounts
    /\ x.op = "create" /\ (x.via = "client" \/ x.step \in {"read", "reply"}) =>
         ks[x.key] # None /\ x.account \in ks[x.key].grants
    /\ x.op \in {"pause", "resume", "remove"} /\ x.step = "read" => x.seen \in {"active", "paused"}
    /\ x.step = "reply" => x.op \in {"create", "rotate"} /\ rows[x.sub] # None

Steps == {"idle", "guarded", "read", "reply"}
Call == [op : Operation \cup {None}, via : {"client", "console", None}, sub : Endpoints \cup {None},
         key : ClientKeys \cup {None}, account : Con!Accounts \cup {None}, step : Steps,
         seen : Con!Statuses \cup {None}, bound : SUBSET Con!Accounts, secret : Nat \cup {None}]

CallsFit ==
  /\ calls \in [Requests -> Call]
  /\ \A r \in Requests : CallFits(calls[r], keys, subs)
  /\ begun \in 0 .. MaxCalls
  /\ posting \in Endpoints \cup {None} /\ (posting # None => subs[posting] # None)

(* Outside muddled at most one answer is on its way, and it tells what the *)
(* row holds.                                                              *)
Telling(r, s) == calls[r].step = "reply" /\ calls[r].sub = s
SecretsFit ==
  /\ told = [s \in Endpoints |-> told[s]]
  /\ \A s \in Endpoints : subs[s] # None /\ s \notin muddled =>
       /\ \A q, r \in Requests : Telling(q, s) /\ Telling(r, s) => q = r
       /\ \A r \in Requests : Telling(r, s) => calls[r].secret = subs[s].secret
       /\ told[s] = subs[s].secret \/ \E r \in Requests : Telling(r, s)

ConsoleInv == RowsHold /\ CallsFit /\ SecretsFit

(* No request, nothing to write.                                           *)
LEMMA FreeFits == Con!Free \in Call /\ Con!Free.step = "idle" /\ \A ks, rows : CallFits(Con!Free, ks, rows)
BY DEF Con!Free, Call, Steps, CallFits

(* No keys, no endpoints.                                                  *)
LEMMA ConsoleStarts ==
  ASSUME Con!ConsoleConstants, Con!WebhookAdminInit
  PROVE  ConsoleInv
<1>1. /\ keys = [k \in ClientKeys |-> None] /\ subs = [s \in Endpoints |-> None]
      /\ trail = [s \in Endpoints |-> None] /\ told = [s \in Endpoints |-> None]
      /\ calls = [r \in Requests |-> Con!Free] /\ begun = 0 /\ posting = None /\ removed = {}
  BY DEF Con!WebhookAdminInit
<1>2. RowsFit
  BY <1>1 DEF RowsFit
<1>3. \A s \in Endpoints : subs[s] = None
  BY <1>1
<1>4. RowsHold
  BY <1>1, <1>2, <1>3 DEF RowsHold, Con!OneLiveEndpoint, Con!RemovedStaysRemoved, Con!PauseTellsWhy,
     Con!RevokedIsQuiet, Con!TrailTellsStatus, Con!Live
<1>5. CallsFit
  BY <1>1, FreeFits DEF CallsFit, Con!ConsoleConstants
<1>6. SecretsFit
  BY <1>1, <1>3 DEF SecretsFit
<1> QED BY <1>4, <1>5, <1>6 DEF ConsoleInv

(* Keys and endpoints are never deleted, and grants never change.          *)
Grown(ks, rows) ==
  /\ \A k \in ClientKeys : keys[k] # None => ks[k] # None /\ ks[k].grants = keys[k].grants
  /\ \A s \in Endpoints : subs[s] # None => rows[s] # None

(* What a request has read of keys and rows that only grow stays true.     *)
LEMMA CallStillFits ==
  ASSUME NEW x, NEW ks, NEW rows, CallFits(x, keys, subs), Grown(ks, rows)
  PROVE  CallFits(x, ks, rows)
BY DEF CallFits, Grown, Operation

(* One request moves on.                                                   *)
LEMMA CallsMove ==
  ASSUME CallsFit, NEW r \in Requests, NEW x \in Call, calls' = [calls EXCEPT ![r] = x],
         Grown(keys', subs'), CallFits(x, keys', subs'), begun' \in 0 .. MaxCalls, posting' = posting
  PROVE  CallsFit'
<1>1. PICK ks, rows : ks = keys' /\ rows = subs'
  OBVIOUS
<1>2. calls' \in [Requests -> Call] /\ \A q \in Requests : calls'[q] = IF q = r THEN x ELSE calls[q]
  BY DEF CallsFit
<1>3. ASSUME NEW q \in Requests PROVE CallFits(calls'[q], ks, rows)
  <2>1. CallFits(calls[q], keys, subs)
    BY DEF CallsFit
  <2>2. CallFits(calls[q], ks, rows)
    BY <1>1, <2>1, CallStillFits
  <2> QED BY <1>1, <1>2, <2>2
<1>4. posting' # None => subs'[posting'] # None
  BY DEF CallsFit, Grown
<1> QED BY <1>1, <1>2, <1>3, <1>4 DEF CallsFit

(* The others move nothing of theirs.                                      *)
LEMMA CallsRest ==
  ASSUME CallsFit, calls' = calls, Grown(keys', subs'), begun' = begun,
         posting' \in Endpoints \cup {None}, posting' # None => subs'[posting'] # None
  PROVE  CallsFit'
<1>1. PICK ks, rows : ks = keys' /\ rows = subs'
  OBVIOUS
<1>2. ASSUME NEW q \in Requests PROVE CallFits(calls[q], ks, rows)
  <2>1. CallFits(calls[q], keys, subs)
    BY DEF CallsFit
  <2> QED BY <1>1, <2>1, CallStillFits
<1> QED BY <1>1, <1>2 DEF CallsFit

(* Nothing is committed.                                                   *)
LEMMA RowsRest ==
  ASSUME RowsHold, UNCHANGED <<keys, subs, trail, removed, overtaken, reopened>>
  PROVE  RowsHold'
BY DEF RowsHold, RowsFit, Con!OneLiveEndpoint, Con!RemovedStaysRemoved, Con!PauseTellsWhy,
       Con!RevokedIsQuiet, Con!TrailTellsStatus, Con!Live, Con!Taken, Con!IsActive

(* A request that was not telling a secret and is not going to.            *)
LEMMA SecretsRest ==
  ASSUME SecretsFit, CallsFit, told' = told, muddled' = muddled,
         \A s \in Endpoints : subs'[s] # None => subs[s] # None /\ subs'[s].secret = subs[s].secret,
         NEW r \in Requests, NEW x \in Call, calls' = [calls EXCEPT ![r] = x],
         calls[r].step # "reply", x.step # "reply"
  PROVE  SecretsFit'
<1>1. \A q \in Requests : calls'[q] = IF q = r THEN x ELSE calls[q]
  BY DEF CallsFit
<1>2. \A q \in Requests, s \in Endpoints : Telling(q, s)' = Telling(q, s) /\ (Telling(q, s) => calls'[q] = calls[q])
  BY <1>1 DEF Telling
<1> QED BY <1>2 DEF SecretsFit

(* No row changes its secret, no request moves.                            *)
LEMMA SecretsSame ==
  ASSUME SecretsFit, told' = told, muddled' = muddled, calls' = calls,
         \A s \in Endpoints : subs'[s] # None => subs[s] # None /\ subs'[s].secret = subs[s].secret
  PROVE  SecretsFit'
BY DEF SecretsFit, Telling

(* The least growth.                                                       *)
LEMMA NothingGrows == UNCHANGED <<keys, subs>> => Grown(keys', subs')
BY DEF Grown

(* create of ApiClientsService: a new active key.                          *)
LEMMA CreateKeyKeeps ==
  ASSUME Con!ConsoleConstants, ConsoleInv, NEW k \in ClientKeys, NEW h \in Held, Con!CreateKey(k, h)
  PROVE  ConsoleInv'
<1>1. PICK row : row = [status |-> "active", grants |-> h]
  OBVIOUS
<1>2. row \in Con!KeyRow /\ row # None /\ row.status = "active"
  BY <1>1 DEF Con!KeyRow, Con!ConsoleConstants
<1>3. /\ keys[k] = None /\ keys' = [keys EXCEPT ![k] = row]
      /\ UNCHANGED <<subs, trail, calls, begun, posting, told, removed, overtaken, reopened, muddled>>
  BY <1>1 DEF Con!CreateKey
<1>4. RowsHold /\ RowsFit /\ CallsFit /\ SecretsFit
  BY DEF ConsoleInv, RowsHold
<1>5. keys' \in [ClientKeys -> Con!KeyRow \cup {None}] /\ \A j \in ClientKeys : keys'[j] = IF j = k THEN row ELSE keys[j]
  BY <1>2, <1>3, <1>4 DEF RowsFit
<1>6. Grown(keys', subs')
  BY <1>3, <1>5 DEF Grown
<1>7. \A s \in Endpoints : subs[s] # None => subs[s].client \in ClientKeys
  BY <1>4 DEF RowsFit, Con!EndpointRow
<1>8. RowsFit'
  BY <1>3, <1>4, <1>5, <1>7 DEF RowsFit
<1>9. Con!RevokedIsQuiet'
  BY <1>2, <1>3, <1>4, <1>5, <1>7 DEF RowsHold, Con!RevokedIsQuiet, Con!IsActive, Con!Live
<1>10. RowsHold'
  BY <1>3, <1>4, <1>8, <1>9 DEF RowsHold, Con!OneLiveEndpoint, Con!RemovedStaysRemoved, Con!PauseTellsWhy,
     Con!TrailTellsStatus, Con!Live, Con!Taken
<1>11. CallsFit'
  BY <1>3, <1>4, <1>6, CallsRest DEF CallsFit
<1>12. SecretsFit'
  BY <1>3, <1>4, SecretsSame
<1> QED BY <1>10, <1>11, <1>12 DEF ConsoleInv

(* Only a request moves, and nothing is committed.                         *)
LEMMA CallOnly ==
  ASSUME ConsoleInv, NEW r \in Requests, NEW x \in Call, calls' = [calls EXCEPT ![r] = x],
         UNCHANGED <<keys, subs, trail, posting, told, removed, overtaken, reopened, muddled>>,
         begun' \in 0 .. MaxCalls, CallFits(x, keys, subs), calls[r].step # "reply", x.step # "reply"
  PROVE  ConsoleInv'
<1>1. RowsHold /\ CallsFit /\ SecretsFit
  BY DEF ConsoleInv
<1>2. CallsFit'
  BY <1>1, NothingGrows, CallsMove
<1>3. SecretsFit'
  BY <1>1, SecretsRest
<1> QED BY <1>1, <1>2, <1>3, RowsRest DEF ConsoleInv

(* A request is let in; one that makes a secret makes it here.             *)
LEMMA BeginKeeps ==
  ASSUME Con!ConsoleConstants, ConsoleInv, NEW r \in Requests, NEW call \in Call, Con!Begin(r, call),
         call.step = "guarded", call.op \in Operation,
         \A n \in Nat : CallFits(IF call.op \in {"create", "rotate"} THEN [call EXCEPT !.secret = n] ELSE call, keys, subs)
  PROVE  ConsoleInv'
<1>1. begun \in Nat /\ MaxCalls \in Nat /\ begun < MaxCalls /\ begun' = begun + 1 /\ calls[r] = Con!Free
  BY DEF ConsoleInv, CallsFit, Con!Begin, Con!ConsoleConstants
<1>2. PICK x : x = (IF call.op \in {"create", "rotate"} THEN [call EXCEPT !.secret = begun] ELSE call)
  OBVIOUS
<1>3. x \in Call /\ x.step = "guarded" /\ CallFits(x, keys, subs)
  <2>1. x.step = "guarded" /\ x \in Call
    BY <1>1, <1>2 DEF Call
  <2> QED BY <1>1, <1>2, <2>1
<1>4. calls' = [calls EXCEPT ![r] = x]
      /\ UNCHANGED <<keys, subs, trail, posting, told, removed, overtaken, reopened, muddled>>
  BY <1>2 DEF Con!Begin
<1>5. begun' \in 0 .. MaxCalls
  BY <1>1
<1> QED BY <1>1, <1>3, <1>4, <1>5, FreeFits, CallOnly

(* A registration: what the guard has found holds, since grants never      *)
(* change.                                                                 *)
LEMMA RegistersKeep ==
  ASSUME Con!ConsoleConstants, ConsoleInv, NEW r \in Requests, NEW via \in {"client", "console"},
         NEW s \in Endpoints, NEW k \in ClientKeys, NEW account \in Con!Accounts,
         Con!BeginRegister(r, via, s, k, account)
  PROVE  ConsoleInv'
<1>1. PICK x : x = [Con!Free EXCEPT !.op = "create", !.via = via, !.sub = s, !.key = k,
                    !.account = account, !.step = "guarded"]
  OBVIOUS
<1>2. x = [op |-> "create", via |-> via, sub |-> s, key |-> k, account |-> account,
           step |-> "guarded", seen |-> None, bound |-> {}, secret |-> None]
  BY <1>1 DEF Con!Free
<1>3. x \in Call /\ x.step = "guarded" /\ x.op = "create"
  BY <1>2 DEF Call, Steps, Operation
<1>4. via = "client" => keys[k] # None /\ account \in keys[k].grants
  BY DEF Con!BeginRegister, Con!IsActive
<1>5. ASSUME NEW n \in Nat PROVE CallFits([x EXCEPT !.secret = n], keys, subs)
  <2>1. PICK y : y = [x EXCEPT !.secret = n]
    OBVIOUS
  <2>2. /\ y.op = "create" /\ y.via = via /\ y.sub = s /\ y.key = k /\ y.account = account /\ y.step = "guarded"
        /\ y.secret = n
    BY <1>2, <2>1
  <2>3. CallFits(y, keys, subs)
    BY <1>4, <2>2 DEF CallFits, Operation
  <2> QED BY <2>1, <2>3
<1>6. Con!Begin(r, x)
  BY <1>1 DEF Con!BeginRegister
<1> QED BY <1>3, <1>5, <1>6, BeginKeeps DEF Operation

(* A rotation, a pause, a resumption or a removal of a row that exists.    *)
LEMMA ChangesKeep ==
  ASSUME Con!ConsoleConstants, ConsoleInv, NEW r \in Requests, NEW via \in {"client", "console"},
         NEW op \in {"rotate", "pause", "resume", "remove"}, NEW s \in Endpoints, Con!BeginChange(r, via, op, s)
  PROVE  ConsoleInv'
<1>1. PICK x : x = [Con!Free EXCEPT !.op = op, !.via = via, !.sub = s, !.step = "guarded"]
  OBVIOUS
<1>2. x = [op |-> op, via |-> via, sub |-> s, key |-> None, account |-> None,
           step |-> "guarded", seen |-> None, bound |-> {}, secret |-> None]
  BY <1>1 DEF Con!Free
<1>3. x \in Call /\ x.step = "guarded" /\ x.op = op
  BY <1>2 DEF Call, Steps, Operation
<1>4. subs[s] # None /\ Con!Begin(r, x)
  BY <1>1 DEF Con!BeginChange
<1>5. ASSUME NEW n \in Nat
      PROVE  CallFits(IF x.op \in {"create", "rotate"} THEN [x EXCEPT !.secret = n] ELSE x, keys, subs)
  <2>1. PICK y : y = (IF x.op \in {"create", "rotate"} THEN [x EXCEPT !.secret = n] ELSE x)
    OBVIOUS
  <2>2. y.op = op /\ y.sub = s /\ y.step = "guarded" /\ (op = "rotate" => y.secret = n)
    BY <1>2, <2>1
  <2>3. CallFits(y, keys, subs)
    BY <1>4, <2>2 DEF CallFits, Operation
  <2> QED BY <2>1, <2>3
<1> QED BY <1>3, <1>4, <1>5, BeginKeeps DEF Operation

(* A revocation is bound to the grants of its key.                         *)
LEMMA RevocationsKeep ==
  ASSUME Con!ConsoleConstants, ConsoleInv, NEW r \in Requests, NEW k \in ClientKeys, Con!BeginRevoke(r, k)
  PROVE  ConsoleInv'
<1>1. PICK x : x = [Con!Free EXCEPT !.op = "revoke", !.key = k, !.bound = keys[k].grants, !.step = "guarded"]
  OBVIOUS
<1>2. x = [op |-> "revoke", via |-> None, sub |-> None, key |-> k, account |-> None,
           step |-> "guarded", seen |-> None, bound |-> keys[k].grants, secret |-> None]
  BY <1>1 DEF Con!Free
<1>3. keys[k] # None /\ Con!Begin(r, x)
  BY <1>1 DEF Con!BeginRevoke
<1>4. keys[k].grants \in SUBSET Con!Accounts
  BY <1>3 DEF ConsoleInv, RowsHold, RowsFit, Con!KeyRow, Con!Accounts
<1>5. x \in Call /\ x.step = "guarded" /\ x.op = "revoke"
  BY <1>2, <1>4 DEF Call, Steps, Operation
<1>6. CallFits(x, keys, subs)
  BY <1>2, <1>3 DEF CallFits, Operation
<1> QED BY <1>3, <1>5, <1>6, BeginKeeps DEF Operation

(* The row is read in the transaction, and the operation allowed or not.   *)
LEMMA ReadRowKeeps ==
  ASSUME ConsoleInv, NEW r \in Requests, Con!ReadRow(r)
  PROVE  ConsoleInv'
<1>1. PICK x, y :
        /\ x = calls[r]
        /\ y = IF Con!Permits(x) THEN [x EXCEPT !.step = "read", !.seen = Con!SeenBy(x)] ELSE Con!Free
  OBVIOUS
<1>2. x.step = "guarded" /\ calls' = [calls EXCEPT ![r] = y]
      /\ UNCHANGED <<keys, subs, trail, begun, posting, told, removed, overtaken, reopened, muddled>>
  BY <1>1 DEF Con!ReadRow
<1>3. x \in Call /\ CallFits(x, keys, subs) /\ begun \in 0 .. MaxCalls /\ RowsFit
  BY <1>1 DEF ConsoleInv, CallsFit, RowsHold
<1>4. CASE Con!Permits(x)
  <2>1. y = [x EXCEPT !.step = "read", !.seen = Con!SeenBy(x)]
    BY <1>1, <1>4
  <2>2. x.op \in Operation /\ (x.op # "revoke" => x.sub \in Endpoints)
        /\ (x.op \notin {"create", "revoke"} => subs[x.sub] # None)
    BY <1>2, <1>3 DEF CallFits
  <2>3. Con!SeenBy(x) \in Con!Statuses \cup {None}
    BY <1>3, <2>2 DEF Con!SeenBy, RowsFit, Con!EndpointRow
  <2>4. y \in Call
    BY <1>3, <2>1, <2>3 DEF Call, Steps
  <2>5. /\ y.op = x.op /\ y.via = x.via /\ y.sub = x.sub /\ y.key = x.key /\ y.account = x.account /\ y.step = "read"
        /\ y.seen = Con!SeenBy(x) /\ y.bound = x.bound /\ y.secret = x.secret
    BY <1>3, <2>1 DEF Call
  <2>6. x.op = "create" => keys[x.key] # None /\ x.account \in keys[x.key].grants
    BY <1>2, <1>3, <1>4 DEF Con!Permits, Con!MayRegister, Con!IsActive, CallFits
  <2>7. x.op \in {"pause", "resume", "remove"} => Con!SeenBy(x) \in {"active", "paused"}
    <3>1. CASE x.op \in {"pause", "resume"}
      BY <1>4, <3>1 DEF Con!Permits, Con!SeenBy
    <3>2. CASE x.op = "remove"
      <4>1. Con!Live(x.sub)
        BY <1>4, <3>2 DEF Con!Permits
      <4> QED BY <2>3, <3>2, <4>1, <2>2, <1>3 DEF Con!SeenBy, Con!Live, RowsFit, Con!EndpointRow, Con!Statuses
    <3> QED BY <3>1, <3>2
  <2>8. CallFits(y, keys, subs)
    BY <1>2, <1>3, <2>5, <2>6, <2>7 DEF CallFits
  <2> QED BY <1>1, <1>2, <1>3, <2>4, <2>5, <2>8, CallOnly
<1>5. CASE ~Con!Permits(x)
  <2>1. y = Con!Free
    BY <1>1, <1>5
  <2>2. y \in Call /\ y.step = "idle" /\ CallFits(y, keys, subs)
    BY <2>1, FreeFits
  <2> QED BY <1>1, <1>2, <1>3, <2>2, CallOnly
<1> QED BY <1>4, <1>5

(* The answer with the secret arrives or is lost.                          *)
LEMMA ReplyKeeps ==
  ASSUME ConsoleInv, NEW r \in Requests, Con!Reply(r)
  PROVE  ConsoleInv'
<1>1. PICK x : x = calls[r]
  OBVIOUS
<1>2. /\ x.step = "reply" /\ calls' = [calls EXCEPT ![r] = Con!Free]
      /\ UNCHANGED <<keys, subs, trail, begun, posting, removed, overtaken, reopened>>
      /\ \/ told' = [told EXCEPT ![x.sub] = x.secret] /\ muddled' = muddled
         \/ muddled' = muddled \cup {x.sub} /\ told' = told
  BY <1>1 DEF Con!Reply
<1>3. RowsHold /\ CallsFit /\ SecretsFit /\ begun \in 0 .. MaxCalls
  BY DEF ConsoleInv, CallsFit
<1>4. CallsFit'
  BY <1>2, <1>3, NothingGrows, FreeFits, CallsMove
<1>5. x.sub \in Endpoints /\ Telling(r, x.sub)
  BY <1>1, <1>2, <1>3 DEF CallsFit, CallFits, Telling
<1>6. ASSUME NEW q \in Requests, NEW s \in Endpoints
      PROVE  Telling(q, s)' <=> (q # r /\ Telling(q, s))
  BY <1>2, <1>3, FreeFits DEF Telling, CallsFit
<1>7. ASSUME NEW q \in Requests, q # r PROVE calls'[q] = calls[q]
  BY <1>2, <1>3, <1>7 DEF CallsFit
<1>8. SecretsFit'
  <2>1. told' = [s \in Endpoints |-> told'[s]]
    BY <1>2, <1>3 DEF SecretsFit
  <2>2. ASSUME NEW s \in Endpoints, subs[s] # None, s \notin muddled'
        PROVE  /\ \A p, q \in Requests : Telling(p, s)' /\ Telling(q, s)' => p = q
               /\ \A q \in Requests : Telling(q, s)' => calls'[q].secret = subs[s].secret
               /\ told'[s] = subs[s].secret \/ \E q \in Requests : Telling(q, s)'
    <3>1. s \notin muddled
      BY <1>2, <2>2
    <3>2. /\ \A p, q \in Requests : Telling(p, s) /\ Telling(q, s) => p = q
          /\ \A q \in Requests : Telling(q, s) => calls[q].secret = subs[s].secret
          /\ told[s] = subs[s].secret \/ \E q \in Requests : Telling(q, s)
      BY <1>3, <2>2, <3>1 DEF SecretsFit
    <3>3. /\ \A p, q \in Requests : Telling(p, s)' /\ Telling(q, s)' => p = q
          /\ \A q \in Requests : Telling(q, s)' => calls'[q].secret = subs[s].secret
      BY <1>6, <1>7, <3>2
    <3>4. CASE s = x.sub
      BY <1>1, <1>2, <1>3, <1>5, <2>2, <3>2, <3>3, <3>4 DEF SecretsFit
    <3>5. CASE s # x.sub
      <4>1. told'[s] = told[s] /\ ~Telling(r, s)
        BY <1>1, <1>2, <1>3, <3>5 DEF SecretsFit, Telling
      <4> QED BY <1>6, <3>2, <3>3, <4>1
    <3> QED BY <3>4, <3>5
  <2> QED BY <1>2, <2>1, <2>2 DEF SecretsFit
<1> QED BY <1>2, <1>3, <1>4, <1>8, RowsRest DEF ConsoleInv

(* The worker posts to a row that exists.                                  *)
LEMMA StartPostKeeps ==
  ASSUME ConsoleInv, NEW s \in Endpoints, Con!StartPost(s)
  PROVE  ConsoleInv'
<1>1. /\ posting' = s /\ subs[s] # None
      /\ UNCHANGED <<keys, subs, trail, calls, begun, told, removed, overtaken, reopened, muddled>>
  BY DEF Con!StartPost, Con!Live
<1>2. CallsFit'
  BY <1>1, NothingGrows, CallsRest DEF ConsoleInv
<1> QED BY <1>1, <1>2, RowsRest, SecretsSame DEF ConsoleInv

(* One endpoint's row is written, by a request or by the worker.           *)
LEMMA OneRowWritten ==
  ASSUME Con!ConsoleConstants, RowsHold, NEW s \in Endpoints, NEW row \in Con!EndpointRow,
         keys' = keys, subs' = [subs EXCEPT ![s] = row],
         keys[row.client] # None, row.account \in keys[row.client].grants, ~Con!Clashes(s, row),
         trail' \in [Endpoints -> Con!Statuses \cup {None}],
         \A t \in Endpoints : t # s => trail'[t] = trail[t],
         removed' \subseteq removed \cup {s},
         overtaken \subseteq overtaken', reopened \subseteq reopened',
         s \in removed' /\ row.status # "deleted" => s \in overtaken',
         (row.status = "paused") = (row.reason # None), row.noted = (row.reason = "owner"),
         row.status = "active" /\ ~Con!IsActive(row.client) => s \in reopened',
         trail'[s] = row.status \/ (trail'[s] = "active" /\ row.reason = "client_revoked")
  PROVE  RowsHold' /\ Grown(keys', subs')
<1>1. RowsFit /\ row # None
  BY DEF RowsHold, Con!ConsoleConstants
<1>2. subs' \in [Endpoints -> Con!EndpointRow \cup {None}]
      /\ \A t \in Endpoints : subs'[t] = IF t = s THEN row ELSE subs[t]
  BY <1>1 DEF RowsFit
<1>3. RowsFit'
  <2>1. \A t \in removed' : t \in Endpoints /\ subs'[t] # None
    BY <1>1, <1>2 DEF RowsFit
  <2> QED BY <1>1, <1>2, <2>1 DEF RowsFit
<1>4. Con!OneLiveEndpoint'
  <2>1. ASSUME NEW t \in Endpoints, NEW u \in Endpoints, u # t, subs'[t] # None, subs'[u] # None,
               subs'[t].status # "deleted", subs'[u].status # "deleted",
               subs'[u].client = subs'[t].client, subs'[u].account = subs'[t].account
        PROVE  FALSE
    <3>1. CASE t # s /\ u # s
      BY <1>2, <2>1, <3>1 DEF RowsHold, Con!OneLiveEndpoint, Con!Live, Con!Taken
    <3>2. CASE t = s
      BY <1>2, <2>1, <3>2 DEF Con!Clashes, Con!Taken
    <3>3. CASE u = s
      BY <1>2, <2>1, <3>3 DEF Con!Clashes, Con!Taken
    <3> QED BY <3>1, <3>2, <3>3
  <2> QED BY <2>1 DEF Con!OneLiveEndpoint, Con!Live, Con!Taken
<1>5. Con!RemovedStaysRemoved'
  BY <1>2 DEF RowsHold, Con!RemovedStaysRemoved, Con!Live
<1>6. Con!PauseTellsWhy'
  BY <1>2 DEF RowsHold, Con!PauseTellsWhy
<1>7. Con!RevokedIsQuiet'
  BY <1>2 DEF RowsHold, Con!RevokedIsQuiet, Con!Live, Con!IsActive
<1>8. Con!TrailTellsStatus'
  BY <1>2 DEF RowsHold, Con!TrailTellsStatus
<1>9. Grown(keys', subs')
  BY <1>1, <1>2 DEF Grown
<1> QED BY <1>3, <1>4, <1>5, <1>6, <1>7, <1>8, <1>9 DEF RowsHold

(* A row gets a new secret, which its request is going to tell.            *)
LEMMA SecretGiven ==
  ASSUME SecretsFit, CallsFit, NEW s \in Endpoints, NEW r \in Requests, NEW x \in Call,
         calls' = [calls EXCEPT ![r] = x], calls[r].step # "reply",
         x.step = "reply", x.sub = s, subs'[s].secret = x.secret, told' = told,
         \A t \in Endpoints \ {s} : subs'[t] = subs[t],
         muddled \subseteq muddled',
         s \notin muddled' => \A q \in Requests : q # r => ~Telling(q, s)
  PROVE  SecretsFit'
<1>1. \A q \in Requests : calls'[q] = IF q = r THEN x ELSE calls[q]
  BY DEF CallsFit
<1>2. \A q \in Requests, t \in Endpoints : Telling(q, t)' <=> IF q = r THEN t = s ELSE Telling(q, t)
  BY <1>1 DEF Telling
<1>3. \A t \in Endpoints : ~Telling(r, t)
  BY DEF Telling
<1>4. ASSUME NEW t \in Endpoints, subs'[t] # None, t \notin muddled'
      PROVE  /\ \A p, q \in Requests : Telling(p, t)' /\ Telling(q, t)' => p = q
             /\ \A q \in Requests : Telling(q, t)' => calls'[q].secret = subs'[t].secret
             /\ told'[t] = subs'[t].secret \/ \E q \in Requests : Telling(q, t)'
  <2>1. CASE t = s
    BY <1>1, <1>2, <1>4, <2>1
  <2>2. CASE t # s
    BY <1>1, <1>2, <1>3, <1>4, <2>2 DEF SecretsFit
  <2> QED BY <2>1, <2>2
<1> QED BY <1>4 DEF SecretsFit

(* The registration, under ux_acct_webhook_subscriptions_endpoint.         *)
LEMMA RegisterKeeps ==
  ASSUME Con!ConsoleConstants, ConsoleInv, NEW r \in Requests, Con!Register(r)
  PROVE  ConsoleInv'
<1>1. PICK x, s, row : x = calls[r] /\ s = x.sub /\ row = Con!Registered(x)
  OBVIOUS
<1>2. x.step = "read" /\ x.op = "create" /\ UNCHANGED <<keys, begun, posting, told, removed, overtaken, muddled>>
  BY <1>1 DEF Con!Register
<1>3. RowsHold /\ CallsFit /\ SecretsFit /\ x \in Call /\ CallFits(x, keys, subs) /\ begun \in 0 .. MaxCalls
  BY <1>1 DEF ConsoleInv, CallsFit
<1>4. CASE subs[s] # None \/ Con!Clashes(s, row)
  <2>1. calls' = [calls EXCEPT ![r] = Con!Free] /\ UNCHANGED <<subs, trail, reopened>>
    BY <1>1, <1>4 DEF Con!Register
  <2> QED BY <1>1, <1>2, <1>3, <2>1, FreeFits, CallOnly
<1>5. CASE ~(subs[s] # None \/ Con!Clashes(s, row))
  <2>1. PICK y : y = [x EXCEPT !.step = "reply"]
    OBVIOUS
  <2>2. /\ subs' = [subs EXCEPT ![s] = row] /\ trail' = [trail EXCEPT ![s] = "active"]
        /\ reopened' = (IF Con!IsActive(x.key) THEN reopened ELSE reopened \cup {s})
        /\ calls' = [calls EXCEPT ![r] = y]
    BY <1>1, <1>5, <2>1 DEF Con!Register
  <2>3. /\ s \in Endpoints /\ x.key \in ClientKeys /\ x.account \in Con!Accounts /\ x.secret \in Nat
        /\ keys[x.key] # None /\ x.account \in keys[x.key].grants
    BY <1>1, <1>2, <1>3 DEF CallFits
  <2>4. /\ row = [client |-> x.key, account |-> x.account, secret |-> x.secret, status |-> "active",
                  reason |-> None, noted |-> FALSE, failures |-> 0]
        /\ row \in Con!EndpointRow
    BY <1>1, <2>3 DEF Con!Registered, Con!EndpointRow, Con!Statuses
  <2>5. s \notin removed
    BY <1>3, <1>5 DEF RowsHold, RowsFit
  <2>6. trail' \in [Endpoints -> Con!Statuses \cup {None}] /\ trail'[s] = "active"
        /\ \A t \in Endpoints : t # s => trail'[t] = trail[t]
    BY <1>3, <2>2, <2>3 DEF RowsHold, RowsFit, Con!Statuses
  <2>7. /\ row.client = x.key /\ row.account = x.account /\ row.secret = x.secret /\ row.status = "active"
        /\ row.reason = None /\ row.noted = FALSE /\ None # "owner"
    BY <2>4 DEF Con!ConsoleConstants, Con!Reasons
  <2>8. RowsHold' /\ Grown(keys', subs')
    BY <1>2, <1>3, <1>5, <2>2, <2>3, <2>4, <2>5, <2>6, <2>7, OneRowWritten
  <2>9. /\ y \in Call /\ y.step = "reply" /\ y.sub = s /\ y.secret = x.secret /\ y.op = "create" /\ y.key = x.key
        /\ y.account = x.account
    BY <1>1, <1>2, <1>3, <2>1 DEF Call, Steps
  <2>10. subs'[s] = row /\ row # None /\ \A t \in Endpoints \ {s} : subs'[t] = subs[t]
    BY <1>3, <2>2, <2>3, <2>4 DEF RowsHold, RowsFit, Con!ConsoleConstants
  <2>11. CallFits(y, keys', subs')
    BY <1>2, <2>3, <2>9, <2>10 DEF CallFits, Operation
  <2>12. CallsFit'
    BY <1>2, <1>3, <2>2, <2>8, <2>9, <2>11, CallsMove
  <2>13. ASSUME NEW q \in Requests PROVE ~Telling(q, s)
    <3>1. CallFits(calls[q], keys, subs)
      BY <1>3 DEF CallsFit
    <3> QED BY <1>5, <3>1 DEF Telling, CallFits
  <2>14. SecretsFit'
    BY <1>1, <1>2, <1>3, <2>2, <2>3, <2>7, <2>9, <2>10, <2>13, SecretGiven, ZenonT(60)
  <2> QED BY <2>8, <2>12, <2>14 DEF ConsoleInv
<1> QED BY <1>4, <1>5

(* The row a committed endpoint has.                                       *)
LEMMA RowOf ==
  ASSUME RowsHold, NEW s \in Endpoints, subs[s] # None
  PROVE  /\ subs[s] \in Con!EndpointRow
         /\ keys[subs[s].client] # None /\ subs[s].account \in keys[subs[s].client].grants
         /\ subs[s].status # "deleted" => ~Con!Taken(subs, s, subs[s])
         /\ s \in removed /\ subs[s].status # "deleted" => s \in overtaken
         /\ (subs[s].status = "paused") = (subs[s].reason # None)
         /\ subs[s].noted = (subs[s].reason = "owner")
         /\ subs[s].status = "active" /\ ~Con!IsActive(subs[s].client) => s \in reopened
         /\ trail[s] = subs[s].status \/ (trail[s] = "active" /\ subs[s].reason = "client_revoked")
<1>1. RowsFit /\ Con!OneLiveEndpoint /\ Con!RemovedStaysRemoved /\ Con!PauseTellsWhy
      /\ Con!RevokedIsQuiet /\ Con!TrailTellsStatus
  BY DEF RowsHold
<1>2. subs[s] \in Con!EndpointRow /\ keys[subs[s].client] # None /\ subs[s].account \in keys[subs[s].client].grants
  BY <1>1 DEF RowsFit
<1>3. subs[s].status # "deleted" => ~Con!Taken(subs, s, subs[s])
  BY <1>1 DEF Con!OneLiveEndpoint, Con!Live
<1>4. s \in removed /\ subs[s].status # "deleted" => s \in overtaken
  BY <1>1 DEF Con!RemovedStaysRemoved, Con!Live
<1>5. (subs[s].status = "paused") = (subs[s].reason # None) /\ subs[s].noted = (subs[s].reason = "owner")
  BY <1>1 DEF Con!PauseTellsWhy
<1>6. subs[s].status = "active" /\ ~Con!IsActive(subs[s].client) => s \in reopened
  BY <1>1 DEF Con!RevokedIsQuiet, Con!Live
<1>7. trail[s] = subs[s].status \/ (trail[s] = "active" /\ subs[s].reason = "client_revoked")
  BY <1>1 DEF Con!TrailTellsStatus
<1> QED BY <1>2, <1>3, <1>4, <1>5, <1>6, <1>7

(* rotate: the old secret is gone, and the new one not yet told.           *)
LEMMA RotateKeeps ==
  ASSUME Con!ConsoleConstants, ConsoleInv, NEW r \in Requests, Con!Rotate(r)
  PROVE  ConsoleInv'
<1>1. PICK x, s : x = calls[r] /\ s = x.sub
  OBVIOUS
<1>2. PICK y, row : y = [x EXCEPT !.step = "reply"] /\ row = [subs[s] EXCEPT !.secret = x.secret]
  OBVIOUS
<1>3. /\ x.step = "read" /\ x.op = "rotate"
      /\ subs' = [subs EXCEPT ![s] = row] /\ calls' = [calls EXCEPT ![r] = y]
      /\ muddled' = (IF s \in Con!Untold(r) THEN muddled \cup {s} ELSE muddled)
      /\ UNCHANGED <<keys, trail, begun, posting, told, removed, overtaken, reopened>>
  BY <1>1, <1>2 DEF Con!Rotate
<1>4. RowsHold /\ RowsFit /\ CallsFit /\ SecretsFit /\ x \in Call /\ CallFits(x, keys, subs) /\ begun \in 0 .. MaxCalls
  BY <1>1 DEF ConsoleInv, CallsFit, RowsHold
<1>5. s \in Endpoints /\ subs[s] # None /\ x.secret \in Nat
  BY <1>1, <1>3, <1>4 DEF CallFits
<1>6. subs[s] \in Con!EndpointRow
  BY <1>4, <1>5, RowOf
<1>7. /\ row \in Con!EndpointRow /\ row.secret = x.secret /\ row.client = subs[s].client /\ row.account = subs[s].account
      /\ row.status = subs[s].status /\ row.reason = subs[s].reason /\ row.noted = subs[s].noted
  BY <1>2, <1>5, <1>6 DEF Con!EndpointRow
<1>8. ~Con!Clashes(s, row)
  BY <1>4, <1>5, <1>7, RowOf DEF Con!Clashes, Con!Taken
<1>9. trail' \in [Endpoints -> Con!Statuses \cup {None}]
  BY <1>3, <1>4 DEF RowsFit
<1>10. RowsHold' /\ Grown(keys', subs')
  <2>1. /\ keys[row.client] # None /\ row.account \in keys[row.client].grants
        /\ s \in removed /\ row.status # "deleted" => s \in overtaken
        /\ (row.status = "paused") = (row.reason # None) /\ row.noted = (row.reason = "owner")
        /\ row.status = "active" /\ ~Con!IsActive(row.client) => s \in reopened
        /\ trail[s] = row.status \/ (trail[s] = "active" /\ row.reason = "client_revoked")
    BY <1>4, <1>5, <1>7, RowOf
  <2>2. removed' \subseteq removed \cup {s} /\ overtaken \subseteq overtaken' /\ reopened \subseteq reopened'
        /\ \A t \in Endpoints : t # s => trail'[t] = trail[t]
    BY <1>3
  <2> QED BY <1>3, <1>4, <1>5, <1>7, <1>8, <1>9, <2>1, <2>2, OneRowWritten
<1>11. y \in Call /\ y.step = "reply" /\ y.sub = s /\ y.secret = x.secret /\ y.op = "rotate"
  BY <1>1, <1>2, <1>3, <1>4 DEF Call, Steps
<1>12. subs'[s] = row /\ row # None /\ \A t \in Endpoints \ {s} : subs'[t] = subs[t]
  BY <1>3, <1>4, <1>5, <1>7 DEF RowsFit, Con!ConsoleConstants
<1>13. CallFits(y, keys', subs')
  BY <1>5, <1>11, <1>12 DEF CallFits, Operation
<1>14. CallsFit'
  BY <1>3, <1>4, <1>10, <1>11, <1>13, CallsMove
<1>15. muddled \subseteq muddled' /\ (s \notin muddled' => \A q \in Requests : q # r => ~Telling(q, s))
  BY <1>3 DEF Con!Untold, Telling
<1>16. SecretsFit'
  BY <1>1, <1>3, <1>4, <1>5, <1>7, <1>11, <1>12, <1>15, SecretGiven, ZenonT(60)
<1> QED BY <1>10, <1>14, <1>16 DEF ConsoleInv

(* pause, resume and remove, written by id: a status written over another  *)
(* than was read is recorded in overtaken.                                 *)
LEMMA ChangeStatusKeeps ==
  ASSUME Con!ConsoleConstants, ConsoleInv, NEW r \in Requests, Con!ChangeStatus(r)
  PROVE  ConsoleInv'
<1>1. PICK x, s : x = calls[r] /\ s = x.sub
  OBVIOUS
<1>2. PICK old, row : old = subs[s] /\ row = Con!Written(x, old)
  OBVIOUS
<1>3. /\ x.step = "read" /\ x.op \in {"pause", "resume", "remove"}
      /\ calls' = [calls EXCEPT ![r] = Con!Free] /\ UNCHANGED <<keys, begun, posting, told, muddled>>
  BY <1>1 DEF Con!ChangeStatus
<1>4. RowsHold /\ RowsFit /\ CallsFit /\ SecretsFit /\ x \in Call /\ CallFits(x, keys, subs) /\ begun \in 0 .. MaxCalls
  BY <1>1 DEF ConsoleInv, CallsFit, RowsHold
<1>5. s \in Endpoints /\ old # None /\ x.seen \in {"active", "paused"}
  BY <1>1, <1>2, <1>3, <1>4 DEF CallFits
<1>6. CASE Con!Clashes(s, row)
  <2>1. UNCHANGED <<subs, trail, removed, overtaken, reopened>>
    BY <1>1, <1>2, <1>6 DEF Con!ChangeStatus
  <2> QED BY <1>1, <1>3, <1>4, <2>1, FreeFits, CallOnly
<1>7. CASE ~Con!Clashes(s, row)
  <2>1. /\ subs' = [subs EXCEPT ![s] = row] /\ trail' = [trail EXCEPT ![s] = row.status]
        /\ removed' = (IF x.op = "remove" THEN removed \cup {s} ELSE removed)
        /\ overtaken' = (IF old.status = x.seen THEN overtaken ELSE overtaken \cup {s})
        /\ reopened' = (IF x.op = "resume" /\ ~Con!IsActive(row.client) THEN reopened \cup {s} ELSE reopened)
    BY <1>1, <1>2, <1>7 DEF Con!ChangeStatus
  <2>2. old \in Con!EndpointRow /\ keys[old.client] # None /\ old.account \in keys[old.client].grants
        /\ (s \in removed /\ old.status # "deleted" => s \in overtaken)
    BY <1>2, <1>4, <1>5, RowOf
  <2>3. /\ row \in Con!EndpointRow /\ row.client = old.client /\ row.account = old.account /\ row.secret = old.secret
        /\ row.status = (CASE x.op = "pause" -> "paused" [] x.op = "resume" -> "active" [] x.op = "remove" -> "deleted")
        /\ row.reason = (IF x.op = "pause" THEN "owner" ELSE None) /\ row.noted = (x.op = "pause")
    <3>1. CASE x.op = "pause"
      <4>1. row = [old EXCEPT !.status = "paused", !.reason = "owner", !.noted = TRUE]
        BY <1>2, <3>1 DEF Con!Written, Con!SetStatus
      <4> QED BY <2>2, <3>1, <4>1 DEF Con!EndpointRow, Con!Statuses, Con!Reasons
    <3>2. CASE x.op = "resume"
      <4>1. row = [[old EXCEPT !.status = "active", !.reason = None, !.noted = FALSE] EXCEPT !.failures = 0]
        BY <1>2, <3>2 DEF Con!Written, Con!SetStatus, Con!ResetFailures
      <4>2. PICK mid : mid = [old EXCEPT !.status = "active", !.reason = None, !.noted = FALSE]
        OBVIOUS
      <4>3. mid \in Con!EndpointRow /\ mid.client = old.client /\ mid.account = old.account /\ mid.secret = old.secret
            /\ mid.status = "active" /\ mid.reason = None /\ mid.noted = FALSE
        BY <2>2, <4>2 DEF Con!EndpointRow, Con!Statuses, Con!Reasons
      <4>4. row = [mid EXCEPT !.failures = 0]
        BY <4>1, <4>2
      <4> QED BY <3>2, <4>3, <4>4 DEF Con!EndpointRow
    <3>3. CASE x.op = "remove"
      <4>1. row = [old EXCEPT !.status = "deleted", !.reason = None, !.noted = FALSE]
        BY <1>2, <3>3 DEF Con!Written, Con!SetStatus
      <4> QED BY <2>2, <3>3, <4>1 DEF Con!EndpointRow, Con!Statuses, Con!Reasons
    <3> QED BY <1>3, <3>1, <3>2, <3>3
  <2>4. /\ (row.status = "paused") = (row.reason # None) /\ row.noted = (row.reason = "owner")
        /\ row.status = "active" /\ ~Con!IsActive(row.client) => s \in reopened'
    BY <1>3, <2>1, <2>3 DEF Con!ConsoleConstants, Con!Reasons
  <2>5. s \in removed' /\ row.status # "deleted" => s \in overtaken'
    BY <1>3, <1>5, <2>1, <2>2, <2>3
  <2>6. row.status \in Con!Statuses
    BY <2>3 DEF Con!EndpointRow
  <2>7. trail' \in [Endpoints -> Con!Statuses \cup {None}] /\ trail'[s] = row.status
        /\ \A t \in Endpoints : t # s => trail'[t] = trail[t]
    BY <1>4, <1>5, <2>1, <2>6 DEF RowsFit
  <2>8. overtaken \subseteq overtaken' /\ reopened \subseteq reopened' /\ removed' \subseteq removed \cup {s}
    BY <2>1
  <2>9. RowsHold' /\ Grown(keys', subs')
    <3>1. row \in Con!EndpointRow /\ keys[row.client] # None /\ row.account \in keys[row.client].grants
      BY <2>2, <2>3
    <3>2. keys' = keys /\ subs' = [subs EXCEPT ![s] = row]
      BY <1>3, <2>1
    <3>3. trail'[s] = row.status \/ (trail'[s] = "active" /\ row.reason = "client_revoked")
      BY <2>7
    <3> QED BY <1>4, <1>5, <1>7, <2>4, <2>5, <2>7, <2>8, <3>1, <3>2, <3>3, OneRowWritten
  <2>10. CallsFit'
    BY <1>3, <1>4, <2>9, FreeFits, CallsMove
  <2>11. \A t \in Endpoints : subs'[t] # None => subs[t] # None /\ subs'[t].secret = subs[t].secret
    BY <1>2, <1>4, <1>5, <2>1, <2>3 DEF RowsFit
  <2>12. SecretsFit'
    BY <1>1, <1>3, <1>4, <2>11, FreeFits, SecretsRest
  <2> QED BY <2>9, <2>10, <2>12 DEF ConsoleInv
<1> QED BY <1>6, <1>7

(* revokeClient reaches every active endpoint of the key, all of them being*)
(* for accounts granted to it.                                             *)
LEMMA RevokeKeeps ==
  ASSUME Con!ConsoleConstants, ConsoleInv, NEW r \in Requests, Con!Revoke(r)
  PROVE  ConsoleInv'
<1>1. PICK x, k : x = calls[r] /\ k = x.key
  OBVIOUS
<1>2. PICK key : key = [keys[k] EXCEPT !.status = "revoked"]
  OBVIOUS
<1>3. /\ x.step = "read" /\ x.op = "revoke"
      /\ keys' = [keys EXCEPT ![k] = key]
      /\ subs' = [s \in Endpoints |-> Con!Revoked(k, x.bound, subs[s])]
      /\ calls' = [calls EXCEPT ![r] = Con!Free]
      /\ UNCHANGED <<trail, begun, posting, told, removed, overtaken, reopened, muddled>>
  BY <1>1, <1>2 DEF Con!Revoke
<1>4. RowsHold /\ RowsFit /\ CallsFit /\ SecretsFit /\ x \in Call /\ CallFits(x, keys, subs) /\ begun \in 0 .. MaxCalls
  BY <1>1 DEF ConsoleInv, CallsFit, RowsHold
<1>5. k \in ClientKeys /\ keys[k] # None /\ x.bound = keys[k].grants /\ keys[k] \in Con!KeyRow
  BY <1>1, <1>3, <1>4 DEF CallFits, RowsFit
<1>6. key \in Con!KeyRow /\ key # None /\ key.grants = keys[k].grants /\ key.status = "revoked"
  BY <1>2, <1>5 DEF Con!KeyRow, Con!ConsoleConstants
<1>7. keys' \in [ClientKeys -> Con!KeyRow \cup {None}] /\ \A j \in ClientKeys : keys'[j] = IF j = k THEN key ELSE keys[j]
  BY <1>3, <1>4, <1>6 DEF RowsFit
<1>8. ASSUME NEW s \in Endpoints
      PROVE  /\ subs'[s] \in Con!EndpointRow \cup {None} /\ (subs'[s] = None) = (subs[s] = None)
             /\ subs[s] # None =>
                  /\ subs'[s].client = subs[s].client /\ subs'[s].account = subs[s].account
                  /\ subs'[s].secret = subs[s].secret /\ subs'[s].noted = subs[s].noted
                  /\ (subs'[s].status = "deleted") = (subs[s].status = "deleted")
                  /\ IF subs[s].client = k /\ subs[s].status = "active"
                     THEN subs'[s].status = "paused" /\ subs'[s].reason = "client_revoked"
                     ELSE subs'[s] = subs[s]
  <2>1. subs'[s] = Con!Revoked(k, x.bound, subs[s])
    BY <1>3
  <2>2. CASE subs[s] = None
    BY <2>1, <2>2 DEF Con!Revoked
  <2>3. CASE subs[s] # None
    <3>1. subs[s] \in Con!EndpointRow /\ subs[s].account \in keys[subs[s].client].grants
      BY <1>4, <2>3, RowOf
    <3>2. CASE subs[s].client = k /\ subs[s].status = "active"
      <4>1. subs'[s] = [subs[s] EXCEPT !.status = "paused", !.reason = "client_revoked"]
        BY <1>5, <2>1, <2>3, <3>1, <3>2 DEF Con!Revoked
      <4>2. subs'[s] \in Con!EndpointRow
        BY <3>1, <4>1 DEF Con!EndpointRow, Con!Statuses, Con!Reasons
      <4>3. subs'[s] # None
        BY <4>2 DEF Con!ConsoleConstants
      <4> QED BY <2>3, <3>1, <3>2, <4>1, <4>2, <4>3 DEF Con!EndpointRow
    <3>3. CASE ~(subs[s].client = k /\ subs[s].status = "active")
      <4>1. subs'[s] = subs[s]
        BY <2>1, <3>3 DEF Con!Revoked
      <4> QED BY <2>3, <3>1, <3>3, <4>1
    <3> QED BY <3>2, <3>3
  <2> QED BY <2>2, <2>3
<1>9. Grown(keys', subs')
  BY <1>6, <1>7, <1>8 DEF Grown
<1>10. \A s \in Endpoints : subs[s] # None => subs[s].client \in ClientKeys
  BY <1>4 DEF RowsFit, Con!EndpointRow
<1>11. RowsFit'
  <2>1. subs' \in [Endpoints -> Con!EndpointRow \cup {None}]
    BY <1>3, <1>8
  <2>2. \A s \in Endpoints : subs'[s] # None =>
          keys'[subs'[s].client] # None /\ subs'[s].account \in keys'[subs'[s].client].grants
    BY <1>4, <1>6, <1>7, <1>8, <1>10 DEF RowsFit
  <2>3. \A s \in removed' : s \in Endpoints /\ subs'[s] # None
    BY <1>3, <1>4, <1>8 DEF RowsFit
  <2> QED BY <1>3, <1>4, <1>7, <2>1, <2>2, <2>3 DEF RowsFit
<1>12. Con!OneLiveEndpoint'
  <2>1. ASSUME NEW s \in Endpoints, Con!Live(s)', NEW t \in Endpoints \ {s}, subs'[t] # None,
               subs'[t].status # "deleted", subs'[t].client = subs'[s].client, subs'[t].account = subs'[s].account
        PROVE  FALSE
    <3>1. subs'[s] # None /\ subs'[s].status # "deleted"
      BY <2>1 DEF Con!Live
    <3>2. subs[s] # None /\ subs[s].status # "deleted" /\ subs[t] # None /\ subs[t].status # "deleted"
          /\ subs[t].client = subs[s].client /\ subs[t].account = subs[s].account
      BY <1>8, <2>1, <3>1
    <3> QED BY <1>4, <3>2 DEF RowsHold, Con!OneLiveEndpoint, Con!Live, Con!Taken
  <2> QED BY <2>1 DEF Con!OneLiveEndpoint, Con!Taken
<1>13. Con!RemovedStaysRemoved'
  BY <1>3, <1>4, <1>8 DEF RowsHold, RowsFit, Con!RemovedStaysRemoved, Con!Live
<1>14. Con!PauseTellsWhy'
  <2>1. ASSUME NEW s \in Endpoints, subs'[s] # None
        PROVE  /\ (subs'[s].status = "paused") = (subs'[s].reason # None)
               /\ subs'[s].noted = (subs'[s].reason = "owner")
    <3>1. subs[s] # None
      BY <1>8, <2>1
    <3>2. (subs[s].status = "paused") = (subs[s].reason # None) /\ subs[s].noted = (subs[s].reason = "owner")
      BY <1>4, <3>1, RowOf
    <3>3. None # "client_revoked" /\ None # "owner"
      BY DEF Con!ConsoleConstants, Con!Reasons
    <3>4. CASE subs[s].client = k /\ subs[s].status = "active"
      BY <1>8, <3>1, <3>2, <3>3, <3>4
    <3>5. CASE ~(subs[s].client = k /\ subs[s].status = "active")
      BY <1>8, <3>1, <3>2, <3>5
    <3> QED BY <3>4, <3>5
  <2> QED BY <2>1 DEF Con!PauseTellsWhy
<1>15. Con!RevokedIsQuiet'
  <2>1. ASSUME NEW s \in Endpoints, subs'[s] # None, subs'[s].status = "active", ~Con!IsActive(subs[s].client)'
        PROVE  s \in reopened'
    <3>1. subs[s] # None /\ subs'[s] = subs[s] /\ subs[s].client # k /\ subs[s].client \in ClientKeys
      BY <1>8, <1>10, <2>1
    <3>2. ~Con!IsActive(subs[s].client)
      BY <1>7, <2>1, <3>1 DEF Con!IsActive
    <3> QED BY <1>3, <1>4, <2>1, <3>1, <3>2, RowOf
  <2>2. ASSUME NEW s \in Endpoints, Con!Live(s)', subs'[s].status = "active" PROVE subs'[s].client = subs[s].client
    BY <1>8, <2>2 DEF Con!Live
  <2> QED BY <2>1, <2>2 DEF Con!RevokedIsQuiet, Con!Live, Con!IsActive
<1>16. Con!TrailTellsStatus'
  <2>1. ASSUME NEW s \in Endpoints, subs'[s] # None
        PROVE  trail[s] = subs'[s].status \/ (trail[s] = "active" /\ subs'[s].reason = "client_revoked")
    <3>1. subs[s] # None
      BY <1>8, <2>1
    <3>2. trail[s] = subs[s].status \/ (trail[s] = "active" /\ subs[s].reason = "client_revoked")
      BY <1>4, <3>1, RowOf
    <3> QED BY <1>8, <3>1, <3>2
  <2> QED BY <1>3, <2>1 DEF Con!TrailTellsStatus
<1>17. CallsFit'
  BY <1>3, <1>4, <1>9, FreeFits, CallsMove
<1>18. SecretsFit'
  <2>1. \A t \in Endpoints : subs'[t] # None => subs[t] # None /\ subs'[t].secret = subs[t].secret
    BY <1>8
  <2> QED BY <1>1, <1>3, <1>4, <2>1, FreeFits, SecretsRest
<1> QED BY <1>11, <1>12, <1>13, <1>14, <1>15, <1>16, <1>17, <1>18 DEF ConsoleInv, RowsHold

(* recordOutcome and the automatic pause of the worker.                    *)
LEMMA RecordPostKeeps ==
  ASSUME Con!ConsoleConstants, ConsoleInv, NEW delivered \in BOOLEAN, Con!RecordPost(delivered)
  PROVE  ConsoleInv'
<1>1. PICK s, old : s = posting /\ old = subs[s]
  OBVIOUS
<1>2. PICK row : row = Con!Outcome(old, delivered)
  OBVIOUS
<1>3. s # None /\ posting' = None /\ UNCHANGED <<keys, calls, begun, told, removed, reopened, muddled>>
  BY <1>1 DEF Con!RecordPost
<1>4. RowsHold /\ RowsFit /\ CallsFit /\ SecretsFit /\ s \in Endpoints /\ old # None
  BY <1>1, <1>3 DEF ConsoleInv, CallsFit, RowsHold
<1>5. CASE Con!Clashes(s, row)
  <2>1. UNCHANGED <<subs, trail, overtaken>>
    BY <1>1, <1>2, <1>5 DEF Con!RecordPost
  <2>2. CallsFit'
    BY <1>3, <1>4, <2>1, NothingGrows, CallsRest
  <2> QED BY <1>3, <1>4, <2>1, <2>2, RowsRest, SecretsSame DEF ConsoleInv
<1>6. CASE ~Con!Clashes(s, row)
  <2>1. /\ subs' = [subs EXCEPT ![s] = row]
        /\ trail' = (IF row.reason = "continuous_failure" /\ ~delivered THEN [trail EXCEPT ![s] = "paused"] ELSE trail)
        /\ overtaken' = (IF old.status # "active" /\ row.status # old.status THEN overtaken \cup {s} ELSE overtaken)
    BY <1>1, <1>2, <1>6 DEF Con!RecordPost
  <2>2. /\ old \in Con!EndpointRow /\ keys[old.client] # None /\ old.account \in keys[old.client].grants
        /\ (s \in removed /\ old.status # "deleted" => s \in overtaken)
        /\ (old.status = "paused") = (old.reason # None) /\ old.noted = (old.reason = "owner")
        /\ old.status = "active" /\ ~Con!IsActive(old.client) => s \in reopened
        /\ trail[s] = old.status \/ (trail[s] = "active" /\ old.reason = "client_revoked")
    BY <1>1, <1>4, RowOf
  <2>3. PICK counted : counted = [old EXCEPT !.failures = IF delivered THEN 0 ELSE old.failures + 1]
    OBVIOUS
  <2>4. /\ counted \in Con!EndpointRow /\ counted.client = old.client /\ counted.account = old.account
        /\ counted.secret = old.secret /\ counted.status = old.status /\ counted.reason = old.reason
        /\ counted.noted = old.noted
    BY <2>2, <2>3 DEF Con!EndpointRow
  <2>5. row = IF ~delivered /\ counted.failures >= PauseAfter
              THEN [counted EXCEPT !.status = "paused", !.reason = "continuous_failure", !.noted = FALSE] ELSE counted
    BY <1>2, <2>3 DEF Con!Outcome, Con!SetStatus
  <2>6. /\ row \in Con!EndpointRow /\ row.client = old.client /\ row.account = old.account /\ row.secret = old.secret
        /\ \/ row.status = "paused" /\ row.reason = "continuous_failure" /\ row.noted = FALSE /\ ~delivered
           \/ row.status = old.status /\ row.reason = old.reason /\ row.noted = old.noted
    <3>1. CASE ~delivered /\ counted.failures >= PauseAfter
      <4>1. row = [counted EXCEPT !.status = "paused", !.reason = "continuous_failure", !.noted = FALSE]
        BY <2>5, <3>1
      <4> QED BY <2>4, <3>1, <4>1 DEF Con!EndpointRow, Con!Statuses, Con!Reasons
    <3>2. CASE ~(~delivered /\ counted.failures >= PauseAfter)
      <4>1. row = counted
        BY <2>5, <3>2
      <4> QED BY <2>4, <4>1
    <3> QED BY <3>1, <3>2
  <2>7. None # "continuous_failure"
    BY DEF Con!ConsoleConstants, Con!Reasons
  <2>8. /\ (row.status = "paused") = (row.reason # None) /\ row.noted = (row.reason = "owner")
        /\ row.status = "active" /\ ~Con!IsActive(row.client) => s \in reopened'
    BY <1>3, <2>2, <2>6, <2>7
  <2>9. s \in removed' /\ row.status # "deleted" => s \in overtaken'
    <3>1. CASE old.status = "deleted"
      BY <2>1, <2>6, <3>1
    <3>2. CASE old.status # "deleted"
      BY <1>3, <2>1, <2>2, <3>2
    <3> QED BY <3>1, <3>2
  <2>10. trail' \in [Endpoints -> Con!Statuses \cup {None}] /\ \A t \in Endpoints : t # s => trail'[t] = trail[t]
    BY <1>4, <2>1 DEF RowsFit, Con!Statuses
  <2>11. trail'[s] = row.status \/ (trail'[s] = "active" /\ row.reason = "client_revoked")
    <3>1. CASE row.reason = "continuous_failure" /\ ~delivered
      <4>1. trail'[s] = "paused"
        BY <1>4, <2>1, <3>1 DEF RowsFit
      <4> QED BY <2>7, <2>8, <3>1, <4>1
    <3>2. CASE ~(row.reason = "continuous_failure" /\ ~delivered)
      BY <2>1, <2>2, <2>6, <3>2
    <3> QED BY <3>1, <3>2
  <2>12. overtaken \subseteq overtaken' /\ reopened \subseteq reopened' /\ removed' \subseteq removed \cup {s}
    BY <1>3, <2>1
  <2>13. RowsHold' /\ Grown(keys', subs')
    BY <1>3, <1>4, <1>6, <2>1, <2>2, <2>6, <2>8, <2>9, <2>10, <2>11, <2>12, OneRowWritten
  <2>14. CallsFit'
    BY <1>3, <1>4, <2>13, CallsRest
  <2>15. \A t \in Endpoints : subs'[t] # None => subs[t] # None /\ subs'[t].secret = subs[t].secret
    BY <1>1, <1>4, <2>1, <2>6 DEF RowsFit
  <2>16. SecretsFit'
    BY <1>3, <1>4, <2>15, SecretsSame
  <2> QED BY <2>13, <2>14, <2>16 DEF ConsoleInv
<1> QED BY <1>5, <1>6

(* Every request and every step of the worker keeps it.                    *)
LEMMA ConsoleStep ==
  ASSUME Con!ConsoleConstants, ConsoleInv, [Con!WebhookAdminNext]_(Con!webhookAdminVars)
  PROVE  ConsoleInv'
<1>1. CASE UNCHANGED Con!webhookAdminVars
  <2>1. UNCHANGED <<keys, subs, trail, calls, begun, posting, told, removed, overtaken, reopened, muddled>>
    BY <1>1 DEF Con!webhookAdminVars
  <2>2. CallsFit'
    BY <2>1, NothingGrows, CallsRest DEF ConsoleInv, CallsFit
  <2> QED BY <2>1, <2>2, RowsRest, SecretsSame DEF ConsoleInv
<1>2. CASE Con!WebhookAdminNext
  BY <1>2, CreateKeyKeeps, RegistersKeep, ChangesKeep, RevocationsKeep, ReadRowKeeps, RegisterKeeps, RotateKeeps,
     ReplyKeeps, ChangeStatusKeeps, RevokeKeeps, StartPostKeeps, RecordPostKeeps DEF Con!WebhookAdminNext
<1> QED BY <1>1, <1>2

(* Whatever requests of the console and of integrators overlap with each   *)
(* other and with the worker (webhooks.module.ts), every endpoint is for an*)
(* account granted to its key, an open request carries what its operation  *)
(* may write, and a secret not yet told is in exactly one answer.          *)
THEOREM ConsoleInvariant ==
  ASSUME Con!ConsoleConstants
  PROVE  Con!WebhookAdminInit /\ [][Con!WebhookAdminNext]_(Con!webhookAdminVars) => []ConsoleInv
<1>1. Con!WebhookAdminInit => ConsoleInv
  BY ConsoleStarts
<1>2. ConsoleInv /\ [Con!WebhookAdminNext]_(Con!webhookAdminVars) => ConsoleInv'
  BY ConsoleStep
<1> QED BY <1>1, <1>2, PTL

(* Endpoints of webhooks.module.ts: one live one per key, account and      *)
(* address; a removed one comes back only by a write from a stale reading; *)
(* a pause has its reason; no active endpoint of a revoked key but the     *)
(* recorded ones; the audit trail tells the status; the holder knows the   *)
(* secret unless answers were lost or rotations overlapped.                *)
THEOREM ConsoleIsSafe ==
  ASSUME Con!ConsoleConstants
  PROVE  Con!WebhookAdminInit /\ [][Con!WebhookAdminNext]_(Con!webhookAdminVars) =>
           [](/\ Con!WebhookAdminTypeOK
              /\ Con!OneLiveEndpoint /\ Con!RemovedStaysRemoved /\ Con!PauseTellsWhy
              /\ Con!RevokedIsQuiet /\ Con!TrailTellsStatus /\ Con!SecretIsTold)
<1>1. ASSUME ConsoleInv PROVE Con!WebhookAdminTypeOK
  BY <1>1 DEF ConsoleInv, RowsHold, RowsFit, CallsFit, Call, Steps, Con!WebhookAdminTypeOK
<1>2. ASSUME ConsoleInv PROVE Con!SecretIsTold
  <2>1. ASSUME NEW s \in Endpoints, subs[s] # None, s \notin muddled, told[s] # subs[s].secret
        PROVE  \E r \in Requests : calls[r].sub = s /\ calls[r].step = "reply"
    BY <1>2, <2>1 DEF ConsoleInv, SecretsFit, Telling
  <2> QED BY <2>1 DEF Con!SecretIsTold
<1>3. ConsoleInv => /\ Con!OneLiveEndpoint /\ Con!RemovedStaysRemoved /\ Con!PauseTellsWhy
                    /\ Con!RevokedIsQuiet /\ Con!TrailTellsStatus
  BY DEF ConsoleInv, RowsHold
<1> QED BY <1>1, <1>2, <1>3, ConsoleInvariant, PTL
=============================================================================
