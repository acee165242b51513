-------------------------- MODULE SyncQueueProofs --------------------------
(***************************************************************************)
(* Proofs about the outbound queue of one connector instance: for every    *)
(* number of rows, every finite set of overlapping runs, every batch size  *)
(* and every bound on attempts and disturbances.                           *)
(***************************************************************************)
EXTENDS SyncQueue, FiniteSetTheorems, NaturalsInduction, WellFoundedInduction, TLAPS

USE QueueAssumption DEF Rows

-----------------------------------------------------------------------------
(* The oldest row of a batch *)

LEMMA LeastIsLeast ==
  ASSUME NEW rows \in SUBSET Rows, rows # {}
  PROVE  Least(rows) \in rows /\ \A q \in rows : Least(rows) <= q
<1>1. PICK r \in rows : \A q \in rows : ~(<<q, r>> \in OpToRel(<, Nat))
  <2>1. rows \in SUBSET Nat
    OBVIOUS
  <2> QED
    BY <2>1, NatLessThanWellFounded, WFMin
<1>2. ASSUME NEW q \in rows PROVE r <= q
  <2>1. q \in Nat /\ r \in Nat
    OBVIOUS
  <2>2. ~(<<q, r>> \in {ss \in Nat \X Nat : ss[1] < ss[2]})
    BY <1>1 DEF OpToRel
  <2>3. ~(q < r)
    BY <2>1, <2>2
  <2> QED
    BY <2>1, <2>3
<1> QED
  BY <1>2 DEF Least

(* A claim takes the oldest of the rows it sees: none it leaves is older     *)
(* than one it takes.                                                        *)
LEMMA OldestIsPrefix ==
  ASSUME NEW rows \in SUBSET Rows, NEW r \in Oldest(rows), NEW q \in rows, q < r
  PROVE  q \in Oldest(rows)
<1> DEFINE below(n) == {p \in rows : p < n}
<1>0. r \in rows /\ r \in Nat /\ q \in Nat /\ rows \subseteq Nat
  BY DEF Oldest
<1>1. below(q) \subseteq below(r)
  <2> SUFFICES ASSUME NEW p \in rows, p < q PROVE p < r
    OBVIOUS
  <2> p \in Nat
    BY <1>0
  <2> QED
    BY <1>0
<1>2. IsFiniteSet(1 .. N)
  BY FS_Interval
<1>3. IsFiniteSet(below(r))
  BY <1>2, FS_Subset
<1>4. Cardinality(below(q)) <= Cardinality(below(r)) /\ IsFiniteSet(below(q))
  BY <1>1, <1>3, FS_Subset
<1>5. Cardinality(below(q)) \in Nat /\ Cardinality(below(r)) \in Nat
  BY <1>3, <1>4, FS_CardinalityType
<1>6. Cardinality(below(r)) < Batch
  BY DEF Oldest
<1>7. Cardinality(below(q)) < Batch
  BY <1>4, <1>5, <1>6
<1> QED
  BY <1>7 DEF Oldest

LEMMA RowIsHeld ==
  ASSUME TypeOK, NEW d \in Runs, batch[d] # {}
  PROVE  Row(d) \in batch[d] /\ Row(d) \in Rows /\ \A q \in batch[d] : Row(d) <= q
<1>1. batch[d] \in SUBSET Rows
  BY DEF TypeOK
<1> QED
  BY <1>1, LeastIsLeast DEF Row
-----------------------------------------------------------------------------
(* Types, and what the rows and the runs keep of one another *)

(* A row that may still be delivered has attempts left, here and in the      *)
(* runs that claimed it; rows are queued in order.                           *)
AttemptsLeft ==
  /\ \A r \in Rows : status[r] \in {"none", "pending", "waiting"} => attempts[r] < MaxAttempts
  /\ \A d \in Runs, r \in Rows : seen[d][r] < MaxAttempts

QueuedInOrder ==
  /\ \A q, r \in Rows : q < r /\ status[r] # "none" => status[q] # "none"
  /\ \A r \in Rows : status[r] = "none" => letters[r] = 0
  /\ \A d \in Runs : \A r \in batch[d] : status[r] # "none"

RunsFit == \A d \in Runs : batch[d] = {} => phase[d] = "ready"

QueueInv == TypeOK /\ AttemptsLeft /\ QueuedInOrder /\ RunsFit

(* What a step does to the runs: d passes its row, or goes on with it.       *)
LEMMA PassRuns ==
  ASSUME TypeOK, NEW d \in Runs, batch[d] # {}, Pass(d)
  PROVE  /\ \A c \in Runs : c # d => batch'[c] = batch[c] /\ seen'[c] = seen[c] /\ phase'[c] = phase[c]
         /\ batch'[d] = batch[d] \ {Row(d)} /\ phase'[d] = "ready"
         /\ seen'[d] \in [Rows -> 0 .. MaxAttempts]
         /\ \A r \in Rows : seen'[d][r] = IF r = Row(d) THEN 0 ELSE seen[d][r]
         /\ batch' \in [Runs -> SUBSET Rows] /\ phase' \in [Runs -> Phases]
         /\ seen' \in [Runs -> [Rows -> 0 .. MaxAttempts]] /\ entry' \in [Runs -> Nat]
<1>1. Row(d) \in Rows
  BY RowIsHeld
<1>2. seen \in [Runs -> [Rows -> 0 .. MaxAttempts]] /\ seen' = [seen EXCEPT ![d][Row(d)] = 0]
  BY DEF TypeOK, Pass
<1>3. /\ seen' \in [Runs -> [Rows -> 0 .. MaxAttempts]]
      /\ \A c \in Runs : c # d => seen'[c] = seen[c]
      /\ \A r \in Rows : seen'[d][r] = IF r = Row(d) THEN 0 ELSE seen[d][r]
  BY <1>1, <1>2
<1> QED
  BY <1>3 DEF TypeOK, Pass, Phases

LEMMA GotoRuns ==
  ASSUME TypeOK, NEW d \in Runs, NEW there \in Phases, Goto(d, there)
  PROVE  /\ \A c \in Runs : c # d => phase'[c] = phase[c]
         /\ phase'[d] = there /\ batch' = batch /\ seen' = seen /\ entry' = entry
         /\ phase' \in [Runs -> Phases]
BY DEF TypeOK, Goto

LEMMA QueueInit == Init => QueueInv
<1> SUFFICES ASSUME Init PROVE QueueInv
  OBVIOUS
<1>1. /\ \A r \in Rows : status[r] = "none" /\ attempts[r] = 0 /\ letters[r] = 0
      /\ \A d \in Runs : batch[d] = {} /\ phase[d] = "ready" /\ \A r \in Rows : seen[d][r] = 0
  BY DEF Init, Unread
<1>2. AttemptsLeft /\ QueuedInOrder /\ RunsFit
  BY <1>1 DEF AttemptsLeft, QueuedInOrder, RunsFit
<1>3. seen \in [Runs -> [Rows -> 0 .. MaxAttempts]]
  <2>1. Unread \in [Rows -> 0 .. MaxAttempts]
    BY DEF Unread
  <2> QED
    BY <2>1 DEF Init
<1>4. /\ status \in [Rows -> {"none", "pending", "waiting"} \cup Settled]
      /\ attempts \in [Rows -> 0 .. MaxAttempts] /\ letters \in [Rows -> Nat]
  BY DEF Init
<1>5. /\ batch \in [Runs -> SUBSET Rows] /\ phase \in [Runs -> Phases]
      /\ disturbances \in 0 .. MaxDisturbances
  BY DEF Init, Phases
<1>6. TypeOK
  <2>1. /\ remote \in Seq(Rows \cup {Client}) /\ afterTrip \in Nat
        /\ newest \subseteq DOMAIN remote /\ taken \subseteq Nat
    BY DEF Init
  <2>2. gone \in BOOLEAN /\ unlinked \in BOOLEAN /\ tripped \in BOOLEAN
    BY DEF Init
  <2>3. /\ discarded \subseteq Rows /\ linked \subseteq Rows /\ misread \subseteq Rows
        /\ excused \subseteq Rows /\ troubled \subseteq Rows /\ entry \in [Runs -> Nat]
    BY DEF Init
  <2> QED
    BY <1>3, <1>4, <1>5, <2>1, <2>2, <2>3 DEF TypeOK
<1> QED
  BY <1>2, <1>6 DEF QueueInv

(* The settled row of a pass: the attempts read at the claim, and one more.  *)
LEMMA SettledRow ==
  ASSUME QueueInv, NEW d \in Runs, batch[d] # {}, NEW outcome, Settle(d, outcome)
  PROVE  /\ AttemptsOf(d) \in 1 .. MaxAttempts
         /\ status' = [status EXCEPT ![Row(d)] = outcome]
         /\ attempts' \in [Rows -> 0 .. MaxAttempts]
         /\ attempts' = [attempts EXCEPT ![Row(d)] = AttemptsOf(d)]
<1>1. Row(d) \in Rows
  BY RowIsHeld DEF QueueInv
<1>2. seen[d][Row(d)] \in Nat /\ seen[d][Row(d)] < MaxAttempts
  BY <1>1, SMTT(30) DEF QueueInv, TypeOK, AttemptsLeft
<1>3. AttemptsOf(d) \in 1 .. MaxAttempts
  BY <1>2 DEF AttemptsOf
<1> QED
  BY <1>1, <1>3, SMTT(30) DEF Settle, QueueInv, TypeOK

LEMMA SettleQueue ==
  ASSUME QueueInv, NEW d \in Runs, batch[d] # {}, Pass(d),
         NEW outcome \in Settled \cup {"waiting"}, Settle(d, outcome),
         outcome = "waiting" => AttemptsOf(d) < MaxAttempts,
         letters' \in [Rows -> Nat], \A r \in Rows : r # Row(d) => letters'[r] = letters[r]
  PROVE  /\ status' \in [Rows -> {"none", "pending", "waiting"} \cup Settled]
         /\ attempts' \in [Rows -> 0 .. MaxAttempts]
         /\ AttemptsLeft' /\ QueuedInOrder' /\ RunsFit'
<1>1. Row(d) \in batch[d] /\ Row(d) \in Rows
  BY RowIsHeld DEF QueueInv
<1>2. /\ status'[Row(d)] = outcome /\ attempts'[Row(d)] = AttemptsOf(d)
      /\ \A r \in Rows : r # Row(d) => status'[r] = status[r] /\ attempts'[r] = attempts[r]
      /\ status' \in [Rows -> {"none", "pending", "waiting"} \cup Settled]
      /\ attempts' \in [Rows -> 0 .. MaxAttempts]
  <2>1. status' = [status EXCEPT ![Row(d)] = outcome] /\ attempts' = [attempts EXCEPT ![Row(d)] = AttemptsOf(d)]
    BY SettledRow
  <2>2. attempts' \in [Rows -> 0 .. MaxAttempts]
    BY SettledRow
  <2>3. status \in [Rows -> {"none", "pending", "waiting"} \cup Settled] /\ attempts \in [Rows -> 0 .. MaxAttempts]
    BY DEF QueueInv, TypeOK
  <2> QED
    BY <1>1, <2>1, <2>2, <2>3
<1>3. status[Row(d)] # "none" /\ status'[Row(d)] # "none"
  BY <1>1, <1>2 DEF QueueInv, QueuedInOrder, Settled
<1>4. \A r \in Rows : status'[r] = "none" <=> status[r] = "none"
  BY <1>2, <1>3
<1>5. AttemptsLeft'
  <2>1. \A r \in Rows : status'[r] \in {"none", "pending", "waiting"} => attempts'[r] < MaxAttempts
    BY <1>2 DEF QueueInv, AttemptsLeft, Settled
  <2>2. \A c \in Runs, r \in Rows : seen'[c][r] < MaxAttempts
    <3> SUFFICES ASSUME NEW c \in Runs, NEW r \in Rows PROVE seen'[c][r] < MaxAttempts
      OBVIOUS
    <3>1. seen[c][r] < MaxAttempts
      BY DEF QueueInv, AttemptsLeft
    <3>2. seen'[c][r] = seen[c][r] \/ seen'[c][r] = 0
      BY PassRuns, ZenonT(60) DEF QueueInv
    <3> QED
      BY <3>1, <3>2
  <2> QED
    BY <2>1, <2>2 DEF AttemptsLeft
<1>6. QueuedInOrder'
  <2>1. \A c \in Runs : batch'[c] \subseteq batch[c]
    BY PassRuns DEF QueueInv
  <2>2. \A c \in Runs : batch[c] \subseteq Rows
    BY DEF QueueInv, TypeOK
  <2> QED
    BY <1>2, <1>3, <1>4, <2>1, <2>2 DEF QueueInv, QueuedInOrder
<1>7. RunsFit'
  BY PassRuns DEF QueueInv, RunsFit
<1> QED
  BY <1>2, <1>5, <1>6, <1>7

LEMMA ReopenQueue ==
  ASSUME QueueInv, NEW r \in Rows, status[r] # "none", Reopen(r),
         letters' \in [Rows -> Nat], \A q \in Rows : q # r => letters'[q] = letters[q]
  PROVE  QueueInv'
<1>1. /\ status'[r] = "pending" /\ attempts'[r] = 0
      /\ \A q \in Rows : q # r => status'[q] = status[q] /\ attempts'[q] = attempts[q]
      /\ status' \in [Rows -> {"none", "pending", "waiting"} \cup Settled]
      /\ attempts' \in [Rows -> 0 .. MaxAttempts]
      /\ UNCHANGED <<batch, seen, phase, entry, discarded, linked, taken, misread, remote, newest,
                     gone, unlinked, tripped, afterTrip, excused>>
  BY SMTT(30) DEF Reopen, QueueInv, TypeOK, runs, instance
<1>2. TypeOK'
  <2>1. disturbances' \in 0 .. MaxDisturbances
    BY DEF QueueInv, TypeOK, Reopen, Disturbed
  <2>2. troubled' \subseteq Rows
    BY DEF QueueInv, TypeOK, Reopen
  <2> QED
    BY <1>1, <2>1, <2>2 DEF QueueInv, TypeOK
<1>3. AttemptsLeft' /\ RunsFit'
  <2>1. \A q \in Rows : status'[q] \in {"none", "pending", "waiting"} => attempts'[q] < MaxAttempts
    <3> SUFFICES ASSUME NEW q \in Rows, status'[q] \in {"none", "pending", "waiting"}
                 PROVE  attempts'[q] < MaxAttempts
      OBVIOUS
    <3>1. CASE q = r
      BY <1>1, <3>1
    <3>2. CASE q # r
      BY <1>1, <3>2 DEF QueueInv, AttemptsLeft
    <3> QED
      BY <3>1, <3>2
  <2>2. \A c \in Runs, q \in Rows : seen'[c][q] < MaxAttempts
    BY <1>1 DEF QueueInv, AttemptsLeft
  <2> QED
    BY <1>1, <2>1, <2>2 DEF QueueInv, AttemptsLeft, RunsFit
<1>4. QueuedInOrder'
  BY <1>1, ZenonT(60) DEF QueueInv, QueuedInOrder, TypeOK
<1> QED
  BY <1>2, <1>3, <1>4 DEF QueueInv
LEMMA DisturbedType ==
  ASSUME TypeOK, Disturbed
  PROVE  disturbances' \in 0 .. MaxDisturbances
BY DEF TypeOK, Disturbed

LEMMA WriteTypes ==
  ASSUME TypeOK, NEW w \in Rows \cup {Client}, Write(w)
  PROVE  /\ remote' \in Seq(Rows \cup {Client}) /\ newest' \subseteq DOMAIN remote'
         /\ DOMAIN remote' = DOMAIN remote \cup {Len(remote) + 1}
<1>1. remote \in Seq(Rows \cup {Client}) /\ remote' = Append(remote, w)
  BY DEF TypeOK, Write
<1>2. remote' \in Seq(Rows \cup {Client}) /\ DOMAIN remote' = DOMAIN remote \cup {Len(remote) + 1}
  BY <1>1
<1> QED
  BY <1>2 DEF TypeOK, Write

LEMMA QueueSame ==
  ASSUME QueueInv, TypeOK', UNCHANGED <<status, attempts, letters, batch, seen, phase>>
  PROVE  QueueInv'
BY DEF QueueInv, AttemptsLeft, QueuedInOrder, RunsFit

LEMMA EnqueueQueue ==
  ASSUME QueueInv, NEW r \in Rows, Enqueue(r)
  PROVE  QueueInv'
<1>1. /\ status[r] = "none" /\ status' = [status EXCEPT ![r] = "pending"]
      /\ \A q \in 1 .. r - 1 : status[q] # "none"
      /\ UNCHANGED <<attempts, letters, discarded, linked, taken, misread, remote, newest, gone, unlinked, tripped,
                     afterTrip, batch, seen, phase, entry, disturbances, excused, troubled>>
  BY DEF Enqueue, instance, runs
<1>2. /\ status' \in [Rows -> {"none", "pending", "waiting"} \cup Settled]
      /\ status'[r] = "pending" /\ \A q \in Rows : q # r => status'[q] = status[q]
  BY <1>1 DEF QueueInv, TypeOK
<1>3. TypeOK'
  BY <1>1, <1>2 DEF QueueInv, TypeOK
<1>4. AttemptsLeft' /\ RunsFit'
  BY <1>1, <1>2 DEF QueueInv, AttemptsLeft, RunsFit
<1>5. QueuedInOrder'
  <2>1. \A q \in Rows : q < r => status'[q] # "none"
    <3> SUFFICES ASSUME NEW q \in Rows, q < r PROVE status'[q] # "none"
      OBVIOUS
    <3>1. q \in 1 .. r - 1
      OBVIOUS
    <3> QED
      BY <1>1, <1>2, <3>1
  <2>2. \A p, q \in Rows : q < p /\ status'[p] # "none" => status'[q] # "none"
    BY <1>2, <2>1 DEF QueueInv, QueuedInOrder
  <2>3. \A c \in Runs : \A q \in batch'[c] : status'[q] # "none"
    <3>1. \A c \in Runs : batch[c] \subseteq Rows
      BY DEF QueueInv, TypeOK
    <3> QED
      BY <1>1, <1>2, <3>1 DEF QueueInv, QueuedInOrder
  <2> QED
    BY <1>1, <1>2, <2>2, <2>3 DEF QueueInv, QueuedInOrder
<1> QED
  BY <1>3, <1>4, <1>5 DEF QueueInv

LEMMA BecomeDueQueue ==
  ASSUME QueueInv, NEW r \in Rows, BecomeDue(r)
  PROVE  QueueInv'
<1>1. /\ status[r] = "waiting" /\ status' = [status EXCEPT ![r] = "pending"]
      /\ UNCHANGED <<attempts, letters, discarded, linked, taken, misread, remote, newest, gone, unlinked, tripped,
                     afterTrip, batch, seen, phase, entry, disturbances, excused, troubled>>
  BY DEF BecomeDue, instance, runs
<1>2. /\ status' \in [Rows -> {"none", "pending", "waiting"} \cup Settled]
      /\ status'[r] = "pending" /\ \A q \in Rows : q # r => status'[q] = status[q]
  BY <1>1 DEF QueueInv, TypeOK
<1>3. TypeOK'
  BY <1>1, <1>2 DEF QueueInv, TypeOK
<1>4. AttemptsLeft' /\ RunsFit'
  BY <1>1, <1>2 DEF QueueInv, AttemptsLeft, RunsFit
<1>5. \A q \in Rows : status'[q] = "none" <=> status[q] = "none"
  BY <1>1, <1>2
<1>6. \A c \in Runs : batch[c] \subseteq Rows
  BY DEF QueueInv, TypeOK
<1>7. QueuedInOrder'
  BY <1>1, <1>5, <1>6 DEF QueueInv, QueuedInOrder
<1> QED
  BY <1>3, <1>4, <1>7 DEF QueueInv

(* What a claim takes: pending rows that no other claim has locked.          *)
LEMMA ClaimRuns ==
  ASSUME TypeOK, NEW d \in Runs, Claim(d)
  PROVE  /\ batch[d] = {} /\ ~tripped
         /\ batch'[d] = Oldest(Claimable \ LockedByClaims) /\ batch'[d] # {}
         /\ \A r \in batch'[d] : r \in Rows /\ status[r] = "pending" /\ r \notin LockedByClaims
         /\ \A r \in Rows : seen'[d][r] = IF r \in batch'[d] THEN attempts[r] ELSE 0
         /\ phase'[d] = "claiming"
         /\ \A c \in Runs : c # d => batch'[c] = batch[c] /\ seen'[c] = seen[c] /\ phase'[c] = phase[c]
         /\ troubled' = troubled \cup (Claimable \cap LockedByClaims)
         /\ UNCHANGED <<status, attempts, letters, discarded, linked, taken, misread, remote, newest, gone, unlinked,
                        tripped, afterTrip, entry, disturbances, excused>>
         /\ TypeOK'
<1> DEFINE claimed == Oldest(Claimable \ LockedByClaims)
<1>1. /\ batch[d] = {} /\ ~tripped /\ claimed # {}
      /\ batch' = [batch EXCEPT ![d] = claimed]
      /\ seen' = [seen EXCEPT ![d] = [r \in Rows |-> IF r \in claimed THEN attempts[r] ELSE 0]]
      /\ phase' = [phase EXCEPT ![d] = "claiming"]
      /\ troubled' = troubled \cup (Claimable \cap LockedByClaims)
      /\ UNCHANGED <<status, attempts, letters, discarded, linked, taken, misread, remote, newest, gone, unlinked,
                     tripped, afterTrip, entry, disturbances, excused>>
  BY DEF Claim, queue, instance
<1>2. \A r \in claimed : r \in Rows /\ status[r] = "pending" /\ r \notin LockedByClaims
  BY DEF Oldest, Claimable
<1> HIDE DEF claimed
<1>3. [r \in Rows |-> IF r \in claimed THEN attempts[r] ELSE 0] \in [Rows -> 0 .. MaxAttempts]
  BY DEF TypeOK
<1>4. batch' \in [Runs -> SUBSET Rows] /\ phase' \in [Runs -> Phases]
  BY <1>1, <1>2 DEF TypeOK, Phases
<1>5. seen' \in [Runs -> [Rows -> 0 .. MaxAttempts]]
  BY <1>1, <1>3 DEF TypeOK
<1>6. troubled' \subseteq Rows
  BY <1>1 DEF TypeOK, Claimable
<1>7. TypeOK'
  BY <1>1, <1>4, <1>5, <1>6 DEF TypeOK
<1>8. batch'[d] = claimed /\ phase'[d] = "claiming" /\ \A r \in Rows : seen'[d][r] = IF r \in claimed THEN attempts[r] ELSE 0
  BY <1>1 DEF TypeOK
<1>9. \A c \in Runs : c # d => batch'[c] = batch[c] /\ seen'[c] = seen[c] /\ phase'[c] = phase[c]
  BY <1>1 DEF TypeOK
<1>10. batch'[d] = Oldest(Claimable \ LockedByClaims)
  BY <1>8 DEF claimed
<1>11. /\ batch'[d] # {}
       /\ \A r \in batch'[d] : r \in Rows /\ status[r] = "pending" /\ r \notin LockedByClaims
       /\ \A r \in Rows : seen'[d][r] = IF r \in batch'[d] THEN attempts[r] ELSE 0
  BY <1>1, <1>2, <1>8
<1> QED
  BY <1>1, <1>7, <1>8, <1>9, <1>10, <1>11

LEMMA ClaimQueue ==
  ASSUME QueueInv, NEW d \in Runs, Claim(d)
  PROVE  QueueInv'
<1>1. AttemptsLeft'
  <2> SUFFICES ASSUME NEW c \in Runs, NEW r \in Rows PROVE seen'[c][r] < MaxAttempts
    BY ClaimRuns DEF QueueInv, AttemptsLeft
  <2>1. CASE c = d
    <3>1. seen'[c][r] = 0 \/ (seen'[c][r] = attempts[r] /\ status[r] = "pending")
      BY <2>1, ClaimRuns DEF QueueInv
    <3> QED
      BY <3>1 DEF QueueInv, AttemptsLeft
  <2>2. CASE c # d
    BY <2>2, ClaimRuns DEF QueueInv, AttemptsLeft
  <2> QED
    BY <2>1, <2>2
<1>2. QueuedInOrder'
  BY ClaimRuns DEF QueueInv, QueuedInOrder
<1>3. RunsFit'
  BY ClaimRuns DEF QueueInv, RunsFit
<1> QED
  BY <1>1, <1>2, <1>3, ClaimRuns DEF QueueInv
LEMMA PassQueue ==
  ASSUME QueueInv, NEW d \in Runs, batch[d] # {}, Pass(d),
         UNCHANGED <<status, attempts, letters>>, TypeOK'
  PROVE  QueueInv'
<1>1. AttemptsLeft'
  <2> SUFFICES ASSUME NEW c \in Runs, NEW r \in Rows PROVE seen'[c][r] < MaxAttempts
    BY DEF QueueInv, AttemptsLeft
  <2>1. seen[c][r] < MaxAttempts
    BY DEF QueueInv, AttemptsLeft
  <2>2. seen'[c][r] = seen[c][r] \/ seen'[c][r] = 0
    BY PassRuns DEF QueueInv
  <2> QED
    BY <2>1, <2>2
<1>2. QueuedInOrder'
  BY PassRuns DEF QueueInv, QueuedInOrder
<1>3. RunsFit'
  BY PassRuns DEF QueueInv, RunsFit
<1> QED
  BY <1>1, <1>2, <1>3 DEF QueueInv

LEMMA GotoQueue ==
  ASSUME QueueInv, NEW d \in Runs, NEW there \in Phases, batch[d] # {}, Goto(d, there),
         UNCHANGED <<status, attempts, letters>>, TypeOK'
  PROVE  QueueInv'
<1>1. AttemptsLeft' /\ QueuedInOrder'
  BY GotoRuns DEF QueueInv, AttemptsLeft, QueuedInOrder
<1>2. RunsFit'
  BY GotoRuns DEF QueueInv, RunsFit
<1> QED
  BY <1>1, <1>2 DEF QueueInv

(* The failure of a row, as Fail and LoseOutcome record it. *)
LEMMA RecordFailureRow ==
  ASSUME QueueInv, NEW d \in Runs, batch[d] # {}, NEW terminal \in BOOLEAN, RecordFailure(d, terminal)
  PROVE  \E outcome \in {"dead_lettered", "waiting"} :
           /\ Settle(d, outcome) /\ Pass(d)
           /\ outcome = "waiting" => AttemptsOf(d) < MaxAttempts /\ letters' = letters
           /\ outcome = "dead_lettered" => letters' = [letters EXCEPT ![Row(d)] = @ + 1]
           /\ letters' \in [Rows -> Nat]
           /\ \A r \in Rows : r # Row(d) => letters'[r] = letters[r]
           /\ troubled' = troubled \cup {Row(d)}
           /\ UNCHANGED <<discarded, linked, taken, misread, remote, newest, gone, unlinked, tripped, afterTrip>>
<1> DEFINE final == terminal \/ OutOfAttempts(AttemptsOf(d))
           outcome == IF final THEN "dead_lettered" ELSE "waiting"
<1>1. /\ Settle(d, outcome) /\ Pass(d)
      /\ letters' = IF final THEN [letters EXCEPT ![Row(d)] = @ + 1] ELSE letters
      /\ troubled' = troubled \cup {Row(d)}
      /\ UNCHANGED <<discarded, linked, taken, misread, remote, newest, gone, unlinked, tripped, afterTrip>>
  BY DEF RecordFailure, instance
<1>2. AttemptsOf(d) \in Nat
  BY <1>1, SettledRow
<1>3. ~final => AttemptsOf(d) < MaxAttempts
  BY <1>2 DEF OutOfAttempts
<1>4. Row(d) \in Rows
  BY RowIsHeld DEF QueueInv
<1>5. letters' \in [Rows -> Nat] /\ \A r \in Rows : r # Row(d) => letters'[r] = letters[r]
  <2>1. letters \in [Rows -> Nat]
    BY DEF QueueInv, TypeOK
  <2>2. letters' = letters \/ letters' = [letters EXCEPT ![Row(d)] = @ + 1]
    BY <1>1
  <2> QED
    BY <1>4, <2>1, <2>2, SMTT(30)
<1>6. /\ outcome = "waiting" => ~final
      /\ outcome = "dead_lettered" => final
      /\ outcome \in {"dead_lettered", "waiting"}
  OBVIOUS
<1> HIDE DEF final, outcome
<1> QED
  BY <1>1, <1>3, <1>5, <1>6

LEMMA RecordFailureQueue ==
  ASSUME QueueInv, NEW d \in Runs, batch[d] # {}, NEW terminal \in BOOLEAN, RecordFailure(d, terminal),
         disturbances' \in 0 .. MaxDisturbances, excused' \subseteq Rows
  PROVE  QueueInv'
<1>1. PICK outcome \in {"dead_lettered", "waiting"} :
           /\ Settle(d, outcome) /\ Pass(d)
           /\ outcome = "waiting" => AttemptsOf(d) < MaxAttempts
           /\ letters' \in [Rows -> Nat]
           /\ \A r \in Rows : r # Row(d) => letters'[r] = letters[r]
           /\ troubled' = troubled \cup {Row(d)}
           /\ UNCHANGED <<discarded, linked, taken, misread, remote, newest, gone, unlinked, tripped, afterTrip>>
  BY RecordFailureRow
<1>2. outcome \in Settled \cup {"waiting"}
  BY DEF Settled
<1>3. /\ status' \in [Rows -> {"none", "pending", "waiting"} \cup Settled]
      /\ attempts' \in [Rows -> 0 .. MaxAttempts]
      /\ AttemptsLeft' /\ QueuedInOrder' /\ RunsFit'
  BY <1>1, <1>2, SettleQueue
<1>4. troubled' \subseteq Rows
  BY <1>1, RowIsHeld DEF QueueInv, TypeOK
<1>5. /\ batch' \in [Runs -> SUBSET Rows] /\ phase' \in [Runs -> Phases]
      /\ seen' \in [Runs -> [Rows -> 0 .. MaxAttempts]] /\ entry' \in [Runs -> Nat]
  BY <1>1, PassRuns DEF QueueInv
<1>6. TypeOK'
  BY <1>1, <1>3, <1>4, <1>5 DEF QueueInv, TypeOK
<1> QED
  BY <1>3, <1>6 DEF QueueInv

LEMMA QueueNext == QueueInv /\ [Next]_vars => QueueInv'
<1> SUFFICES ASSUME QueueInv, [Next]_vars PROVE QueueInv'
  OBVIOUS
<1> USE DEF queue, instance, runs
<1>1. ASSUME NEW d \in Runs, Unlock(d) PROVE QueueInv'
  <2>1. batch[d] # {} /\ "ready" \in Phases
    BY <1>1 DEF Unlock, QueueInv, RunsFit, Phases
  <2>2. TypeOK'
    BY <1>1, <2>1, GotoRuns DEF Unlock, QueueInv, TypeOK
  <2> QED
    BY <1>1, <2>1, <2>2, GotoQueue DEF Unlock
<1>2. ASSUME NEW d \in Runs, Defer(d) PROVE QueueInv'
  <2>1. batch[d] # {} /\ Pass(d)
    BY <1>2 DEF Defer, At
  <2>2. TypeOK'
    BY <1>2, <2>1, PassRuns, RowIsHeld, ZenonT(60) DEF Defer, QueueInv, TypeOK
  <2> QED
    BY <1>2, <2>1, <2>2, PassQueue DEF Defer
<1>3. ASSUME NEW d \in Runs, NEW outcome \in {"skipped", "sent"}, batch[d] # {},
             Settle(d, outcome), Pass(d), UNCHANGED <<letters, discarded, gone, tripped, afterTrip>>,
             linked' \subseteq Rows, misread' \subseteq Rows, taken' \subseteq Nat,
             UNCHANGED <<remote, newest>>, unlinked' \in BOOLEAN,
             UNCHANGED <<disturbances, excused, troubled>>
      PROVE  QueueInv'
  <2>1. outcome \in Settled \cup {"waiting"} /\ outcome # "waiting"
    BY DEF Settled
  <2>2. letters' \in [Rows -> Nat]
    BY <1>3 DEF QueueInv, TypeOK
  <2>3. /\ status' \in [Rows -> {"none", "pending", "waiting"} \cup Settled]
        /\ attempts' \in [Rows -> 0 .. MaxAttempts]
        /\ AttemptsLeft' /\ QueuedInOrder' /\ RunsFit'
    BY <1>3, <2>1, <2>2, SettleQueue
  <2>4. /\ batch' \in [Runs -> SUBSET Rows] /\ phase' \in [Runs -> Phases]
        /\ seen' \in [Runs -> [Rows -> 0 .. MaxAttempts]] /\ entry' \in [Runs -> Nat]
    BY <1>3, PassRuns DEF QueueInv
  <2>5. TypeOK'
    BY <1>3, <2>2, <2>3, <2>4 DEF QueueInv, TypeOK
  <2> QED
    BY <2>3, <2>5 DEF QueueInv
<1>4. ASSUME NEW d \in Runs, Skip(d) PROVE QueueInv'
  <2>1. /\ unlinked' \in BOOLEAN /\ linked' \subseteq Rows /\ misread' \subseteq Rows
        /\ taken' \subseteq Nat
    BY <1>4 DEF Skip, QueueInv, TypeOK
  <2> QED
    BY <1>3, <1>4, <2>1 DEF Skip, At
<1>5. ASSUME NEW d \in Runs, Begin(d) PROVE QueueInv'
  <2>1. batch[d] # {} /\ Goto(d, "pushing") /\ "pushing" \in Phases
    BY <1>5 DEF Begin, At, Phases
  <2>2. excused' \subseteq Rows
    BY <1>5, <2>1, RowIsHeld DEF Begin, QueueInv, TypeOK
  <2>3. TypeOK'
    BY <1>5, <2>1, <2>2, GotoRuns DEF Begin, QueueInv, TypeOK
  <2> QED
    BY <1>5, <2>1, <2>3, GotoQueue DEF Begin
<1>6. ASSUME NEW d \in Runs, Post(d) PROVE QueueInv'
  <2>1. batch[d] # {} /\ Goto(d, "posted") /\ "posted" \in Phases
    BY <1>6 DEF Post, At, Phases
  <2>2. Row(d) \in Rows \cup {Client} /\ Write(Row(d))
    BY <1>6, <2>1, RowIsHeld DEF Post, QueueInv
  <2>3. afterTrip' \in Nat
    BY <1>6 DEF Post, QueueInv, TypeOK
  <2>4. TypeOK'
    BY <1>6, <2>1, <2>2, <2>3, GotoRuns, WriteTypes DEF Post, QueueInv, TypeOK
  <2> QED
    BY <1>6, <2>1, <2>4, GotoQueue DEF Post
<1>7. ASSUME NEW d \in Runs, Fail(d) PROVE QueueInv'
  <2>1. PICK terminal \in BOOLEAN : RecordFailure(d, terminal)
    BY <1>7 DEF Fail
  <2>2. batch[d] # {} /\ disturbances' \in 0 .. MaxDisturbances /\ excused' \subseteq Rows
    BY <1>7 DEF Fail, At, QueueInv, TypeOK
  <2> QED
    BY <2>1, <2>2, RecordFailureQueue
<1>8. ASSUME NEW d \in Runs, Commit(d) PROVE QueueInv'
  <2>1. /\ batch[d] # {} /\ Settle(d, "sent") /\ Pass(d) /\ Link(Row(d), entry[d])
        /\ misread' = misread \cup (IF entry[d] \in taken THEN {Row(d)} ELSE {})
        /\ UNCHANGED <<letters, discarded, remote, newest, gone, unlinked, tripped, afterTrip,
                       disturbances, excused, troubled>>
    BY <1>8 DEF Commit, At
  <2>2. Row(d) \in Rows /\ entry[d] \in Nat
    BY <2>1, RowIsHeld DEF QueueInv, TypeOK
  <2>3. /\ unlinked' \in BOOLEAN /\ linked' \subseteq Rows /\ taken' \subseteq Nat
        /\ misread' \subseteq Rows
    BY <2>1, <2>2 DEF Link, QueueInv, TypeOK
  <2> QED
    BY <1>3, <2>1, <2>3
<1>18. ASSUME NEW d \in Runs, ReadBack(d) PROVE QueueInv'
  <2>1. /\ batch[d] # {} /\ phase' = [phase EXCEPT ![d] = "read"]
        /\ \E i \in newest : entry' = [entry EXCEPT ![d] = i]
        /\ UNCHANGED <<status, attempts, letters, discarded, linked, taken, misread, remote, newest,
                       gone, unlinked, tripped, afterTrip, batch, seen, disturbances, excused, troubled>>
    BY <1>18 DEF ReadBack, At
  <2>2. newest \subseteq Nat
    BY DEF QueueInv, TypeOK
  <2>3. phase' \in [Runs -> Phases] /\ entry' \in [Runs -> Nat]
    BY <2>1, <2>2 DEF QueueInv, TypeOK, Phases
  <2>4. TypeOK'
    BY <2>1, <2>3 DEF QueueInv, TypeOK
  <2>5. AttemptsLeft' /\ QueuedInOrder'
    BY <2>1 DEF QueueInv, AttemptsLeft, QueuedInOrder
  <2>6. RunsFit'
    BY <2>1 DEF QueueInv, RunsFit, TypeOK
  <2> QED
    BY <2>4, <2>5, <2>6 DEF QueueInv
<1>19. CASE ClientComments
  <2>1. Client \in Rows \cup {Client} /\ Write(Client)
    BY <1>19 DEF ClientComments
  <2>2. TypeOK'
    BY <1>19, <2>1, WriteTypes, DisturbedType DEF ClientComments, QueueInv, TypeOK
  <2> QED
    BY <1>19, <2>2, QueueSame DEF ClientComments
<1>20. ASSUME NEW i \in DOMAIN remote, Import(i) PROVE QueueInv'
  <2>3. DOMAIN remote \subseteq Nat /\ taken \subseteq Nat
    BY DEF QueueInv, TypeOK
  <2>1. taken' \subseteq Nat
    BY <1>20, <2>3 DEF Import
  <2>2. TypeOK'
    BY <1>20, <2>1 DEF Import, QueueInv, TypeOK
  <2> QED
    BY <1>20, <2>2, QueueSame DEF Import
<1>9. ASSUME NEW d \in Runs, LoseOutcome(d) PROVE QueueInv'
  <2>1. PICK terminal \in BOOLEAN : RecordFailure(d, terminal)
    BY <1>9 DEF LoseOutcome
  <2>2. batch[d] # {} /\ disturbances' \in 0 .. MaxDisturbances
    BY <1>9, DisturbedType DEF LoseOutcome, Posted, At, QueueInv
  <2>3. excused' \subseteq Rows
    BY <1>9, <2>2, RowIsHeld DEF LoseOutcome, QueueInv, TypeOK
  <2> QED
    BY <2>1, <2>2, <2>3, RecordFailureQueue
<1>10. ASSUME NEW d \in Runs, Crash(d) PROVE QueueInv'
  <2>1. /\ batch' = [batch EXCEPT ![d] = {}] /\ seen' = [seen EXCEPT ![d] = Unread]
        /\ phase' = [phase EXCEPT ![d] = "ready"] /\ entry' = [entry EXCEPT ![d] = 0]
        /\ UNCHANGED <<status, attempts, letters, discarded, linked, taken, misread, remote, newest, gone, unlinked,
                       tripped, afterTrip, troubled>>
    BY <1>10 DEF Crash
  <2>2. Unread \in [Rows -> 0 .. MaxAttempts] /\ \A r \in Rows : Unread[r] = 0
    BY DEF Unread
  <2>3. /\ batch' \in [Runs -> SUBSET Rows] /\ phase' \in [Runs -> Phases]
        /\ seen' \in [Runs -> [Rows -> 0 .. MaxAttempts]] /\ entry' \in [Runs -> Nat]
    BY <2>1, <2>2 DEF QueueInv, TypeOK, Phases
  <2>4. excused' \subseteq Rows /\ disturbances' \in 0 .. MaxDisturbances
    BY <1>10, RowIsHeld, DisturbedType DEF Crash, Posted, At, QueueInv, TypeOK
  <2>5. TypeOK'
    BY <2>1, <2>3, <2>4 DEF QueueInv, TypeOK
  <2>6. \A c \in Runs : /\ c # d => batch'[c] = batch[c] /\ seen'[c] = seen[c] /\ phase'[c] = phase[c]
                        /\ batch'[d] = {} /\ seen'[d] = Unread /\ phase'[d] = "ready"
    BY <2>1 DEF QueueInv, TypeOK
  <2>7. AttemptsLeft'
    <3>1. \A c \in Runs, r \in Rows : seen'[c][r] < MaxAttempts
      BY <2>2, <2>6 DEF QueueInv, AttemptsLeft
    <3> QED
      BY <2>1, <3>1 DEF QueueInv, AttemptsLeft
  <2>8. QueuedInOrder' /\ RunsFit'
    BY <2>1, <2>6 DEF QueueInv, QueuedInOrder, RunsFit
  <2> QED
    BY <2>5, <2>7, <2>8 DEF QueueInv
<1>11. ASSUME NEW r \in Rows, Replay(r) PROVE QueueInv'
  <2>1. status[r] # "none" /\ letters' = [letters EXCEPT ![r] = @ - 1] /\ letters[r] > 0
    BY <1>11 DEF Replay, QueueInv, QueuedInOrder
  <2>2. letters' \in [Rows -> Nat] /\ \A q \in Rows : q # r => letters'[q] = letters[q]
    BY <2>1 DEF QueueInv, TypeOK
  <2> QED
    BY <1>11, <2>1, <2>2, ReopenQueue DEF Replay
<1>12. ASSUME NEW r \in Rows, Discard(r) PROVE QueueInv'
  <2>1. /\ letters[r] > 0 /\ letters' = [letters EXCEPT ![r] = @ - 1]
        /\ UNCHANGED <<status, attempts, linked, taken, misread, remote, newest, gone, unlinked,
                       tripped, afterTrip, batch, seen, phase, entry, excused, troubled>>
    BY <1>12 DEF Discard
  <2>2. letters' \in [Rows -> Nat] /\ \A q \in Rows : q # r => letters'[q] = letters[q]
    BY <2>1 DEF QueueInv, TypeOK
  <2>3. status[r] # "none"
    BY <2>1 DEF QueueInv, QueuedInOrder
  <2>4. disturbances' \in 0 .. MaxDisturbances /\ discarded' \subseteq Rows
    BY <1>12, DisturbedType DEF Discard, QueueInv, TypeOK
  <2>5. TypeOK'
    BY <2>1, <2>2, <2>4 DEF QueueInv, TypeOK
  <2>6. AttemptsLeft' /\ RunsFit'
    BY <2>1 DEF QueueInv, AttemptsLeft, RunsFit
  <2>7. QueuedInOrder'
    BY <2>1, <2>2, <2>3 DEF QueueInv, QueuedInOrder
  <2> QED
    BY <2>5, <2>6, <2>7 DEF QueueInv
<1>13. ASSUME NEW r \in Rows, Retry(r) PROVE QueueInv'
  <2>1. status[r] # "none" /\ letters' = letters
    BY <1>13 DEF Retry, Settled
  <2> QED
    BY <1>13, <2>1, ReopenQueue DEF Retry, QueueInv, TypeOK
<1>14. CASE Trip
  <2>1. TypeOK'
    BY <1>14, DisturbedType DEF Trip, QueueInv, TypeOK
  <2> QED
    BY <1>14, <2>1, QueueSame DEF Trip
<1>15. CASE Arm
  <2>1. TypeOK'
    BY <1>15 DEF Arm, QueueInv, TypeOK
  <2> QED
    BY <1>15, <2>1, QueueSame DEF Arm
<1>16. CASE ClientDeletes
  <2>1. TypeOK'
    BY <1>16, DisturbedType DEF ClientDeletes, QueueInv, TypeOK
  <2> QED
    BY <1>16, <2>1, QueueSame DEF ClientDeletes
<1>17. CASE UNCHANGED vars
  <2>1. TypeOK'
    BY <1>17 DEF vars, QueueInv, TypeOK
  <2> QED
    BY <1>17, <2>1, QueueSame DEF vars
<1> QED
  BY <1>1, <1>2, <1>4, <1>5, <1>6, <1>7, <1>8, <1>9, <1>10, <1>11, <1>12, <1>13, <1>14, <1>15,
     <1>16, <1>17, <1>18, <1>19, <1>20, EnqueueQueue, BecomeDueQueue, ClaimQueue DEF Next, RunStep

(* Rows, runs and the instance stay well-formed; no row is ever attempted    *)
(* more than MAX_OUTBOUND_ATTEMPTS times, whichever run records the failure  *)
(* (sync.worker.ts 733-811).                                                 *)
THEOREM QueueTypeCorrect == Spec => []TypeOK
<1>1. QueueInv => TypeOK
  BY DEF QueueInv
<1> QED
  BY <1>1, QueueInit, QueueNext, PTL DEF Spec
-----------------------------------------------------------------------------
(* The kill switch *)

Writing == {d \in Runs : phase[d] = "pushing"}

(* Since the trip, a run has made its one call or is still before it.        *)
TripInv ==
  /\ QueueInv
  /\ ~tripped => afterTrip = 0
  /\ afterTrip + Cardinality(Writing) <= Cardinality(Runs)

LEMMA RunsCount ==
  ASSUME NEW S \in SUBSET Runs
  PROVE  /\ IsFiniteSet(S) /\ Cardinality(S) \in Nat /\ Cardinality(Runs) \in Nat
         /\ Cardinality(S) <= Cardinality(Runs)
<1>1. IsFiniteSet(S) /\ Cardinality(S) <= Cardinality(Runs)
  BY FS_Subset
<1>2. Cardinality(S) \in Nat /\ Cardinality(Runs) \in Nat
  BY <1>1, FS_CardinalityType
<1> QED
  BY <1>1, <1>2

LEMMA TripSame ==
  ASSUME TripInv, QueueInv', Writing' \subseteq Writing, UNCHANGED <<tripped, afterTrip>>
  PROVE  TripInv'
<1>1. Writing \subseteq Runs /\ Writing' \subseteq Runs
  BY DEF Writing
<1>2. Cardinality(Writing') <= Cardinality(Writing)
  BY <1>1, RunsCount, FS_Subset
<1>3. /\ Cardinality(Writing) \in Nat /\ Cardinality(Writing') \in Nat
      /\ Cardinality(Runs) \in Nat /\ afterTrip \in Nat
  BY <1>1, RunsCount DEF TripInv, QueueInv, TypeOK
<1>4. afterTrip' + Cardinality(Writing') <= Cardinality(Runs)
  BY <1>2, <1>3 DEF TripInv
<1> QED
  BY <1>4 DEF TripInv

LEMMA TripRestarts ==
  ASSUME QueueInv', afterTrip' = 0
  PROVE  TripInv'
<1>1. Writing' \subseteq Runs
  BY DEF Writing
<1>2. Cardinality(Writing') <= Cardinality(Runs) /\ Cardinality(Writing') \in Nat
  BY <1>1, RunsCount
<1> QED
  BY <1>2 DEF TripInv

LEMMA TripInit == Init => TripInv
<1> SUFFICES ASSUME Init PROVE TripInv
  OBVIOUS
<1>1. Writing = {} /\ afterTrip = 0
  BY DEF Init, Writing
<1>2. Cardinality({}) = 0 /\ Cardinality(Runs) \in Nat
  BY FS_EmptySet, RunsCount
<1> QED
  BY <1>1, <1>2, QueueInit DEF TripInv

LEMMA TripNext == TripInv /\ [Next]_vars => TripInv'
<1> SUFFICES ASSUME TripInv, [Next]_vars PROVE TripInv'
  OBVIOUS
<1> USE DEF instance, runs
<1>1. QueueInv /\ QueueInv' /\ TypeOK
  BY QueueNext DEF TripInv, QueueInv
<1>2. ASSUME NEW d \in Runs, Claim(d) PROVE TripInv'
  <2>1. Writing' \subseteq Writing
    BY <1>1, <1>2, ClaimRuns DEF Writing
  <2> QED
    BY <1>1, <1>2, <2>1, ClaimRuns, TripSame
<1>3. ASSUME NEW d \in Runs, Unlock(d) PROVE TripInv'
  <2>1. Writing' \subseteq Writing
    BY <1>1, <1>3, GotoRuns DEF Unlock, Writing, Phases
  <2> QED
    BY <1>1, <1>3, <2>1, TripSame DEF Unlock
<1>4. ASSUME NEW d \in Runs, batch[d] # {}, Pass(d), UNCHANGED <<tripped, afterTrip>>
      PROVE  TripInv'
  <2>1. Writing' \subseteq Writing
    BY <1>1, <1>4, PassRuns DEF Writing
  <2> QED
    BY <1>1, <1>4, <2>1, TripSame
<1>5. ASSUME NEW d \in Runs, Defer(d) \/ Skip(d) \/ Fail(d) \/ LoseOutcome(d) \/ Commit(d)
      PROVE  TripInv'
  <2>1. CASE Defer(d) \/ Skip(d) \/ Commit(d)
    BY <1>4, <2>1 DEF Defer, Skip, Commit, At
  <2>2. CASE Fail(d) \/ LoseOutcome(d)
    BY <1>4, <2>2 DEF Fail, LoseOutcome, RecordFailure, Posted, At
  <2> QED
    BY <1>5, <2>1, <2>2
<1>6. ASSUME NEW d \in Runs, Begin(d) PROVE TripInv'
  BY <1>1, <1>6, TripRestarts DEF Begin, Armed, TripInv
<1>7. ASSUME NEW d \in Runs, Post(d) PROVE TripInv'
  <2>1. /\ phase[d] = "pushing" /\ Goto(d, "posted") /\ tripped' = tripped
        /\ afterTrip' = IF tripped THEN afterTrip + 1 ELSE afterTrip
    BY <1>7 DEF Post, At
  <2>2. Writing' = Writing \ {d} /\ d \in Writing
    BY <1>1, <2>1, GotoRuns DEF Writing, Phases
  <2>3. Writing \subseteq Runs
    BY DEF Writing
  <2>4. Cardinality(Writing') = Cardinality(Writing) - 1
    BY <2>2, <2>3, RunsCount, FS_RemoveElement
  <2>5. Cardinality(Writing) \in Nat /\ Cardinality(Runs) \in Nat /\ afterTrip \in Nat
    BY <1>1, <2>3, RunsCount DEF TypeOK
  <2> QED
    BY <1>1, <2>1, <2>4, <2>5 DEF TripInv
<1>8. ASSUME NEW d \in Runs, Crash(d) PROVE TripInv'
  <2>1. Writing' \subseteq Writing
    BY <1>1, <1>8 DEF Crash, Writing, TypeOK
  <2> QED
    BY <1>1, <1>8, <2>1, TripSame DEF Crash
<1>9. CASE Trip \/ Arm
  BY <1>1, <1>9, TripRestarts DEF Trip, Arm
<1>13. ASSUME NEW d \in Runs, ReadBack(d) PROVE TripInv'
  <2>1. Writing' \subseteq Writing
    BY <1>1, <1>13 DEF ReadBack, Writing, TypeOK
  <2> QED
    BY <1>1, <1>13, <2>1, TripSame DEF ReadBack
<1>10. ASSUME UNCHANGED <<phase, tripped, afterTrip>> PROVE TripInv'
  BY <1>1, <1>10, TripSame DEF Writing
<1>11. ASSUME NEW r \in Rows, Enqueue(r) \/ BecomeDue(r) \/ Replay(r) \/ Discard(r) \/ Retry(r)
       PROVE  TripInv'
  BY <1>10, <1>11 DEF Enqueue, BecomeDue, Replay, Discard, Retry, Reopen
<1>12. ASSUME ClientDeletes \/ ClientComments \/ UNCHANGED vars \/ \E i \in DOMAIN remote : Import(i)
       PROVE  TripInv'
  BY <1>10, <1>12 DEF ClientDeletes, ClientComments, Import, vars
<1> QED
  BY <1>2, <1>3, <1>5, <1>6, <1>7, <1>8, <1>9, <1>11, <1>12, <1>13 DEF Next, RunStep

(* After a trip each run of the job finishes at most the one call it was in: *)
(* deliverOne reads the switch again for every row (sync.worker.ts 737).     *)
THEOREM TripStops == Spec => []TripStopsDelivery
<1>1. TripInv => TripStopsDelivery
  <2> SUFFICES ASSUME TripInv PROVE afterTrip <= Cardinality(Runs)
    BY DEF TripStopsDelivery
  <2>1. Writing \subseteq Runs
    BY DEF Writing
  <2>2. Cardinality(Writing) \in Nat /\ Cardinality(Runs) \in Nat /\ afterTrip \in Nat
    BY <2>1, RunsCount DEF TripInv, QueueInv, TypeOK
  <2> QED
    BY <2>2 DEF TripInv
<1> QED
  BY <1>1, TripInit, TripNext, PTL DEF Spec
-----------------------------------------------------------------------------
(* Copies at the instance *)

(* Messages sent with a link or without one, and messages that may come      *)
(* twice.                                                                    *)
Kept == linked \cup misread
Pardoned == excused \cup misread
Written == {"posted", "read"}

(* A message that was sent, or whose entry has just been written, is there.  *)
WrittenIsThere ==
  /\ \A r \in Kept : Places(r) # {}
  /\ \A d \in Runs : Posted(d) => Places(Row(d)) # {}

(* A message without an accident or a misread entry: at most one run is at    *)
(* it, and its entry is there from that run's call on, linked once the run    *)
(* has committed.                                                            *)
OneWriter(r) ==
  /\ \A i, j \in Places(r) : i = j
  /\ \A c, d \in Pushing(r) : c = d
  /\ \A d \in Pushing(r) : phase[d] = "pushing" => Places(r) = {} /\ r \notin linked
  /\ Places(r) # {} => r \in linked \/ \E d \in Pushing(r) : phase[d] \in Written

CopiesInv ==
  /\ QueueInv /\ WrittenIsThere /\ NothingLost
  /\ \A r \in Rows \ Pardoned : OneWriter(r)

LEMMA CountedPlaces ==
  ASSUME NEW seq \in Seq(Rows \cup {Client}), NEW r, NEW P, P = {i \in 1 .. Len(seq) : seq[i] = r}
  PROVE  /\ P # {} <=> Cardinality(P) > 0
         /\ (\A i, j \in P : i = j) => Cardinality(P) <= 1
<1>1. Len(seq) \in Nat
  OBVIOUS
<1>2. IsFiniteSet(1 .. Len(seq)) /\ P \subseteq 1 .. Len(seq)
  BY <1>1, FS_Interval
<1>3. IsFiniteSet(P)
  BY <1>2, FS_Subset
<1>4. Cardinality(P) \in Nat /\ (Cardinality(P) = 0 <=> P = {})
  BY <1>3, FS_CardinalityType, FS_EmptySet
<1>5. ASSUME \A i, j \in P : i = j, P # {} PROVE Cardinality(P) <= 1
  <2>1. PICK i \in P : TRUE
    BY <1>5
  <2>2. P = {i}
    BY <1>5, <2>1
  <2>3. Cardinality(P) = 1
    BY <2>2, FS_Singleton
  <2> QED
    BY <2>3
<1> QED
  BY <1>4, <1>5, SMTT(30)

LEMMA CopiesArePlaces ==
  ASSUME TypeOK, NEW r \in Rows
  PROVE  /\ Places(r) # {} <=> Copies(r) > 0
         /\ (\A i, j \in Places(r) : i = j) => Copies(r) <= 1
BY CountedPlaces DEF TypeOK, Copies, Places

LEMMA NothingLostPlaces ==
  ASSUME TypeOK
  PROVE  NothingLost <=>
           \A r \in Rows :
             /\ status[r] \in {"sent", "skipped"} => unlinked \/ (r \in Kept /\ Places(r) # {})
             /\ status[r] = "dead_lettered" => letters[r] > 0 \/ r \in discarded
BY CopiesArePlaces DEF NothingLost, Kept

LEMMA NothingLostPlacesNext ==
  ASSUME TypeOK'
  PROVE  NothingLost' <=>
           \A r \in Rows :
             /\ status'[r] \in {"sent", "skipped"} => unlinked' \/ (r \in Kept' /\ Places(r)' # {})
             /\ status'[r] = "dead_lettered" => letters'[r] > 0 \/ r \in discarded'
<1>1. \A r \in Rows : Places(r)' # {} <=> Copies(r)' > 0
  BY CountedPlaces DEF TypeOK, Copies, Places
<1> QED
  BY <1>1 DEF NothingLost, Kept

LEMMA PlacesAfterWrite ==
  ASSUME TypeOK, NEW w \in Rows \cup {Client}, Write(w)
  PROVE  \A q \in Rows : Places(q)' = IF q = w THEN Places(q) \cup {Len(remote) + 1} ELSE Places(q)
<1>1. remote \in Seq(Rows \cup {Client}) /\ remote' = Append(remote, w)
  BY DEF TypeOK, Write
<1>2. /\ Len(remote') = Len(remote) + 1 /\ Len(remote) \in Nat
      /\ remote'[Len(remote) + 1] = w
      /\ \A i \in 1 .. Len(remote) : remote'[i] = remote[i]
  BY <1>1
<1>3. 1 .. Len(remote') = (1 .. Len(remote)) \cup {Len(remote) + 1}
  BY <1>2
<1> QED
  BY <1>2, <1>3 DEF Places

LEMMA PushingOthers ==
  ASSUME NEW d \in Runs, \A c \in Runs : c # d => batch'[c] = batch[c] /\ phase'[c] = phase[c]
  PROVE  \A c \in Runs \ {d}, r \in Rows : (c \in Pushing(r))' <=> c \in Pushing(r)
BY DEF Pushing, Posted, At, Row

PhaseKept(d) == phase'[d] = phase[d] \/ {phase[d], phase'[d]} \subseteq Written

(* A step that neither writes nor takes a run into a row or out of one with  *)
(* an entry, and leaves the links, keeps one writer.                         *)
LEMMA OneWriterSame ==
  ASSUME NEW r \in Rows, OneWriter(r), Places(r)' = Places(r),
         r \in linked => r \in linked',
         r \in linked' => r \in linked \/ Places(r) # {},
         \A d \in Runs : (d \in Pushing(r))' => d \in Pushing(r) /\ PhaseKept(d),
         \A d \in Runs : d \in Pushing(r) /\ phase[d] \in Written => (d \in Pushing(r))' \/ r \in linked'
  PROVE  OneWriter(r)'
<1>1. Pushing(r)' \subseteq Runs /\ Pushing(r) \subseteq Runs
  BY DEF Pushing
<1>2. \A d \in Runs : d \in Pushing(r)' => d \in Pushing(r) /\ PhaseKept(d)
  OBVIOUS
<1>3. \A d \in Pushing(r) : phase[d] \in Written => (d \in Pushing(r)' /\ phase'[d] \in Written) \/ r \in linked'
  BY <1>1, <1>2 DEF PhaseKept
<1> QED
  BY <1>1, <1>2, <1>3 DEF OneWriter, PhaseKept, Written

LEMMA CopiesInit == Init => CopiesInv
<1> SUFFICES ASSUME Init PROVE CopiesInv
  OBVIOUS
<1>1. QueueInv /\ TypeOK
  BY QueueInit DEF QueueInv
<1>2. \A r \in Rows : Places(r) = {} /\ Pushing(r) = {} /\ r \notin linked /\ status[r] = "none"
  BY DEF Init, Places, Pushing, Posted, At
<1>3. WrittenIsThere /\ NothingLost
  BY <1>1, <1>2, NothingLostPlaces DEF Init, WrittenIsThere, Posted, Kept, At
<1>4. \A r \in Rows : OneWriter(r)
  BY <1>2 DEF OneWriter
<1> QED
  BY <1>1, <1>3, <1>4 DEF CopiesInv
(* A run that leaves its row is in none any more; the others stay where they *)
(* are.                                                                      *)
LeavesRow(d) ==
  /\ phase'[d] \in {"ready", "claiming"}
  /\ \A c \in Runs : c # d => batch'[c] = batch[c] /\ phase'[c] = phase[c]

LEMMA LeftRow ==
  ASSUME NEW d \in Runs, LeavesRow(d)
  PROVE  /\ \A c \in Runs, r \in Rows : (c \in Pushing(r))' <=> c # d /\ c \in Pushing(r)
         /\ \A c \in Runs : Posted(c)' => c # d /\ Posted(c) /\ Row(c)' = Row(c)
         /\ \A c \in Runs, r \in Rows : (c \in Pushing(r))' => c \in Pushing(r) /\ phase'[c] = phase[c]
<1>1. \A r \in Rows : d \notin Pushing(r)'
  BY DEF LeavesRow, Pushing, Posted, At
<1>2. \A c \in Runs \ {d}, r \in Rows : (c \in Pushing(r))' <=> c \in Pushing(r)
  BY PushingOthers DEF LeavesRow
<1>3. \A c \in Runs : Posted(c)' => c # d /\ Posted(c) /\ Row(c)' = Row(c)
  BY DEF LeavesRow, Posted, At, Row
<1> QED
  BY <1>1, <1>2, <1>3 DEF LeavesRow

LEMMA PassLeaves ==
  ASSUME TypeOK, NEW d \in Runs, batch[d] # {}, Pass(d)
  PROVE  LeavesRow(d)
BY PassRuns DEF LeavesRow

LEMMA PlacesStay ==
  ASSUME remote' = remote
  PROVE  \A r \in Rows : Places(r)' = Places(r)
BY DEF Places

LEMMA WrittenStays ==
  ASSUME CopiesInv, NEW d \in Runs, LeavesRow(d), remote' = remote,
         \A r \in Kept' : r \in Kept \/ (r \in Rows /\ Places(r) # {})
  PROVE  WrittenIsThere'
<1>1. \A r \in Kept : r \in Rows
  BY DEF CopiesInv, QueueInv, TypeOK, Kept
<1>2. \A r \in Kept' : Places(r)' # {}
  BY <1>1, PlacesStay DEF CopiesInv, WrittenIsThere
<1>3. ASSUME NEW c \in Runs, Posted(c)' PROVE (Places(Row(c)) # {})'
  <2>1. Posted(c) /\ Row(c)' = Row(c)
    BY <1>3, LeftRow
  <2>2. Row(c) \in Rows
    BY <2>1, RowIsHeld DEF Posted, At, CopiesInv, QueueInv
  <2>3. Places(Row(c)) # {}
    BY <2>1 DEF CopiesInv, WrittenIsThere
  <2> QED
    BY <2>1, <2>2, <2>3 DEF Places
<1> QED
  BY <1>2, <1>3 DEF WrittenIsThere

(* A run that leaves its row before it wrote, or after the entry was linked  *)
(* or excused.                                                               *)
LEMMA OneWriterStays ==
  ASSUME CopiesInv, NEW d \in Runs, LeavesRow(d), remote' = remote,
         linked \subseteq linked', Pardoned \subseteq Pardoned',
         \A r \in Kept' : r \in Kept \/ (r \in Rows /\ Places(r) # {}),
         Posted(d) => Row(d) \in linked' \cup Pardoned'
  PROVE  \A r \in Rows \ Pardoned' : OneWriter(r)'
<1> SUFFICES ASSUME NEW r \in Rows \ Pardoned' PROVE OneWriter(r)'
  OBVIOUS
<1>1. OneWriter(r) /\ Places(r)' = Places(r)
  BY PlacesStay DEF CopiesInv
<1>2. \A c \in Runs : (c \in Pushing(r))' => c \in Pushing(r) /\ phase'[c] = phase[c]
  BY LeftRow
<1>3. ASSUME NEW c \in Runs, c \in Pushing(r), phase[c] \in Written
      PROVE  (c \in Pushing(r))' \/ r \in linked'
  <2>1. CASE c = d
    <3>1. Posted(d) /\ Row(d) = r
      BY <1>3, <2>1 DEF Pushing, Posted, At, Written
    <3> QED
      BY <3>1
  <2>2. CASE c # d
    BY <1>3, <2>2, LeftRow
  <2> QED
    BY <2>1, <2>2
<1>4. (r \in linked => r \in linked') /\ (r \in linked' => r \in linked \/ Places(r) # {})
  BY DEF Kept, CopiesInv, WrittenIsThere
<1> QED
  BY <1>1, <1>2, <1>3, <1>4, OneWriterSame DEF PhaseKept

LEMMA PassCopies ==
  ASSUME CopiesInv, QueueInv', NEW d \in Runs, batch[d] # {}, Pass(d), remote' = remote,
         linked \subseteq linked', Pardoned \subseteq Pardoned', NothingLost',
         \A r \in Kept' : r \in Kept \/ (r \in Rows /\ Places(r) # {}),
         Posted(d) => Row(d) \in linked' \cup Pardoned'
  PROVE  CopiesInv'
<1>1. LeavesRow(d)
  BY PassLeaves DEF CopiesInv, QueueInv
<1> QED
  BY <1>1, WrittenStays, OneWriterStays DEF CopiesInv

(* Nothing is lost where statuses, links and letters stay.                   *)
LEMMA NothingLostSame ==
  ASSUME CopiesInv, TypeOK', UNCHANGED <<status, letters, discarded, linked, misread, remote>>,
         unlinked => unlinked'
  PROVE  NothingLost'
BY DEF CopiesInv, NothingLost, Copies, Places

LEMMA RecordFailureCopies ==
  ASSUME CopiesInv, QueueInv', NEW d \in Runs, batch[d] # {}, NEW terminal \in BOOLEAN,
         RecordFailure(d, terminal), Pardoned \subseteq Pardoned',
         Posted(d) => Row(d) \in Pardoned'
  PROVE  CopiesInv'
<1>1. QueueInv /\ TypeOK /\ TypeOK' /\ Row(d) \in Rows
  BY RowIsHeld DEF CopiesInv, QueueInv
<1>2. PICK outcome \in {"dead_lettered", "waiting"} :
           /\ Settle(d, outcome) /\ Pass(d)
           /\ outcome = "waiting" => letters' = letters
           /\ outcome = "dead_lettered" => letters' = [letters EXCEPT ![Row(d)] = @ + 1]
           /\ \A r \in Rows : r # Row(d) => letters'[r] = letters[r]
           /\ UNCHANGED <<discarded, linked, taken, misread, remote, newest, gone, unlinked, tripped, afterTrip>>
  BY <1>1, RecordFailureRow
<1>3. status'[Row(d)] = outcome /\ \A r \in Rows : r # Row(d) => status'[r] = status[r]
  BY <1>1, <1>2 DEF Settle, TypeOK
<1>4. outcome = "dead_lettered" => letters'[Row(d)] > 0
  <2>1. letters[Row(d)] \in Nat /\ letters \in [Rows -> Nat]
    BY <1>1 DEF TypeOK
  <2>2. outcome = "dead_lettered" => letters'[Row(d)] = letters[Row(d)] + 1
    BY <1>1, <1>2, <2>1
  <2> QED
    BY <2>1, <2>2
<1>5. \A r \in Rows : r # Row(d) => Places(r)' = Places(r)
  BY <1>2, PlacesStay
<1>6. Kept' = Kept
  BY <1>2 DEF Kept
<1>7. NothingLost'
  <2>1. \A r \in Rows :
             /\ status[r] \in {"sent", "skipped"} => unlinked \/ (r \in Kept /\ Places(r) # {})
             /\ status[r] = "dead_lettered" => letters[r] > 0 \/ r \in discarded
    BY <1>1, NothingLostPlaces DEF CopiesInv
  <2>2. \A r \in Rows :
             /\ status'[r] \in {"sent", "skipped"} => unlinked' \/ (r \in Kept' /\ Places(r)' # {})
             /\ status'[r] = "dead_lettered" => letters'[r] > 0 \/ r \in discarded'
    BY <1>2, <1>3, <1>4, <1>5, <1>6, <2>1
  <2> QED
    BY <1>1, <2>2, NothingLostPlacesNext
<1> QED
  BY <1>2, <1>6, <1>7, PassCopies

LEMMA SettleCopies ==
  ASSUME CopiesInv, QueueInv', NEW d \in Runs, batch[d] # {}, NEW outcome \in {"skipped", "sent"},
         Settle(d, outcome), Pass(d), UNCHANGED <<letters, discarded, remote, excused>>,
         linked \subseteq linked', misread \subseteq misread',
         Kept' = Kept \/ (Kept' = Kept \cup {Row(d)} /\ Places(Row(d)) # {}),
         Posted(d) => Row(d) \in Kept',
         unlinked => unlinked', unlinked' \/ Row(d) \in Kept'
  PROVE  CopiesInv'
<1>1. QueueInv /\ TypeOK /\ TypeOK' /\ Row(d) \in Rows
  BY RowIsHeld DEF CopiesInv, QueueInv
<1>2. status'[Row(d)] = outcome /\ \A r \in Rows : r # Row(d) => status'[r] = status[r]
  BY <1>1 DEF Settle, TypeOK
<1>3. \A r \in Rows : Places(r)' = Places(r)
  BY PlacesStay
<1>4. \A r \in Kept' : r \in Kept \/ (r \in Rows /\ Places(r) # {})
  BY <1>1
<1>5. Kept \subseteq Kept' /\ \A r \in Kept' : Places(r) # {}
  BY <1>4 DEF CopiesInv, WrittenIsThere
<1>6. NothingLost'
  <2>1. \A r \in Rows :
             /\ status[r] \in {"sent", "skipped"} => unlinked \/ (r \in Kept /\ Places(r) # {})
             /\ status[r] = "dead_lettered" => letters[r] > 0 \/ r \in discarded
    BY <1>1, NothingLostPlaces DEF CopiesInv
  <2>2. \A r \in Rows :
             /\ status'[r] \in {"sent", "skipped"} => unlinked' \/ (r \in Kept' /\ Places(r)' # {})
             /\ status'[r] = "dead_lettered" => letters'[r] > 0 \/ r \in discarded'
    BY <1>2, <1>3, <1>4, <1>5, <2>1
  <2> QED
    BY <1>1, <2>2, NothingLostPlacesNext
<1>7. Pardoned \subseteq Pardoned' /\ (Posted(d) => Row(d) \in linked' \cup Pardoned')
  BY DEF Pardoned, Kept
<1> QED
  BY <1>4, <1>6, <1>7, PassCopies
LEMMA ReopenCopies ==
  ASSUME CopiesInv, QueueInv', NEW r \in Rows, Reopen(r),
         \A q \in Rows : q # r => letters'[q] = letters[q]
  PROVE  CopiesInv'
<1>1. TypeOK /\ TypeOK'
  BY DEF CopiesInv, QueueInv
<1>2. /\ status'[r] = "pending" /\ \A q \in Rows : q # r => status'[q] = status[q]
      /\ UNCHANGED <<batch, phase, discarded, linked, misread, remote, unlinked, excused>>
  BY <1>1 DEF Reopen, TypeOK, runs, instance
<1>3. NothingLost'
  <2>1. \A q \in Rows :
             /\ status[q] \in {"sent", "skipped"} => unlinked \/ (q \in Kept /\ Places(q) # {})
             /\ status[q] = "dead_lettered" => letters[q] > 0 \/ q \in discarded
    BY <1>1, NothingLostPlaces DEF CopiesInv
  <2>2. \A q \in Rows :
             /\ status'[q] \in {"sent", "skipped"} => unlinked' \/ (q \in Kept' /\ Places(q)' # {})
             /\ status'[q] = "dead_lettered" => letters'[q] > 0 \/ q \in discarded'
    BY <1>2, <2>1, PlacesStay DEF Kept
  <2> QED
    BY <1>1, <2>2, NothingLostPlacesNext
<1>4. WrittenIsThere' /\ \A q \in Rows \ Pardoned' : OneWriter(q)'
  BY <1>2 DEF CopiesInv, WrittenIsThere, OneWriter, Places, Posted, At, Row, Pushing, Kept, Pardoned
<1> QED
  BY <1>3, <1>4 DEF CopiesInv

LEMMA BeginCopies ==
  ASSUME CopiesInv, QueueInv', NEW d \in Runs, Begin(d)
  PROVE  CopiesInv'
<1>1. TypeOK /\ TypeOK' /\ "pushing" \in Phases
  BY DEF CopiesInv, QueueInv, Phases
<1>2. /\ batch[d] # {} /\ phase[d] = "ready" /\ Goto(d, "pushing") /\ Row(d) \notin linked
      /\ excused' = IF Pushing(Row(d)) # {} THEN excused \cup {Row(d)} ELSE excused
      /\ UNCHANGED <<status, letters, discarded, linked, misread, remote, unlinked>>
  BY DEF Begin, At, AlreadySent, queue, instance
<1>3. /\ phase'[d] = "pushing" /\ batch' = batch
      /\ \A c \in Runs : c # d => phase'[c] = phase[c]
  BY <1>1, <1>2, GotoRuns
<1>4. NothingLost'
  BY <1>1, <1>2, NothingLostSame
<1>5. \A c \in Runs : Row(c)' = Row(c)
  BY <1>3 DEF Row
<1>6. WrittenIsThere'
  <2>1. \A c \in Runs : Posted(c)' => Posted(c)
    BY <1>3 DEF Posted, At
  <2> QED
    BY <1>2, <1>5, <2>1 DEF CopiesInv, WrittenIsThere, Places, Kept
<1>7. ASSUME NEW r \in Rows \ Pardoned' PROVE OneWriter(r)'
  <2>1. OneWriter(r) /\ Places(r)' = Places(r)
    BY <1>2, <1>7, PlacesStay DEF CopiesInv, Pardoned
  <2>2. \A c \in Runs \ {d} : c \in Pushing(r)' <=> c \in Pushing(r)
    BY <1>3 DEF Pushing, Posted, At, Row
  <2>3. CASE r = Row(d)
    <3>1. Pushing(r) = {}
      BY <1>2, <1>7, <2>3 DEF Pardoned
    <3>2. Pushing(r)' \subseteq {d}
      BY <2>2, <3>1 DEF Pushing
    <3>3. Places(r) = {}
      BY <1>2, <2>1, <2>3, <3>1 DEF OneWriter
    <3> QED
      BY <1>2, <2>1, <2>3, <3>2, <3>3 DEF OneWriter
  <2>4. CASE r # Row(d)
    <3>1. d \notin Pushing(r)' /\ d \notin Pushing(r)
      BY <1>2, <1>5, <2>4 DEF Pushing, Posted, At
    <3>2. \A c \in Runs : (c \in Pushing(r))' => c \in Pushing(r) /\ phase'[c] = phase[c]
      BY <1>3, <2>2, <3>1
    <3>3. \A c \in Runs : c \in Pushing(r) /\ phase[c] \in Written => (c \in Pushing(r))' \/ r \in linked'
      BY <2>2, <3>1
    <3> QED
      BY <1>2, <2>1, <3>2, <3>3, OneWriterSame DEF PhaseKept
  <2> QED
    BY <2>3, <2>4
<1> QED
  BY <1>4, <1>6, <1>7 DEF CopiesInv

LEMMA PostCopies ==
  ASSUME CopiesInv, QueueInv', NEW d \in Runs, Post(d)
  PROVE  CopiesInv'
<1>1. TypeOK /\ TypeOK' /\ "posted" \in Phases
  BY DEF CopiesInv, QueueInv, Phases
<1>2. /\ batch[d] # {} /\ phase[d] = "pushing" /\ Goto(d, "posted") /\ Write(Row(d))
      /\ UNCHANGED <<status, letters, discarded, linked, misread, unlinked, excused>>
  BY DEF Post, At, queue
<1>3. /\ phase'[d] = "posted" /\ batch' = batch
      /\ \A c \in Runs : c # d => phase'[c] = phase[c]
  BY <1>1, <1>2, GotoRuns
<1>4. Row(d) \in Rows /\ \A c \in Runs : Row(c)' = Row(c)
  BY <1>1, <1>2, <1>3, RowIsHeld DEF Row
<1>5. \A q \in Rows : Places(q)' = IF q = Row(d) THEN Places(q) \cup {Len(remote) + 1} ELSE Places(q)
  BY <1>1, <1>2, <1>4, PlacesAfterWrite
<1>6. \A q \in Rows : Places(q) # {} => Places(q)' # {}
  BY <1>5
<1>7. NothingLost'
  <2>1. \A q \in Rows :
             /\ status[q] \in {"sent", "skipped"} => unlinked \/ (q \in Kept /\ Places(q) # {})
             /\ status[q] = "dead_lettered" => letters[q] > 0 \/ q \in discarded
    BY <1>1, NothingLostPlaces DEF CopiesInv
  <2>2. \A q \in Rows :
             /\ status'[q] \in {"sent", "skipped"} => unlinked' \/ (q \in Kept' /\ Places(q)' # {})
             /\ status'[q] = "dead_lettered" => letters'[q] > 0 \/ q \in discarded'
    BY <1>2, <1>6, <2>1 DEF Kept
  <2> QED
    BY <1>1, <2>2, NothingLostPlacesNext
<1>8. WrittenIsThere'
  <2>1. \A r \in Kept' : Places(r)' # {}
    BY <1>1, <1>2, <1>6 DEF CopiesInv, WrittenIsThere, TypeOK, Kept
  <2>2. ASSUME NEW c \in Runs, Posted(c)' PROVE (Places(Row(c)) # {})'
    <3>1. Row(c) \in Rows
      BY <1>1, <1>3, <2>2, RowIsHeld DEF Posted, At
    <3>2. Row(c)' = Row(c)
      BY <1>4
    <3>3. CASE c = d
      <4>1. \E i \in 1 .. Len(remote') : remote'[i] = Row(d)
        BY <1>4, <1>5 DEF Places
      <4> QED
        BY <1>4, <3>3, <4>1 DEF Places
    <3>4. CASE c # d
      <4>1. Places(Row(c)) # {}
        BY <1>3, <2>2, <3>4 DEF Posted, At, CopiesInv, WrittenIsThere
      <4>2. \E i \in 1 .. Len(remote') : remote'[i] = Row(c)
        BY <1>6, <3>1, <4>1 DEF Places
      <4> QED
        BY <3>2, <4>2 DEF Places
    <3> QED
      BY <3>3, <3>4
  <2> QED
    BY <2>1, <2>2 DEF WrittenIsThere
<1>9. ASSUME NEW r \in Rows \ Pardoned' PROVE OneWriter(r)'
  <2>1. OneWriter(r)
    BY <1>2, <1>9 DEF CopiesInv, Pardoned
  <2>2. \A c \in Runs : c \in Pushing(r)' <=> c \in Pushing(r)
    BY <1>2, <1>3, <1>4 DEF Pushing, Posted, At
  <2>3. CASE r = Row(d)
    <3>1. d \in Pushing(r) /\ Pushing(r)' = Pushing(r)
      BY <1>2, <2>2, <2>3 DEF Pushing, Posted, At
    <3>2. Places(r) = {} /\ \A c \in Pushing(r) : c = d
      BY <1>2, <2>1, <3>1 DEF OneWriter
    <3>3. Places(r)' = {Len(remote) + 1}
      BY <1>5, <2>3, <3>2
    <3> QED
      BY <1>3, <3>1, <3>2, <3>3 DEF OneWriter, Written
  <2>4. CASE r # Row(d)
    <3>1. d \notin Pushing(r)
      BY <2>4 DEF Pushing
    <3>2. Places(r)' = Places(r)
      BY <1>5, <2>4
    <3>3. \A c \in Runs : (c \in Pushing(r))' => c \in Pushing(r) /\ phase'[c] = phase[c]
      BY <1>3, <2>2, <3>1
    <3> QED
      BY <1>2, <2>1, <2>2, <3>2, <3>3, OneWriterSame DEF PhaseKept
  <2> QED
    BY <2>3, <2>4
<1> QED
  BY <1>7, <1>8, <1>9 DEF CopiesInv
LEMMA CopiesSame ==
  ASSUME CopiesInv, QueueInv', UNCHANGED <<letters, discarded, linked, misread, remote, excused, batch, phase>>,
         unlinked => unlinked',
         \A r \in Rows : status'[r] \in {"sent", "skipped", "dead_lettered"} => status'[r] = status[r]
  PROVE  CopiesInv'
<1>1. TypeOK /\ TypeOK'
  BY DEF CopiesInv, QueueInv
<1>2. NothingLost'
  <2>1. \A q \in Rows :
             /\ status[q] \in {"sent", "skipped"} => unlinked \/ (q \in Kept /\ Places(q) # {})
             /\ status[q] = "dead_lettered" => letters[q] > 0 \/ q \in discarded
    BY <1>1, NothingLostPlaces DEF CopiesInv
  <2>2. \A q \in Rows :
             /\ status'[q] \in {"sent", "skipped"} => unlinked' \/ (q \in Kept' /\ Places(q)' # {})
             /\ status'[q] = "dead_lettered" => letters'[q] > 0 \/ q \in discarded'
    BY <2>1, PlacesStay DEF Kept
  <2> QED
    BY <1>1, <2>2, NothingLostPlacesNext
<1>3. WrittenIsThere' /\ \A q \in Rows \ Pardoned' : OneWriter(q)'
  BY SMTT(30) DEF CopiesInv, WrittenIsThere, OneWriter, Places, Posted, At, Row, Pushing, Kept, Pardoned
<1> QED
  BY <1>2, <1>3 DEF CopiesInv

LEMMA ReadBackCopies ==
  ASSUME CopiesInv, QueueInv', NEW d \in Runs, ReadBack(d)
  PROVE  CopiesInv'
<1>1. /\ batch[d] # {} /\ phase[d] = "posted" /\ phase' = [phase EXCEPT ![d] = "read"]
      /\ UNCHANGED <<status, letters, discarded, linked, misread, remote, unlinked, batch, excused>>
  BY DEF ReadBack, At, queue, instance
<1>2. phase'[d] = "read" /\ \A c \in Runs : c # d => phase'[c] = phase[c]
  BY <1>1 DEF CopiesInv, QueueInv, TypeOK
<1>3. NothingLost'
  BY <1>1, NothingLostSame DEF QueueInv
<1>4. \A c \in Runs : Row(c)' = Row(c) /\ (Posted(c)' <=> Posted(c))
  BY <1>1, <1>2 DEF Row, Posted, At
<1>5. \A r : Places(r)' = Places(r)
  BY <1>1 DEF Places
<1>6. \A c \in Runs : Posted(c)' => Places(Row(c))' # {}
  BY <1>1, <1>4 DEF CopiesInv, WrittenIsThere, Places
<1>7. WrittenIsThere'
  BY <1>1, <1>5, <1>6 DEF CopiesInv, WrittenIsThere, Kept
<1>8. ASSUME NEW r \in Rows \ Pardoned' PROVE OneWriter(r)'
  <2>1. OneWriter(r) /\ Places(r)' = Places(r)
    BY <1>1, <1>5, <1>8 DEF CopiesInv, Pardoned
  <2>2. \A c \in Runs : (c \in Pushing(r))' <=> c \in Pushing(r)
    BY <1>1, <1>2, <1>4 DEF Pushing, Posted, At
  <2>3. \A c \in Runs : PhaseKept(c)
    BY <1>1, <1>2 DEF PhaseKept, Written
  <2> QED
    BY <1>1, <2>1, <2>2, <2>3, OneWriterSame
<1> QED
  BY <1>3, <1>7, <1>8 DEF CopiesInv

LEMMA ClientCommentsCopies ==
  ASSUME CopiesInv, QueueInv', ClientComments
  PROVE  CopiesInv'
<1>1. TypeOK /\ TypeOK' /\ Client \in Rows \cup {Client} /\ Client \notin Rows
  BY DEF CopiesInv, QueueInv, Client
<1>2. /\ Write(Client)
      /\ UNCHANGED <<status, letters, discarded, linked, misread, unlinked, batch, phase, excused>>
  BY DEF ClientComments, queue, runs
<1>3. \A r \in Rows : Places(r)' = Places(r)
  BY <1>1, <1>2, PlacesAfterWrite
<1>4. NothingLost'
  <2>1. \A r \in Rows :
             /\ status[r] \in {"sent", "skipped"} => unlinked \/ (r \in Kept /\ Places(r) # {})
             /\ status[r] = "dead_lettered" => letters[r] > 0 \/ r \in discarded
    BY <1>1, NothingLostPlaces DEF CopiesInv
  <2>2. \A r \in Rows :
             /\ status'[r] \in {"sent", "skipped"} => unlinked' \/ (r \in Kept' /\ Places(r)' # {})
             /\ status'[r] = "dead_lettered" => letters'[r] > 0 \/ r \in discarded'
    BY <1>2, <1>3, <2>1 DEF Kept
  <2> QED
    BY <1>1, <2>2, NothingLostPlacesNext
<1>5. \A c \in Runs : Row(c)' = Row(c) /\ (Posted(c)' <=> Posted(c))
  BY <1>2 DEF Row, Posted, At
<1>6. ASSUME NEW c \in Runs, Posted(c)' PROVE Places(Row(c))' # {}
  <2>1. Posted(c) /\ Row(c) \in Rows
    BY <1>1, <1>5, <1>6, RowIsHeld DEF Posted, At
  <2>2. Places(Row(c)) # {}
    BY <2>1 DEF CopiesInv, WrittenIsThere
  <2>3. \E i \in 1 .. Len(remote') : remote'[i] = Row(c)
    BY <1>3, <2>1, <2>2 DEF Places
  <2> QED
    BY <1>5, <2>3 DEF Places
<1>7. WrittenIsThere'
  <2>1. \A r \in Kept : r \in Rows
    BY <1>1 DEF TypeOK, Kept
  <2> QED
    BY <1>2, <1>3, <1>6, <2>1 DEF CopiesInv, WrittenIsThere, Kept
<1>8. ASSUME NEW r \in Rows \ Pardoned' PROVE OneWriter(r)'
  <2>1. OneWriter(r) /\ Places(r)' = Places(r)
    BY <1>2, <1>3, <1>8 DEF CopiesInv, Pardoned
  <2>2. \A c \in Runs : ((c \in Pushing(r))' <=> c \in Pushing(r)) /\ PhaseKept(c)
    BY <1>2, <1>5 DEF Pushing, At, PhaseKept
  <2> QED
    BY <1>2, <2>1, <2>2, OneWriterSame
<1> QED
  BY <1>4, <1>7, <1>8 DEF CopiesInv

LEMMA CopiesNext == CopiesInv /\ [Next]_vars => CopiesInv'
<1> SUFFICES ASSUME CopiesInv, [Next]_vars PROVE CopiesInv'
  OBVIOUS
<1> USE DEF queue, instance, runs
<1>1. QueueInv /\ QueueInv' /\ TypeOK /\ TypeOK'
  BY QueueNext DEF CopiesInv, QueueInv
<1>2. ASSUME NEW d \in Runs, LeavesRow(d), UNCHANGED <<status, letters, discarded, linked, misread, remote, unlinked>>,
             Pardoned \subseteq Pardoned', Posted(d) => Row(d) \in Pardoned'
      PROVE  CopiesInv'
  <2>1. NothingLost'
    BY <1>1, <1>2, NothingLostSame
  <2> QED
    BY <1>1, <1>2, <2>1, WrittenStays, OneWriterStays DEF CopiesInv, Kept
<1>3. ASSUME NEW d \in Runs, Claim(d) PROVE CopiesInv'
  <2>1. LeavesRow(d) /\ ~Posted(d)
    BY <1>1, <1>3, ClaimRuns DEF LeavesRow, Posted, At
  <2>2. UNCHANGED <<queue, instance, excused>>
    BY <1>3 DEF Claim
  <2> QED
    BY <1>2, <2>1, <2>2 DEF Pardoned
<1>4. ASSUME NEW d \in Runs, Unlock(d) PROVE CopiesInv'
  <2>1. LeavesRow(d) /\ ~Posted(d)
    BY <1>1, <1>4, GotoRuns DEF Unlock, LeavesRow, Posted, At, Phases
  <2> QED
    BY <1>2, <1>4, <2>1 DEF Unlock, Pardoned
<1>5. ASSUME NEW d \in Runs, Defer(d) PROVE CopiesInv'
  <2>1. LeavesRow(d) /\ ~Posted(d)
    BY <1>1, <1>5, PassLeaves DEF Defer, Posted, At
  <2> QED
    BY <1>2, <1>5, <2>1 DEF Defer, Pardoned
<1>6. ASSUME NEW d \in Runs, Skip(d) PROVE CopiesInv'
  <2>1. /\ batch[d] # {} /\ Settle(d, "skipped") /\ Pass(d) /\ ~Posted(d)
        /\ UNCHANGED <<letters, discarded, remote, excused, linked, misread>>
    BY <1>6 DEF Skip, Posted, At
  <2>2. (unlinked => unlinked') /\ (unlinked' \/ Row(d) \in Kept') /\ Kept' = Kept
    BY <1>6 DEF Skip, AlreadySent, Kept
  <2> QED
    BY <1>1, <2>1, <2>2, SettleCopies
<1>7. ASSUME NEW d \in Runs, Commit(d) PROVE CopiesInv'
  <2>1. /\ batch[d] # {} /\ Settle(d, "sent") /\ Pass(d) /\ Posted(d)
        /\ UNCHANGED <<letters, discarded, remote, excused, unlinked>>
        /\ Link(Row(d), entry[d])
        /\ misread' = misread \cup (IF entry[d] \in taken THEN {Row(d)} ELSE {})
    BY <1>7 DEF Commit, Posted, At
  <2>2. Places(Row(d)) # {}
    BY <2>1 DEF CopiesInv, WrittenIsThere
  <2>3. /\ linked' = linked \/ linked' = linked \cup {Row(d)}
        /\ Row(d) \in linked' \/ entry[d] \in taken
    BY <2>1 DEF Link
  <2>4. Kept' = Kept \cup {Row(d)}
    BY <2>1, <2>3 DEF Kept
  <2> QED
    BY <1>1, <2>1, <2>2, <2>3, <2>4, SettleCopies
<1>8. ASSUME NEW d \in Runs, Fail(d) PROVE CopiesInv'
  <2>1. PICK terminal \in BOOLEAN : RecordFailure(d, terminal)
    BY <1>8 DEF Fail
  <2>2. batch[d] # {} /\ ~Posted(d) /\ Pardoned' = Pardoned
    BY <1>8 DEF Fail, RecordFailure, Posted, At, Pardoned
  <2> QED
    BY <1>1, <2>1, <2>2, RecordFailureCopies
<1>9. ASSUME NEW d \in Runs, LoseOutcome(d) PROVE CopiesInv'
  <2>1. PICK terminal \in BOOLEAN : RecordFailure(d, terminal)
    BY <1>9 DEF LoseOutcome
  <2>2. batch[d] # {} /\ Pardoned \subseteq Pardoned' /\ Row(d) \in Pardoned'
    BY <1>9, <2>1 DEF LoseOutcome, RecordFailure, Posted, At, Pardoned
  <2> QED
    BY <1>1, <2>1, <2>2, RecordFailureCopies
<1>10. ASSUME NEW d \in Runs, Crash(d) PROVE CopiesInv'
  <2>1. LeavesRow(d)
    BY <1>1, <1>10 DEF Crash, LeavesRow, TypeOK
  <2>2. Pardoned \subseteq Pardoned' /\ (Posted(d) => Row(d) \in Pardoned')
    BY <1>10 DEF Crash, Pardoned
  <2> QED
    BY <1>2, <1>10, <2>1, <2>2 DEF Crash
<1>11. ASSUME NEW r \in Rows, Enqueue(r) \/ BecomeDue(r) PROVE CopiesInv'
  <2>1. status' = [status EXCEPT ![r] = "pending"]
    BY <1>11 DEF Enqueue, BecomeDue
  <2>2. \A q \in Rows : status'[q] \in {"sent", "skipped", "dead_lettered"} => status'[q] = status[q]
    BY <1>1, <2>1 DEF TypeOK
  <2> QED
    BY <1>1, <1>11, <2>2, CopiesSame DEF Enqueue, BecomeDue
<1>12. ASSUME NEW r \in Rows, Replay(r) PROVE CopiesInv'
  <2>1. \A q \in Rows : q # r => letters'[q] = letters[q]
    BY <1>1, <1>12 DEF Replay, TypeOK
  <2> QED
    BY <1>1, <1>12, <2>1, ReopenCopies DEF Replay
<1>13. ASSUME NEW r \in Rows, Retry(r) PROVE CopiesInv'
  BY <1>1, <1>13, ReopenCopies DEF Retry
<1>14. ASSUME NEW r \in Rows, Discard(r) PROVE CopiesInv'
  <2>1. /\ \A q \in Rows : q # r => letters'[q] = letters[q]
        /\ discarded' = discarded \cup {r}
        /\ UNCHANGED <<status, linked, misread, remote, unlinked, excused, batch, phase>>
    BY <1>1, <1>14 DEF Discard, TypeOK
  <2>2. NothingLost'
    <3>1. \A q \in Rows :
               /\ status[q] \in {"sent", "skipped"} => unlinked \/ (q \in Kept /\ Places(q) # {})
               /\ status[q] = "dead_lettered" => letters[q] > 0 \/ q \in discarded
      BY <1>1, NothingLostPlaces DEF CopiesInv
    <3>2. \A q \in Rows :
               /\ status'[q] \in {"sent", "skipped"} => unlinked' \/ (q \in Kept' /\ Places(q)' # {})
               /\ status'[q] = "dead_lettered" => letters'[q] > 0 \/ q \in discarded'
      BY <2>1, <3>1, PlacesStay DEF Kept
    <3> QED
      BY <1>1, <3>2, NothingLostPlacesNext
  <2>3. WrittenIsThere' /\ \A q \in Rows \ Pardoned' : OneWriter(q)'
    BY <2>1 DEF CopiesInv, WrittenIsThere, OneWriter, Places, Posted, At, Row, Pushing, Kept, Pardoned
  <2> QED
    BY <1>1, <2>2, <2>3 DEF CopiesInv
<1>15. CASE Trip \/ Arm \/ ClientDeletes \/ UNCHANGED vars \/ \E i \in DOMAIN remote : Import(i)
  BY <1>1, <1>15, CopiesSame DEF Trip, Arm, ClientDeletes, Import, vars
<1> QED
  BY <1>1, <1>3, <1>4, <1>5, <1>6, <1>7, <1>8, <1>9, <1>10, <1>11, <1>12, <1>13, <1>14, <1>15,
     BeginCopies, PostCopies, ReadBackCopies, ClientCommentsCopies DEF Next, RunStep

(* A row is settled only with its message at the instance, its case gone, or *)
(* a dead letter to show for it, whatever mix of runs, replays and retries   *)
(* settled it (sync.worker.ts 733-811); one that was sent has its link       *)
(* unless the entry read back had one already (862-871).                     *)
THEOREM QueueLosesNothing == Spec => []NothingLost
<1>1. CopiesInv => NothingLost
  BY DEF CopiesInv
<1> QED
  BY <1>1, CopiesInit, CopiesNext, PTL DEF Spec

(* A second copy of a message needs a write whose outcome was lost, two runs *)
(* of the job in its row at once, or a commit that made no link because the  *)
(* entry read back belonged to another message (sync.worker.ts 862-871).     *)
THEOREM DuplicatesExcused == Spec => []DuplicateNeedsExcuse
<1>1. CopiesInv => DuplicateNeedsExcuse
  <2> SUFFICES ASSUME CopiesInv, NEW r \in Rows, r \notin Pardoned PROVE ~(Copies(r) > 1)
    BY DEF DuplicateNeedsExcuse, Pardoned
  <2>1. TypeOK /\ \A i, j \in Places(r) : i = j
    BY DEF CopiesInv, QueueInv, OneWriter
  <2>2. Copies(r) <= 1
    BY <2>1, CopiesArePlaces
  <2>3. IsFiniteSet(Places(r))
    <3>1. IsFiniteSet(1 .. Len(remote)) /\ Places(r) \subseteq 1 .. Len(remote)
      BY <2>1, FS_Interval DEF Places, TypeOK
    <3> QED
      BY <3>1, FS_Subset
  <2>4. Copies(r) \in Nat
    BY <2>3, FS_CardinalityType DEF Copies
  <2> QED
    BY <2>2, <2>4
<1> QED
  BY <1>1, CopiesInit, CopiesNext, PTL DEF Spec

-----------------------------------------------------------------------------
(* The order of messages *)

(* An older message that met no trouble is there before a younger one is     *)
(* written: a run that holds the younger one has the older one still before  *)
(* it, or it is there, or the case is gone.                                  *)
OrderInv ==
  /\ CopiesInv
  /\ \A r \in Rows : status[r] \in {"waiting", "dead_lettered"} => r \in troubled
  /\ OvertakenOnlyAfterTrouble
  /\ \A q, r \in Rows : q < r /\ q \notin troubled =>
        /\ Pushing(r) # {} => Places(q) # {}
        /\ \A d \in Runs : r \in batch[d] => q \in batch[d] \/ Places(q) # {} \/ unlinked

LEMMA OrderInit == Init => OrderInv
<1> SUFFICES ASSUME Init PROVE OrderInv
  OBVIOUS
<1>1. \A r \in Rows : Places(r) = {} /\ Pushing(r) = {} /\ status[r] = "none"
  BY DEF Init, Places, Pushing, Posted, At
<1>2. \A d \in Runs : batch[d] = {}
  BY DEF Init
<1> QED
  BY <1>1, <1>2, CopiesInit DEF OrderInv, OvertakenOnlyAfterTrouble

(* Nothing is written and no run goes to a row: the order stands if every    *)
(* row a run passes is troubled, there, or without a case.                   *)
LEMMA OrderStands ==
  ASSUME OrderInv, CopiesInv', remote' = remote, troubled \subseteq troubled', unlinked => unlinked',
         \A r \in Rows : status'[r] \in {"waiting", "dead_lettered"} => status'[r] = status[r] \/ r \in troubled',
         \A r \in Rows, c \in Runs : (c \in Pushing(r))' => c \in Pushing(r),
         \A c \in Runs : \A r \in batch'[c] : r \in batch[c],
         \A c \in Runs : \A q \in Rows :
           q \in batch[c] /\ q \notin batch'[c] =>
             batch'[c] = {} \/ q \in troubled' \/ Places(q) # {} \/ unlinked'
  PROVE  OrderInv'
<1>1. \A r \in Rows : Places(r)' = Places(r)
  BY PlacesStay
<1>2. \A r \in Rows : Pushing(r)' \subseteq Pushing(r)
  BY DEF Pushing
<1>3. OvertakenOnlyAfterTrouble'
  BY <1>1 DEF OrderInv, OvertakenOnlyAfterTrouble
<1>4. ASSUME NEW q \in Rows, NEW r \in Rows, q < r, q \notin troubled'
      PROVE  /\ Pushing(r)' # {} => Places(q)' # {}
             /\ \A d \in Runs : r \in batch'[d] => q \in batch'[d] \/ Places(q)' # {} \/ unlinked'
  BY <1>1, <1>2, <1>4 DEF OrderInv
<1>5. \A r \in Rows : status'[r] \in {"waiting", "dead_lettered"} => r \in troubled'
  BY DEF OrderInv
<1> QED
  BY <1>3, <1>4, <1>5 DEF OrderInv

LEMMA ClaimOrder ==
  ASSUME OrderInv, CopiesInv', NEW d \in Runs, Claim(d)
  PROVE  OrderInv'
<1>1. QueueInv /\ TypeOK
  BY DEF OrderInv, CopiesInv, QueueInv
<1>2. \A r \in Rows : Places(r)' = Places(r) /\ \A c \in Runs : (c \in Pushing(r))' => c \in Pushing(r)
  <2>1. LeavesRow(d)
    BY <1>1, ClaimRuns DEF LeavesRow
  <2> QED
    BY <1>1, <2>1, LeftRow, PlacesStay, ClaimRuns
<1>3. OvertakenOnlyAfterTrouble'
  BY <1>1, <1>2, ClaimRuns DEF OrderInv, OvertakenOnlyAfterTrouble
<1>4. ASSUME NEW q \in Rows, NEW r \in Rows, q < r, q \notin troubled', r \in batch'[d]
      PROVE  q \in batch'[d] \/ Places(q) # {} \/ unlinked
  <2>1. status[r] = "pending" /\ r \in Oldest(Claimable \ LockedByClaims)
    BY <1>1, <1>4, ClaimRuns
  <2>2. status[q] # "none"
    BY <1>1, <1>4, <2>1 DEF QueueInv, QueuedInOrder
  <2>3. status[q] \notin {"waiting", "dead_lettered"}
    BY <1>1, <1>4, ClaimRuns DEF OrderInv
  <2>4. CASE status[q] = "pending"
    <3>1. q \in Claimable \ LockedByClaims
      BY <1>1, <1>4, <2>4, ClaimRuns DEF Claimable
    <3>2. (Claimable \ LockedByClaims) \in SUBSET Rows
      BY DEF Claimable
    <3>3. q \in Oldest(Claimable \ LockedByClaims)
      BY <1>4, <2>1, <3>1, <3>2, OldestIsPrefix
    <3> QED
      BY <1>1, <3>3, ClaimRuns
  <2>5. CASE status[q] \in {"sent", "skipped"}
    BY <1>1, <2>5, NothingLostPlaces DEF OrderInv, CopiesInv
  <2> QED
    BY <1>1, <2>2, <2>3, <2>4, <2>5 DEF TypeOK, Settled
<1>5. ASSUME NEW q \in Rows, NEW r \in Rows, q < r, q \notin troubled'
      PROVE  /\ Pushing(r)' # {} => Places(q)' # {}
             /\ \A c \in Runs : r \in batch'[c] => q \in batch'[c] \/ Places(q)' # {} \/ unlinked'
  <2>1. q \notin troubled /\ unlinked' = unlinked
    BY <1>1, <1>5, ClaimRuns
  <2>2. Pushing(r)' # {} => Places(q)' # {}
    <3>1. Pushing(r)' \subseteq Pushing(r)
      BY <1>2 DEF Pushing
    <3> QED
      BY <1>2, <1>5, <2>1, <3>1 DEF OrderInv
  <2>3. ASSUME NEW c \in Runs, r \in batch'[c]
        PROVE  q \in batch'[c] \/ Places(q)' # {} \/ unlinked'
    <3>1. CASE c = d
      BY <1>2, <1>4, <1>5, <2>1, <2>3, <3>1
    <3>2. CASE c # d
      BY <1>1, <1>2, <1>5, <2>1, <2>3, <3>2, ClaimRuns DEF OrderInv
    <3> QED
      BY <3>1, <3>2
  <2> QED
    BY <2>2, <2>3
<1>6. \A r \in Rows : status'[r] \in {"waiting", "dead_lettered"} => r \in troubled'
  BY <1>1, ClaimRuns DEF OrderInv
<1> QED
  BY <1>3, <1>5, <1>6 DEF OrderInv
LEMMA BeginOrder ==
  ASSUME OrderInv, CopiesInv', NEW d \in Runs, Begin(d)
  PROVE  OrderInv'
<1>1. TypeOK /\ "pushing" \in Phases
  BY DEF OrderInv, CopiesInv, QueueInv, Phases
<1>2. /\ batch[d] # {} /\ Goto(d, "pushing") /\ ~unlinked
      /\ UNCHANGED <<status, remote, unlinked, troubled>>
  BY DEF Begin, At, queue, instance
<1>3. batch' = batch /\ \A c \in Runs : c # d => phase'[c] = phase[c]
  BY <1>1, <1>2, GotoRuns
<1>4. \A r \in Rows : Places(r)' = Places(r)
  BY <1>2, PlacesStay
<1>5. \A r \in Rows : Pushing(r)' # {} => Pushing(r) # {} \/ r = Row(d)
  BY <1>3 DEF Pushing, Posted, At, Row
<1>6. OvertakenOnlyAfterTrouble'
  BY <1>2, <1>4 DEF OrderInv, OvertakenOnlyAfterTrouble
<1>7. ASSUME NEW q \in Rows, NEW r \in Rows, q < r, q \notin troubled'
      PROVE  /\ Pushing(r)' # {} => Places(q)' # {}
             /\ \A c \in Runs : r \in batch'[c] => q \in batch'[c] \/ Places(q)' # {} \/ unlinked'
  <2>1. ASSUME r = Row(d) PROVE Places(q) # {}
    <3>1. r \in batch[d] /\ q \notin batch[d]
      BY <1>1, <1>2, <1>7, <2>1, RowIsHeld
    <3> QED
      BY <1>2, <1>7, <3>1 DEF OrderInv
  <2> QED
    BY <1>2, <1>3, <1>4, <1>5, <1>7, <2>1 DEF OrderInv
<1>8. \A r \in Rows : status'[r] \in {"waiting", "dead_lettered"} => r \in troubled'
  BY <1>2 DEF OrderInv
<1> QED
  BY <1>6, <1>7, <1>8 DEF OrderInv

LEMMA PostOrder ==
  ASSUME OrderInv, CopiesInv', NEW d \in Runs, Post(d)
  PROVE  OrderInv'
<1>1. TypeOK /\ "posted" \in Phases
  BY DEF OrderInv, CopiesInv, QueueInv, Phases
<1>2. /\ batch[d] # {} /\ At(d, "pushing") /\ Goto(d, "posted") /\ Write(Row(d))
      /\ UNCHANGED <<status, unlinked, troubled>>
  BY DEF Post, At, queue
<1>3. /\ batch' = batch /\ phase'[d] = "posted"
      /\ \A c \in Runs : c # d => phase'[c] = phase[c]
  BY <1>1, <1>2, GotoRuns
<1>4. Row(d) \in Rows /\ d \in Pushing(Row(d)) /\ Len(remote) \in Nat
  <2>1. Row(d) \in Rows
    BY <1>1, <1>2, RowIsHeld DEF At
  <2>2. d \in Pushing(Row(d))
    BY <1>2 DEF Pushing, Posted, At
  <2>3. Len(remote) \in Nat
    BY <1>1 DEF TypeOK
  <2> QED
    BY <2>1, <2>2, <2>3
<1>5. \A q \in Rows : Places(q)' = IF q = Row(d) THEN Places(q) \cup {Len(remote) + 1} ELSE Places(q)
  BY <1>1, <1>2, <1>4, PlacesAfterWrite
<1>6. \A r \in Rows : Pushing(r)' # {} => Pushing(r) # {}
  <2>1. \A c \in Runs, r \in Rows : (c \in Pushing(r))' => c \in Pushing(r)
    BY <1>2, <1>3 DEF Pushing, Posted, At, Row
  <2> QED
    BY <2>1 DEF Pushing
<1>7. OvertakenOnlyAfterTrouble'
  <2> SUFFICES ASSUME NEW q \in Rows, NEW r \in Rows, NEW i \in Places(r)', q < r, q \notin troubled'
               PROVE  \E j \in Places(q)' : j < i
    BY DEF OvertakenOnlyAfterTrouble
  <2>1. Places(q) \subseteq Places(q)' /\ q \notin troubled
    BY <1>2, <1>5
  <2>2. CASE i \in Places(r)
    BY <2>1, <2>2 DEF OrderInv, OvertakenOnlyAfterTrouble
  <2>3. CASE i \notin Places(r)
    <3>1. r = Row(d) /\ i = Len(remote) + 1
      BY <1>5, <2>3
    <3>2. Places(q) # {}
      BY <1>4, <2>1, <3>1 DEF OrderInv
    <3>3. PICK j \in Places(q) : j \in 1 .. Len(remote)
      BY <3>2 DEF Places
    <3>4. j < i
      BY <1>4, <3>1, <3>3
    <3> QED
      BY <2>1, <3>3, <3>4
  <2> QED
    BY <2>2, <2>3
<1>8. ASSUME NEW q \in Rows, NEW r \in Rows, q < r, q \notin troubled'
      PROVE  /\ Pushing(r)' # {} => Places(q)' # {}
             /\ \A c \in Runs : r \in batch'[c] => q \in batch'[c] \/ Places(q)' # {} \/ unlinked'
  <2>1. Places(q) # {} => Places(q)' # {}
    BY <1>5
  <2> QED
    BY <1>2, <1>3, <1>6, <1>8, <2>1 DEF OrderInv
<1>9. \A r \in Rows : status'[r] \in {"waiting", "dead_lettered"} => r \in troubled'
  BY <1>2 DEF OrderInv
<1> QED
  BY <1>7, <1>8, <1>9 DEF OrderInv

(* A run passes its row for good: the row is troubled, there or without a case. *)
LEMMA PassOrder ==
  ASSUME OrderInv, CopiesInv', NEW d \in Runs, batch[d] # {}, Pass(d), remote' = remote,
         troubled \subseteq troubled', unlinked => unlinked',
         \A r \in Rows : status'[r] \in {"waiting", "dead_lettered"} => status'[r] = status[r] \/ r \in troubled',
         Row(d) \in troubled' \/ Places(Row(d)) # {} \/ unlinked'
  PROVE  OrderInv'
<1>1. TypeOK
  BY DEF OrderInv, CopiesInv, QueueInv
<1>2. LeavesRow(d) /\ batch'[d] = batch[d] \ {Row(d)} /\ \A c \in Runs : c # d => batch'[c] = batch[c]
  BY <1>1, PassLeaves, PassRuns
<1>3. \A r \in Rows, c \in Runs : (c \in Pushing(r))' => c \in Pushing(r)
  BY <1>2, LeftRow
<1>4. \A c \in Runs : \A r \in batch'[c] : r \in batch[c]
  BY <1>2
<1>5. \A c \in Runs : \A q \in Rows :
        q \in batch[c] /\ q \notin batch'[c] => q \in troubled' \/ Places(q) # {} \/ unlinked'
  BY <1>2
<1> QED
  BY <1>3, <1>4, <1>5, OrderStands

LEMMA OrderNext == OrderInv /\ [Next]_vars => OrderInv'
<1> SUFFICES ASSUME OrderInv, [Next]_vars PROVE OrderInv'
  OBVIOUS
<1> USE DEF queue, instance, runs
<1>1. CopiesInv /\ CopiesInv' /\ QueueInv /\ TypeOK
  BY CopiesNext DEF OrderInv, CopiesInv, QueueInv
<1>2. ASSUME UNCHANGED <<remote, batch, phase>>, troubled \subseteq troubled', unlinked => unlinked',
             \A r \in Rows : status'[r] \in {"waiting", "dead_lettered"} => status'[r] = status[r]
      PROVE  OrderInv'
  <2>1. \A r \in Rows, c \in Runs : (c \in Pushing(r))' => c \in Pushing(r)
    BY <1>2 DEF Pushing, Posted, At, Row
  <2> QED
    BY <1>1, <1>2, <2>1, OrderStands
<1>3. ASSUME NEW d \in Runs, Unlock(d) PROVE OrderInv'
  <2>1. LeavesRow(d) /\ batch' = batch
    BY <1>1, <1>3, GotoRuns DEF Unlock, LeavesRow, Phases
  <2>2. \A r \in Rows, c \in Runs : (c \in Pushing(r))' => c \in Pushing(r)
    BY <2>1, LeftRow
  <2> QED
    BY <1>1, <1>3, <2>1, <2>2, OrderStands DEF Unlock
<1>4. ASSUME NEW d \in Runs, Defer(d) PROVE OrderInv'
  BY <1>1, <1>4, PassOrder DEF Defer, At
<1>5. ASSUME NEW d \in Runs, NEW outcome \in {"skipped", "sent"}, Settle(d, outcome)
      PROVE  \A r \in Rows : status'[r] \in {"waiting", "dead_lettered"} => status'[r] = status[r]
  BY <1>1, <1>5 DEF Settle, TypeOK
<1>6. ASSUME NEW d \in Runs, Skip(d) PROVE OrderInv'
  <2>1. /\ batch[d] # {} /\ Pass(d) /\ remote' = remote /\ troubled' = troubled
        /\ unlinked => unlinked'
        /\ Row(d) \in linked \/ unlinked'
    BY <1>6 DEF Skip, At, AlreadySent
  <2>2. Places(Row(d)) # {} \/ unlinked'
    BY <1>1, <2>1 DEF CopiesInv, WrittenIsThere, Kept
  <2> QED
    BY <1>1, <1>5, <1>6, <2>1, <2>2, PassOrder DEF Skip
<1>7. ASSUME NEW d \in Runs, Commit(d) PROVE OrderInv'
  <2>1. /\ batch[d] # {} /\ Pass(d) /\ remote' = remote /\ troubled' = troubled
        /\ unlinked' = unlinked /\ Posted(d)
    BY <1>7 DEF Commit, Posted, At
  <2>2. Places(Row(d)) # {}
    BY <1>1, <2>1 DEF CopiesInv, WrittenIsThere
  <2> QED
    BY <1>1, <1>5, <1>7, <2>1, <2>2, PassOrder DEF Commit
<1>8. ASSUME NEW d \in Runs, NEW terminal \in BOOLEAN, RecordFailure(d, terminal), batch[d] # {}
      PROVE  OrderInv'
  <2>1. /\ Pass(d) /\ troubled' = troubled \cup {Row(d)} /\ UNCHANGED <<remote, unlinked>>
        /\ \E outcome \in {"dead_lettered", "waiting"} : Settle(d, outcome)
    BY <1>8 DEF RecordFailure
  <2>2. \A r \in Rows : status'[r] \in {"waiting", "dead_lettered"} => status'[r] = status[r] \/ r \in troubled'
    BY <1>1, <2>1 DEF Settle, TypeOK
  <2> QED
    BY <1>1, <1>8, <2>1, <2>2, PassOrder
<1>9. ASSUME NEW d \in Runs, Fail(d) \/ LoseOutcome(d) PROVE OrderInv'
  BY <1>8, <1>9 DEF Fail, LoseOutcome, Posted, At
<1>10. ASSUME NEW d \in Runs, Crash(d) PROVE OrderInv'
  <2>1. /\ LeavesRow(d) /\ batch'[d] = {} /\ \A c \in Runs : c # d => batch'[c] = batch[c]
        /\ UNCHANGED <<status, remote, troubled, unlinked>>
    BY <1>1, <1>10 DEF Crash, LeavesRow, TypeOK
  <2>2. \A r \in Rows, c \in Runs : (c \in Pushing(r))' => c \in Pushing(r)
    BY <2>1, LeftRow
  <2> QED
    BY <1>1, <2>1, <2>2, OrderStands
<1>11. ASSUME NEW r \in Rows, Enqueue(r) \/ BecomeDue(r) PROVE OrderInv'
  <2>1. status' = [status EXCEPT ![r] = "pending"]
    BY <1>11 DEF Enqueue, BecomeDue
  <2>2. \A q \in Rows : status'[q] \in {"waiting", "dead_lettered"} => status'[q] = status[q]
    BY <1>1, <2>1 DEF TypeOK
  <2> QED
    BY <1>2, <1>11, <2>2 DEF Enqueue, BecomeDue
<1>12. ASSUME NEW r \in Rows, Replay(r) \/ Retry(r) PROVE OrderInv'
  <2>1. status' = [status EXCEPT ![r] = "pending"]
    BY <1>12 DEF Replay, Retry, Reopen
  <2>2. \A q \in Rows : status'[q] \in {"waiting", "dead_lettered"} => status'[q] = status[q]
    BY <1>1, <2>1 DEF TypeOK
  <2> QED
    BY <1>2, <1>12, <2>2 DEF Replay, Retry, Reopen
<1>13. ASSUME NEW r \in Rows, Discard(r) PROVE OrderInv'
  BY <1>2, <1>13 DEF Discard
<1>14. CASE Trip \/ Arm \/ ClientDeletes \/ UNCHANGED vars \/ \E i \in DOMAIN remote : Import(i)
  BY <1>2, <1>14 DEF Trip, Arm, ClientDeletes, Import, vars
<1>15. ASSUME NEW d \in Runs, ReadBack(d) PROVE OrderInv'
  <2>1. /\ UNCHANGED <<status, remote, batch, troubled, unlinked>> /\ phase[d] = "posted"
        /\ phase' = [phase EXCEPT ![d] = "read"]
    BY <1>15 DEF ReadBack, At
  <2>2. \A r \in Rows, c \in Runs : (c \in Pushing(r))' => c \in Pushing(r)
    BY <1>1, <2>1 DEF Pushing, Posted, At, Row, TypeOK
  <2> QED
    BY <1>1, <2>1, <2>2, OrderStands
<1>16. CASE ClientComments
  <2>1. /\ Client \in Rows \cup {Client} /\ Client \notin Rows /\ Write(Client)
        /\ UNCHANGED <<status, unlinked, batch, phase, troubled>>
    BY <1>16 DEF ClientComments, Client
  <2>2. \A r \in Rows : Places(r)' = Places(r)
    BY <1>1, <2>1, PlacesAfterWrite
  <2>3. \A r \in Rows : Pushing(r)' = Pushing(r)
    BY <2>1 DEF Pushing, Posted, At, Row
  <2> QED
    BY <1>1, <2>1, <2>2, <2>3 DEF OrderInv, OvertakenOnlyAfterTrouble
<1> QED
  BY <1>1, <1>3, <1>4, <1>6, <1>7, <1>9, <1>10, <1>11, <1>12, <1>13, <1>14, <1>15, <1>16,
     ClaimOrder, BeginOrder, PostOrder DEF Next, RunStep

(* Rows leave oldest first (sync.worker.ts 701): a message is overtaken only *)
(* if it failed, was reopened, met a trip in the middle of a batch, or was   *)
(* passed over while another run was claiming it.                            *)
THEOREM OvertakenTroubled == Spec => []OvertakenOnlyAfterTrouble
<1>1. OrderInv => OvertakenOnlyAfterTrouble
  BY DEF OrderInv
<1> QED
  BY <1>1, OrderInit, OrderNext, PTL DEF Spec
=============================================================================
