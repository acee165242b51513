--------------------------- MODULE SyncEchoProofs ---------------------------
(***************************************************************************)
(* Proofs about SyncEcho, for every set of comments, every tolerance,      *)
(* every limit on a pass and every bound: the types, that the import of    *)
(* journal entries neither returns ours nor repeats theirs, and that what  *)
(* the client changes away from our pushes is not lost.  At the end, the   *)
(* field maps of SyncLink, for any maps and any requests.                  *)
(***************************************************************************)
EXTENDS SyncEcho, FiniteSetTheorems, NaturalsInduction, WellFoundedInduction, TLAPS

USE EchoAssumption, CommentsAssumption

-----------------------------------------------------------------------------
(* About the operators of the model.                                         *)

(* What the actions that rewrite an inbox row leave of the inbox.            *)
LEMMA RowFields ==
  ASSUME inbox \in Seq(InboxRow), NEW i \in DOMAIN inbox
  PROVE  /\ inbox[i] \in InboxRow
         /\ inbox[i].version \in Instants /\ inbox[i].value \in Nat
         /\ inbox[i].entries \subseteq Entry /\ inbox[i].attempts \in Nat
         /\ inbox[i].outcome \in {"pending", "applied", "dropped_reflection", "failed"}
<1>1. inbox[i] \in InboxRow
  OBVIOUS
<1> QED
  BY <1>1 DEF InboxRow

LEMMA RowReplaced ==
  ASSUME NEW q \in Seq(InboxRow), NEW i \in DOMAIN q, NEW row \in InboxRow
  PROVE  LET r == [q EXCEPT ![i] = row]
         IN  /\ r \in Seq(InboxRow) /\ DOMAIN r = DOMAIN q /\ r[i] = row
             /\ \A j \in DOMAIN q \ {i} : r[j] = q[j]
<1> DEFINE r == [q EXCEPT ![i] = row]
<1>1. q \in [1 .. Len(q) -> InboxRow] /\ Len(q) \in Nat /\ DOMAIN q = 1 .. Len(q)
  OBVIOUS
<1>2. r \in [1 .. Len(q) -> InboxRow]
  BY <1>1
<1>3. r \in Seq(InboxRow)
  BY <1>1, <1>2
<1> QED
  BY <1>1, <1>2, <1>3

(* Only the outcome of the row changes.                                      *)
LEMMA OutcomeSettles ==
  ASSUME inbox \in Seq(InboxRow), NEW i \in DOMAIN inbox,
         NEW o \in {"applied", "dropped_reflection"}, Outcome(i, o)
  PROVE  /\ inbox' \in Seq(InboxRow) /\ DOMAIN inbox' = DOMAIN inbox
         /\ \A j \in DOMAIN inbox :
               /\ inbox'[j].version = inbox[j].version /\ inbox'[j].value = inbox[j].value
               /\ inbox'[j].entries = inbox[j].entries
               /\ inbox'[j].outcome = IF j = i THEN o ELSE inbox[j].outcome
<1> DEFINE row == [inbox[i] EXCEPT !.outcome = o]
<1>1. inbox[i] \in InboxRow
  OBVIOUS
<1>2. /\ row \in InboxRow /\ row.version = inbox[i].version /\ row.value = inbox[i].value
      /\ row.entries = inbox[i].entries /\ row.outcome = o
  BY <1>1 DEF InboxRow
<1>3. inbox' = [inbox EXCEPT ![i] = row]
  BY DEF Outcome
<1>4. row \in InboxRow
  BY <1>2
<1> HIDE DEF row
<1>5. /\ inbox' \in Seq(InboxRow) /\ DOMAIN inbox' = DOMAIN inbox /\ inbox'[i] = row
      /\ \A j \in DOMAIN inbox \ {i} : inbox'[j] = inbox[j]
  BY <1>3, <1>4, RowReplaced
<1> QED
  BY <1>2, <1>5

(* A failure and a replay touch the attempts and the outcome of one row.     *)
Attempted(i, n, o) == inbox' = [inbox EXCEPT ![i].attempts = n, ![i].outcome = o]

LEMMA AttemptSettles ==
  ASSUME inbox \in Seq(InboxRow), NEW i \in DOMAIN inbox, NEW n \in Nat,
         NEW o \in {"pending", "failed"}
  PROVE  Attempted(i, n, o)
          => /\ inbox' \in Seq(InboxRow) /\ DOMAIN inbox' = DOMAIN inbox
             /\ \A j \in DOMAIN inbox :
                   /\ inbox'[j].version = inbox[j].version /\ inbox'[j].value = inbox[j].value
                   /\ inbox'[j].entries = inbox[j].entries
                   /\ inbox'[j].outcome = IF j = i THEN o ELSE inbox[j].outcome
<1> DEFINE row == [inbox[i] EXCEPT !.attempts = n, !.outcome = o]
           r == [inbox EXCEPT ![i] = row]
<1>1. inbox[i] \in InboxRow
  OBVIOUS
<1>2. /\ row \in InboxRow /\ row.version = inbox[i].version /\ row.value = inbox[i].value
      /\ row.entries = inbox[i].entries /\ row.outcome = o
  BY <1>1 DEF InboxRow
<1>3. row \in InboxRow
  BY <1>2
<1>4. /\ r \in Seq(InboxRow) /\ DOMAIN r = DOMAIN inbox /\ r[i] = row
      /\ \A j \in DOMAIN inbox \ {i} : r[j] = inbox[j]
  <2> HIDE DEF row
  <2> QED
    BY <1>3, RowReplaced
<1> HAVE Attempted(i, n, o)
<1>5. inbox' = r
  <2>1. inbox \in [DOMAIN inbox -> InboxRow]
    OBVIOUS
  <2> QED
    BY <2>1, <1>1 DEF Attempted
<1> HIDE DEF row, r
<1> QED
  BY <1>2, <1>4, <1>5

(* applyPending takes the oldest rows: none it leaves is older than one it   *)
(* takes.                                                                    *)
LEMMA OldestIsPrefix ==
  ASSUME NEW rows, rows \subseteq Nat, IsFiniteSet(rows),
         NEW i \in Oldest(rows), NEW j \in rows, j < i
  PROVE  j \in Oldest(rows)
<1> DEFINE A == {k \in rows : k < j}
           B == {k \in rows : k < i}
<1>1. i \in rows /\ i \in Nat /\ j \in Nat
  BY DEF Oldest
<1>2. A \subseteq B
  <2>1. \A k \in rows : k < j => k < i
    BY <1>1
  <2> QED
    BY <2>1
<1>3. IsFiniteSet(B)
  BY FS_Subset
<1>4. Cardinality(A) <= Cardinality(B) /\ Cardinality(A) \in Nat /\ Cardinality(B) \in Nat
  <2>1. IsFiniteSet(A) /\ Cardinality(A) <= Cardinality(B)
    BY <1>2, <1>3, FS_Subset
  <2> QED
    BY <2>1, <1>3, FS_CardinalityType
<1>5. Cardinality(B) < PassSize
  BY DEF Oldest
<1>6. Cardinality(A) < PassSize
  BY <1>4, <1>5
<1> QED
  BY <1>6 DEF Oldest

(* A pass has a row it is at, and no older one.                              *)
LEMMA TakenIsLeast ==
  ASSUME pass # {}, pass \subseteq Nat
  PROVE  Taken \in pass /\ \A j \in pass : Taken <= j
<1>1. PICK i \in pass : \A j \in pass : ~ (<<j, i>> \in OpToRel(<, Nat))
  BY NatLessThanWellFounded, WFMin
<1>2. ASSUME NEW j \in pass PROVE i <= j
  <2>1. i \in Nat /\ j \in Nat
    OBVIOUS
  <2>2. ~ (<<j, i>> \in {ss \in Nat \X Nat : ss[1] < ss[2]})
    BY <1>1 DEF OpToRel
  <2>3. ~ (j < i)
    BY <2>1, <2>2
  <2> QED
    BY <2>1, <2>3
<1> QED
  BY <1>2 DEF Taken

-----------------------------------------------------------------------------
(* The types, and what the sets of entries have in common: the inbox and the *)
(* links hold entries of the journal, which is finite, and a pass holds      *)
(* pending rows.                                                             *)
EchoInv ==
  /\ TypeOK
  /\ IsFiniteSet(journal) /\ links \subseteq journal
  /\ \A i \in DOMAIN inbox : inbox[i].entries \subseteq journal
  /\ push.entry # NoEntry => push.entry \in journal
  /\ pass \subseteq Pending

(* A comment of the client's has one entry; what is shown has its link.      *)
OnceInv ==
  /\ echoes = 0
  /\ \A e, f \in journal : (e.by = f.by /\ e.by \in Comments) => e = f
  /\ \A c \in Comments :
        shown[c] <= 1 /\ (shown[c] > 0 => \E e \in links : e.by = c)

(* Past the reach of the reflection test.                                    *)
Late(instant) == guard.at # None => instant > guard.at + Tolerance

(* A row still to be applied, or dead, that carries an entry and is no older *)
(* than it.                                                                  *)
CarriedBy(i, e) ==
  /\ e \in inbox[i].entries /\ e.at <= inbox[i].version
  /\ inbox[i].outcome \in {"pending", "failed"}

(* Either such a row exists, or the poll is still to find the entry.         *)
OnItsWay(e) ==
  \/ \E i \in DOMAIN inbox : CarriedBy(i, e)
  \/ e.at > watermark /\ \A i \in DOMAIN inbox : inbox[i].version < e.at

(* No stamp is ahead of the clock.                                           *)
StampsPast ==
  /\ case.stamp <= now /\ watermark <= now /\ poll.stamp <= now
  /\ \A i \in DOMAIN inbox : inbox[i].version <= now

(* What a quiet comment of the client's has ahead of it until it is shown.   *)
QuietInv ==
  /\ StampsPast
  /\ \A c \in Comments \cap quiet : \E e \in journal :
        /\ e.by = c
        /\ shown[c] = 0 => (push = NoPush /\ e \notin links /\ Late(e.at) /\ OnItsWay(e))

(* While nothing failed, was replayed or was rewound, versions and values    *)
(* come to the ticket in the order the client made them.                     *)
InOrder ==
  /\ \A i, j \in DOMAIN inbox : i < j =>
        /\ inbox[i].version < inbox[j].version /\ inbox[i].value <= inbox[j].value
        /\ inbox[i].outcome = "pending" => inbox[j].outcome = "pending"
  /\ \A i \in DOMAIN inbox :
        /\ inbox[i].version <= watermark /\ inbox[i].value <= case.value
        /\ poll # NoPoll => inbox[i].value <= poll.value
        /\ inbox[i].outcome = "pending" => value <= inbox[i].value
  /\ poll # NoPoll => (watermark < poll.stamp /\ value <= poll.value)
  /\ poll.value <= case.value /\ value <= case.value
  /\ \A i \in pass, j \in Pending : j < i => j \in pass

(* A quiet edit that the ticket does not show yet: whatever carries it is    *)
(* out of the reflection test's reach, and something does.                   *)
Underway ==
  /\ push = NoPush /\ Late(case.stamp)
  /\ \A i \in DOMAIN inbox : inbox[i].value = case.value => Late(inbox[i].version)
  /\ (poll # NoPoll /\ poll.value = case.value) => Late(poll.stamp)
  /\ \/ \E i \in Pending : inbox[i].value = case.value
     \/ poll # NoPoll /\ poll.value = case.value
     \/ case.stamp > watermark /\ case.stamp > poll.stamp

EditInv ==
  disturbances = 0 =>
    /\ InOrder
    /\ ("edit" \in quiet /\ value # case.value) => Underway

-----------------------------------------------------------------------------
(* EchoInv.                                                                  *)

LEMMA Instant == now \in 1 .. MaxNow => now \in Instants /\ now \in Int
  BY DEF Instants

LEMMA EchoInit == Init => EchoInv
<1> SUFFICES ASSUME Init PROVE EchoInv
  OBVIOUS
<1>1. case \in [stamp : Instants, value : Nat] /\ poll \in [stamp : Instants, value : Nat]
      /\ guard \in [at : Instants, hash : Nat \cup {None}]
  BY DEF Init, NoPoll, NoGuard, None, Instants
<1>2. inbox \in Seq(InboxRow) /\ DOMAIN inbox = {} /\ pass = {}
  BY DEF Init
<1>3. IsFiniteSet(journal) /\ journal = {} /\ links = {} /\ sent = {}
  BY FS_EmptySet DEF Init
<1>4. push = NoPush /\ push.entry = NoEntry
  BY DEF Init, NoPush
<1>5. shown \in [Comments -> Nat]
  BY DEF Init
<1>6. now \in 1 .. MaxNow /\ watermark \in Instants
  BY DEF Init, Instants
<1>7. value \in Nat /\ echoes \in Nat /\ quiet = {}
      /\ pushes \in 0 .. MaxPushes /\ edits \in 0 .. MaxEdits
      /\ disturbances \in 0 .. MaxDisturbances
  BY DEF Init
<1> QED
  BY <1>1, <1>2, <1>3, <1>4, <1>5, <1>6, <1>7 DEF EchoInv, TypeOK

LEMMA ClientKeeps ==
  ASSUME EchoInv, ClientEdits \/ \E c \in Comments : ClientComments(c)
  PROVE  EchoInv'
<1>0. now \in Instants /\ now \in Int /\ case.value \in Nat
  BY Instant DEF EchoInv, TypeOK
<1>1. CASE ClientEdits
  <2>1. case' \in [stamp : Instants, value : Nat]
    BY <1>0, <1>1 DEF ClientEdits
  <2>2. edits' \in 0 .. MaxEdits
    BY <1>1 DEF ClientEdits, EchoInv, TypeOK
  <2>3. quiet' \subseteq Changes
    BY <1>1 DEF ClientEdits, Quiet, Changes, EchoInv, TypeOK
  <2>4. UNCHANGED <<now, journal, ticketVars, linkVars, inboundVars, push, pushes, disturbances>>
    BY <1>1 DEF ClientEdits
  <2> QED
    BY <2>1, <2>2, <2>3, <2>4
    DEF EchoInv, TypeOK, ticketVars, linkVars, inboundVars, Pending
<1>2. ASSUME NEW c \in Comments, ClientComments(c) PROVE EchoInv'
  <2>1. case' \in [stamp : Instants, value : Nat]
    BY <1>0, <1>2 DEF ClientComments, EchoInv, TypeOK
  <2>2. journal' = journal \cup {[by |-> c, at |-> now]}
    BY <1>2 DEF ClientComments
  <2>3. journal' \subseteq Entry /\ journal \subseteq journal'
    BY <1>0, <2>2, SMTT(30) DEF Entry, EchoInv, TypeOK
  <2>4. IsFiniteSet(journal')
    BY <2>2, FS_AddElement DEF EchoInv
  <2>5. quiet' \subseteq Changes
    BY <1>2 DEF ClientComments, Quiet, Changes, EchoInv, TypeOK
  <2>6. UNCHANGED <<now, ticketVars, linkVars, inboundVars, push, bounds>>
    BY <1>2 DEF ClientComments
  <2> QED
    BY <2>1, <2>3, <2>4, <2>5, <2>6
    DEF EchoInv, TypeOK, ticketVars, linkVars, inboundVars, bounds, Pending
<1> QED
  BY <1>1, <1>2

LEMMA PushKeeps ==
  ASSUME EchoInv, PushWrite \/ PushReadBack \/ PushCommit \/ PushLost
  PROVE  EchoInv'
<1>0. /\ now \in Instants /\ now \in Int /\ case.value \in Nat
      /\ case \in [stamp : Instants, value : Nat]
  BY Instant DEF EchoInv, TypeOK
<1>1. CASE PushWrite
  <2>1. case' \in [stamp : Instants, value : Nat]
    BY <1>0, <1>1 DEF PushWrite
  <2>2. journal' = journal \cup {[by |-> "xms", at |-> now]}
    BY <1>1 DEF PushWrite
  <2>3. journal' \subseteq Entry /\ journal \subseteq journal'
    BY <1>0, <2>2 DEF Entry, EchoInv, TypeOK
  <2>4. IsFiniteSet(journal')
    BY <2>2, FS_AddElement DEF EchoInv
  <2>5. push' \in Push /\ push'.entry = NoEntry
    BY <1>0, <1>1 DEF PushWrite, Push
  <2>6. quiet' \subseteq Changes /\ pushes' \in 0 .. MaxPushes
    BY <1>1, SMTT(30) DEF PushWrite, EchoInv, TypeOK
  <2>7. UNCHANGED <<now, ticketVars, linkVars, inboundVars, edits, disturbances>>
    BY <1>1 DEF PushWrite
  <2> QED
    BY <2>1, <2>3, <2>4, <2>5, <2>6, <2>7
    DEF EchoInv, TypeOK, ticketVars, linkVars, inboundVars, Pending
<1>2. CASE PushReadBack
  <2>1. PICK e \in journal : push' = [push EXCEPT !.entry = e]
    BY <1>2 DEF PushReadBack, Newest
  <2>2. push \in Push
    BY <1>2 DEF PushReadBack, EchoInv, TypeOK
  <2>3. push' \in Push /\ push'.entry = e
    BY <2>1, <2>2 DEF Push, EchoInv, TypeOK
  <2>4. UNCHANGED <<now, remoteVars, ticketVars, linkVars, inboundVars, bounds, quiet>>
    BY <1>2 DEF PushReadBack
  <2>5. TypeOK'
    BY <2>3, <2>4
    DEF EchoInv, TypeOK, remoteVars, ticketVars, linkVars, inboundVars, bounds
  <2>6. UNCHANGED <<journal, links, inbox, pass>>
    BY <2>4 DEF remoteVars, linkVars, inboundVars
  <2>7. push'.entry # NoEntry => push'.entry \in journal'
    BY <2>3, <2>6
  <2> QED
    BY <2>5, <2>6, <2>7 DEF EchoInv, Pending
<1>3. CASE PushCommit
  <2>1. push \in Push /\ push.entry \in journal
    BY <1>3 DEF PushCommit, EchoInv, TypeOK, NoPush
  <2>2. guard' \in [at : Instants, hash : Nat \cup {None}]
    BY <1>0, <1>3, <2>1 DEF PushCommit, Push
  <2>3. links' \subseteq journal /\ sent' \subseteq links'
    BY <1>3, <2>1 DEF PushCommit, EchoInv, TypeOK
  <2>4. push' = NoPush /\ push'.entry = NoEntry
    BY <1>3 DEF PushCommit, NoPush
  <2>5. quiet' \subseteq Changes
    BY <1>3 DEF PushCommit, EchoInv, TypeOK
  <2>6. UNCHANGED <<now, remoteVars, ticketVars, inboundVars, bounds>>
    BY <1>3 DEF PushCommit
  <2> QED
    BY <2>2, <2>3, <2>4, <2>5, <2>6
    DEF EchoInv, TypeOK, remoteVars, ticketVars, inboundVars, bounds, Pending
<1>4. CASE PushLost
  <2>1. push' = NoPush /\ push'.entry = NoEntry
    BY <1>4 DEF PushLost, NoPush
  <2>2. disturbances' \in 0 .. MaxDisturbances
    BY <1>4 DEF PushLost, Disturbed, EchoInv, TypeOK
  <2>3. UNCHANGED <<now, remoteVars, ticketVars, linkVars, inboundVars, pushes, edits, quiet>>
    BY <1>4 DEF PushLost
  <2> QED
    BY <2>1, <2>2, <2>3
    DEF EchoInv, TypeOK, remoteVars, ticketVars, linkVars, inboundVars, Pending
<1> QED
  BY <1>1, <1>2, <1>3, <1>4

(* A poll stores a row of its own or leaves the inbox alone.                 *)
Arrival == [version |-> poll.stamp, value |-> poll.value,
            entries |-> JournalSince, outcome |-> "pending", attempts |-> 0]

LEMMA ArrivalStored ==
  ASSUME EchoInv, PollStore
  PROVE  /\ Arrival \in InboxRow /\ Len(inbox) \in Nat /\ DOMAIN inbox = 1 .. Len(inbox)
         /\ inbox' \in Seq(InboxRow)
         /\ \A j \in DOMAIN inbox : inbox'[j] = inbox[j]
         /\ \/ Stored(poll.stamp) /\ inbox' = inbox
            \/ /\ ~Stored(poll.stamp)
               /\ DOMAIN inbox' = DOMAIN inbox \cup {Len(inbox) + 1}
               /\ inbox'[Len(inbox) + 1] = Arrival
<1>1. inbox \in Seq(InboxRow) /\ poll \in [stamp : Instants, value : Nat]
  BY DEF EchoInv, TypeOK
<1>2. JournalSince \subseteq Entry
  BY DEF JournalSince, EchoInv, TypeOK
<1>3. Arrival \in InboxRow
  BY <1>1, <1>2 DEF Arrival, InboxRow
<1>4. inbox' = IF Stored(poll.stamp) THEN inbox ELSE Append(inbox, Arrival)
  BY DEF PollStore, Arrival
<1>5. Len(inbox) \in Nat /\ DOMAIN inbox = 1 .. Len(inbox)
  BY <1>1
<1> HIDE DEF Arrival
<1>6. CASE Stored(poll.stamp)
  BY <1>1, <1>3, <1>4, <1>5, <1>6
<1>7. CASE ~Stored(poll.stamp)
  <2>1. inbox' = Append(inbox, Arrival)
    BY <1>4, <1>7
  <2>2. inbox' \in Seq(InboxRow) /\ Len(inbox') = Len(inbox) + 1
    BY <1>1, <1>3, <2>1
  <2>3. DOMAIN inbox' = 1 .. Len(inbox) + 1
    BY <2>2
  <2>4. inbox'[Len(inbox) + 1] = Arrival /\ \A j \in 1 .. Len(inbox) : inbox'[j] = inbox[j]
    BY <1>1, <1>3, <2>1
  <2>5. DOMAIN inbox' = DOMAIN inbox \cup {Len(inbox) + 1}
    BY <1>5, <2>3
  <2> QED
    BY <1>3, <1>5, <1>7, <2>2, <2>4, <2>5
<1> QED
  BY <1>6, <1>7

LEMMA PollKeeps ==
  ASSUME EchoInv, PollRead \/ PollStore \/ Rewind
  PROVE  EchoInv'
<1>1. CASE PollRead
  BY <1>1 DEF PollRead, EchoInv, TypeOK, remoteVars, ticketVars, linkVars, bounds, Pending
<1>2. CASE PollStore
  <2>1. /\ inbox' \in Seq(InboxRow)
        /\ \A j \in DOMAIN inbox' :
              \/ j \in DOMAIN inbox /\ inbox'[j] = inbox[j]
              \/ inbox'[j] = Arrival
        /\ \A j \in DOMAIN inbox : j \in DOMAIN inbox' /\ inbox'[j] = inbox[j]
    <3> HIDE DEF Arrival
    <3> QED
      BY <1>2, ArrivalStored
  <2>2. Arrival.entries \subseteq journal
    BY DEF Arrival, JournalSince
  <2>3. watermark' \in Instants
    BY <1>2 DEF PollStore, NewWatermark, EchoInv, TypeOK
  <2>4. poll' \in [stamp : Instants, value : Nat]
    BY <1>2 DEF PollStore, NoPoll, None, Instants
  <2>5. UNCHANGED <<now, remoteVars, ticketVars, linkVars, pass, push, bounds, quiet>>
    BY <1>2 DEF PollStore
  <2>6. pass' \subseteq Pending' /\ pass' \subseteq DOMAIN inbox'
    BY <2>1, <2>5 DEF EchoInv, Pending
  <2>7. \A i \in DOMAIN inbox' : inbox'[i].entries \subseteq journal
    BY <2>1, <2>2 DEF EchoInv
  <2> QED
    BY <2>1, <2>3, <2>4, <2>5, <2>6, <2>7
    DEF EchoInv, TypeOK, remoteVars, ticketVars, linkVars, bounds
<1>3. CASE Rewind
  <2>1. watermark' \in Instants /\ disturbances' \in 0 .. MaxDisturbances
    <3>1. disturbances \in 0 .. MaxDisturbances
      BY DEF EchoInv, TypeOK
    <3>2. disturbances < MaxDisturbances /\ disturbances' = disturbances + 1
      BY <1>3 DEF Rewind, Disturbed
    <3>3. disturbances' \in 0 .. MaxDisturbances
      BY <3>1, <3>2, EchoAssumption
    <3>4. watermark' \in Instants
      BY <1>3, EchoAssumption DEF Rewind, Instants
    <3> QED
      BY <3>3, <3>4
  <2>2. UNCHANGED <<now, remoteVars, ticketVars, linkVars, poll, inbox, pass, push, pushes,
                    edits, quiet>>
    BY <1>3 DEF Rewind
  <2> QED
    BY <2>1, <2>2 DEF EchoInv, TypeOK, remoteVars, ticketVars, linkVars, Pending
<1> QED
  BY <1>1, <1>2, <1>3

LEMMA TakenPending ==
  ASSUME EchoInv, pass # {}
  PROVE  /\ Taken \in pass /\ Taken \in DOMAIN inbox /\ inbox[Taken].outcome = "pending"
         /\ \A j \in pass : Taken <= j
<1>1. inbox \in Seq(InboxRow) /\ pass \subseteq DOMAIN inbox /\ pass \subseteq Pending
  BY DEF EchoInv, TypeOK
<1>2. pass \subseteq Nat
  BY <1>1
<1> QED
  BY <1>1, <1>2, TakenIsLeast DEF Pending

LEMMA Counted ==
  ASSUME EchoInv, NEW i \in DOMAIN inbox, NEW w
  PROVE  /\ IsFiniteSet({e \in Fresh(inbox[i].entries) : e.by = w})
         /\ Cardinality({e \in Fresh(inbox[i].entries) : e.by = w}) \in Nat
<1> DEFINE S == {e \in Fresh(inbox[i].entries) : e.by = w}
<1>1. S \subseteq journal /\ IsFiniteSet(journal)
  BY DEF EchoInv, Fresh
<1>2. IsFiniteSet(S)
  BY <1>1, FS_Subset
<1> HIDE DEF S
<1>3. Cardinality(S) \in Nat
  BY <1>2, FS_CardinalityType
<1> QED
  BY <1>2, <1>3 DEF S

(* Taking a row settles it: its outcome changes and it leaves the pass.      *)
LEMMA PassSettles ==
  ASSUME EchoInv, Drop \/ Apply
  PROVE  /\ pass # {} /\ inbox' \in Seq(InboxRow) /\ DOMAIN inbox' = DOMAIN inbox
         /\ pass' = pass \ {Taken} /\ Pending' = Pending \ {Taken}
         /\ \A j \in DOMAIN inbox :
               /\ inbox'[j].version = inbox[j].version /\ inbox'[j].value = inbox[j].value
               /\ inbox'[j].entries = inbox[j].entries
               /\ j # Taken => inbox'[j].outcome = inbox[j].outcome
               /\ j = Taken => inbox'[j].outcome # "pending"
<1>1. /\ pass # {} /\ pass' = pass \ {Taken}
      /\ \E o \in {"applied", "dropped_reflection"} : Outcome(Taken, o)
  BY DEF Drop, Apply
<1>2. PICK o \in {"applied", "dropped_reflection"} : Outcome(Taken, o)
  BY <1>1
<1>3. Taken \in DOMAIN inbox /\ inbox \in Seq(InboxRow)
  BY <1>1, TakenPending DEF EchoInv, TypeOK
<1>4. /\ inbox' \in Seq(InboxRow) /\ DOMAIN inbox' = DOMAIN inbox
      /\ \A j \in DOMAIN inbox :
            /\ inbox'[j].version = inbox[j].version /\ inbox'[j].value = inbox[j].value
            /\ inbox'[j].entries = inbox[j].entries
            /\ inbox'[j].outcome = IF j = Taken THEN o ELSE inbox[j].outcome
  BY <1>2, <1>3, OutcomeSettles
<1>5. Pending' = Pending \ {Taken}
  BY <1>3, <1>4 DEF Pending
<1> QED
  BY <1>1, <1>3, <1>4, <1>5

LEMMA PassKeeps ==
  ASSUME EchoInv, StartPass \/ Drop \/ Apply
  PROVE  EchoInv'
<1>1. CASE StartPass
  <2>1. pass' \subseteq Pending /\ Pending' = Pending /\ Pending \subseteq DOMAIN inbox
    BY <1>1 DEF StartPass, Oldest, Pending
  <2>2. UNCHANGED <<now, remoteVars, ticketVars, linkVars, watermark, poll, inbox, push, bounds,
                    quiet>>
    BY <1>1 DEF StartPass
  <2> QED
    BY <2>1, <2>2 DEF EchoInv, TypeOK, remoteVars, ticketVars, linkVars, bounds
<1>2. ASSUME Drop \/ Apply
      PROVE  /\ pass # {} /\ inbox' \in Seq(InboxRow) /\ pass' \subseteq DOMAIN inbox'
             /\ pass' \subseteq Pending'
             /\ \A j \in DOMAIN inbox' : inbox'[j].entries \subseteq journal
  BY <1>2, PassSettles DEF EchoInv, TypeOK
<1>3. CASE Drop
  <2>1. UNCHANGED <<now, remoteVars, ticketVars, linkVars, watermark, poll, push, bounds, quiet>>
    BY <1>3 DEF Drop
  <2> QED
    BY <1>2, <1>3, <2>1 DEF EchoInv, TypeOK, remoteVars, ticketVars, linkVars, bounds
<1>4. CASE Apply
  <2> DEFINE Imported(w) == Cardinality({e \in Fresh(inbox[Taken].entries) : e.by = w})
  <2>1. Taken \in DOMAIN inbox
    BY <1>2, <1>4, TakenPending
  <2>2. \A w : Imported(w) \in Nat
    <3> TAKE w
    <3> QED
      BY <2>1, Counted
  <2>3. /\ shown' = [c \in Comments |-> shown[c] + Imported(c)]
        /\ echoes' = echoes + Imported("xms")
    BY <1>4 DEF Apply
  <2> HIDE DEF Imported
  <2>4. shown' \in [Comments -> Nat] /\ echoes' \in Nat
    BY <2>2, <2>3, SMTT(30) DEF EchoInv, TypeOK
  <2>5. value' \in Nat
    BY <1>4, <2>1, RowFields DEF Apply, EchoInv, TypeOK
  <2>6. links' \subseteq journal /\ links \subseteq links'
    BY <1>4, <2>1 DEF Apply, Fresh, EchoInv
  <2>7. UNCHANGED <<now, remoteVars, sent, guard, watermark, poll, push, bounds, quiet>>
    BY <1>4 DEF Apply
  <2> QED
    BY <1>2, <1>4, <2>4, <2>5, <2>6, <2>7 DEF EchoInv, TypeOK, remoteVars, bounds
<1> QED
  BY <1>1, <1>3, <1>4

(* A failed application and a replay change one row's outcome and attempts.  *)
LEMMA AttemptMade ==
  ASSUME EchoInv,
         \/ \E terminal \in BOOLEAN : ApplyFails(terminal)
         \/ \E i \in DOMAIN inbox : ReplayInbox(i)
  PROVE  /\ inbox' \in Seq(InboxRow) /\ DOMAIN inbox' = DOMAIN inbox
         /\ pass' \subseteq pass /\ pass' \subseteq Pending'
         /\ \A j \in DOMAIN inbox :
               /\ inbox'[j].version = inbox[j].version /\ inbox'[j].value = inbox[j].value
               /\ inbox'[j].entries = inbox[j].entries
               /\ inbox'[j].outcome = inbox[j].outcome
                    \/ {inbox[j].outcome, inbox'[j].outcome} \subseteq {"pending", "failed"}
<1>0. inbox \in Seq(InboxRow) /\ pass \subseteq Pending
  BY DEF EchoInv, TypeOK
<1>1. ASSUME NEW terminal \in BOOLEAN, ApplyFails(terminal)
      PROVE  \E i \in DOMAIN inbox, n \in Nat, o \in {"pending", "failed"} :
                /\ Attempted(i, n, o) /\ inbox[i].outcome = "pending" /\ pass' = pass \ {i}
  <2> DEFINE n == inbox[Taken].attempts + 1
             o == IF terminal \/ n >= MaxInboxAttempts THEN "failed" ELSE "pending"
  <2>1. pass # {} /\ pass' = pass \ {Taken}
    BY <1>1 DEF ApplyFails
  <2>2. Taken \in DOMAIN inbox /\ inbox[Taken].outcome = "pending"
    BY <2>1, TakenPending
  <2>3. n \in Nat
    BY <1>0, <2>2, RowFields
  <2>4. inbox' = [inbox EXCEPT ![Taken].attempts = n,
                               ![Taken].outcome = IF terminal \/ n >= MaxInboxAttempts
                                                  THEN "failed" ELSE @]
    BY <1>1 DEF ApplyFails
  <2>5. inbox \in [DOMAIN inbox -> InboxRow] /\ inbox[Taken] \in InboxRow
    BY <1>0, <2>2
  <2> HIDE DEF n
  <2>6. Attempted(Taken, n, o)
    BY <2>2, <2>4, <2>5 DEF InboxRow, Attempted
  <2> QED
    BY <2>1, <2>2, <2>3, <2>6
<1>2. ASSUME NEW i \in DOMAIN inbox, ReplayInbox(i)
      PROVE  /\ Attempted(i, 0, "pending")
             /\ inbox[i].outcome = "failed" /\ pass' = pass
  <2>1. inbox \in [DOMAIN inbox -> InboxRow] /\ inbox[i] \in InboxRow
    BY <1>0
  <2>2. inbox' = [inbox EXCEPT ![i].outcome = "pending", ![i].attempts = 0]
    BY <1>2 DEF ReplayInbox
  <2>3. Attempted(i, 0, "pending")
    BY <2>1, <2>2 DEF InboxRow, Attempted
  <2> QED
    BY <1>2, <2>3 DEF ReplayInbox
<1>3. PICK i \in DOMAIN inbox, n \in Nat, o \in {"pending", "failed"} :
         /\ Attempted(i, n, o)
         /\ \/ inbox[i].outcome = "pending" /\ pass' = pass \ {i}
            \/ inbox[i].outcome = "failed" /\ pass' = pass
  BY <1>1, <1>2
<1>4. /\ inbox' \in Seq(InboxRow) /\ DOMAIN inbox' = DOMAIN inbox
      /\ \A j \in DOMAIN inbox :
            /\ inbox'[j].version = inbox[j].version /\ inbox'[j].value = inbox[j].value
            /\ inbox'[j].entries = inbox[j].entries
            /\ inbox'[j].outcome = IF j = i THEN o ELSE inbox[j].outcome
  BY <1>0, <1>3, AttemptSettles
<1>5. pass' \subseteq Pending'
  BY <1>0, <1>3, <1>4 DEF Pending
<1> QED
  BY <1>3, <1>4, <1>5

LEMMA RetryKeeps ==
  ASSUME EchoInv,
         \/ \E terminal \in BOOLEAN : ApplyFails(terminal)
         \/ \E i \in DOMAIN inbox : ReplayInbox(i)
  PROVE  EchoInv'
<1>1. /\ Disturbed
      /\ UNCHANGED <<now, remoteVars, ticketVars, linkVars, watermark, poll, push, pushes, edits,
                     quiet>>
  BY DEF ApplyFails, ReplayInbox
<1>2. disturbances' \in 0 .. MaxDisturbances
  BY <1>1, SMTT(30) DEF Disturbed, EchoInv, TypeOK
<1>3. /\ inbox' \in Seq(InboxRow) /\ pass' \subseteq DOMAIN inbox' /\ pass' \subseteq Pending'
      /\ \A j \in DOMAIN inbox' : inbox'[j].entries \subseteq journal
  BY AttemptMade DEF EchoInv, TypeOK
<1> QED
  BY <1>1, <1>2, <1>3 DEF EchoInv, TypeOK, remoteVars, ticketVars, linkVars

LEMMA EchoStep == EchoInv /\ [Next]_vars => EchoInv'
<1> SUFFICES ASSUME EchoInv, [Next]_vars PROVE EchoInv'
  OBVIOUS
<1>1. CASE Tick
  <2>1. now' \in 1 .. MaxNow
    BY <1>1, SMTT(30) DEF Tick, EchoInv, TypeOK
  <2> QED
    BY <1>1, <2>1
    DEF Tick, EchoInv, TypeOK, remoteVars, ticketVars, linkVars, inboundVars, bounds, Pending
<1>2. CASE UNCHANGED vars
  BY <1>2 DEF vars, EchoInv, TypeOK, Pending
<1> QED
  BY <1>1, <1>2, ClientKeeps, PushKeeps, PollKeeps, PassKeeps, RetryKeeps DEF Next

LEMMA SpecEchoInv == Spec => []EchoInv
<1> QED
  BY EchoInit, EchoStep, PTL DEF Spec

(* Every variable keeps its type: each stamp lies on the clock, an entry     *)
(* linked as ours has a link, and a pass holds rows of the inbox             *)
(* (applyPending, pollOne and echoGuard of sync.worker.ts).                  *)
THEOREM EchoTypeCorrect == Spec => []TypeOK
<1>1. EchoInv => TypeOK
  BY DEF EchoInv
<1> QED
  BY <1>1, SpecEchoInv, PTL

-----------------------------------------------------------------------------
(* OnceInv.                                                                  *)

LEMMA AtMostOne ==
  ASSUME NEW S, \A e, f \in S : e = f
  PROVE  /\ Cardinality(S) \in 0 .. 1
         /\ Cardinality(S) = 0 => S = {}
         /\ S = {} => Cardinality(S) = 0
<1>1. CASE S = {}
  BY <1>1, FS_EmptySet
<1>2. CASE S # {}
  <2>1. PICK x \in S : S = {x}
    BY <1>2
  <2>2. Cardinality({x}) = 1
    BY FS_Singleton
  <2> QED
    BY <2>1, <2>2
<1> QED
  BY <1>1, <1>2

(* One application imports a comment that has no link, once, and none of ours. *)
LEMMA ApplyOnce ==
  ASSUME EchoInv, OnceInv, Apply
  PROVE  OnceInv'
<1> DEFINE Imports(w) == {e \in Fresh(inbox[Taken].entries) : e.by = w}
           Imported(w) == Cardinality(Imports(w))
<1>1. Taken \in DOMAIN inbox /\ inbox[Taken].entries \subseteq journal
  BY TakenPending DEF Apply, EchoInv
<1>2. /\ shown' = [c \in Comments |-> shown[c] + Imported(c)]
      /\ echoes' = echoes + Imported("xms")
      /\ journal' = journal /\ links' = links \cup Fresh(inbox[Taken].entries)
  BY DEF Apply, remoteVars
<1>3. Imports("xms") = {}
  BY DEF Fresh, hasJournalMarker
<1>4. echoes' = 0
  BY <1>2, <1>3, AtMostOne DEF OnceInv
<1>5. ASSUME NEW c \in Comments
      PROVE  shown'[c] <= 1 /\ (shown'[c] > 0 => \E e \in links' : e.by = c)
  <2>1. \A e, f \in Imports(c) : e = f
    BY <1>1 DEF Fresh, OnceInv
  <2>2. Imports(c) \subseteq links' /\ Imports(c) \cap links = {} /\ Imports(c) \subseteq journal
    BY <1>1, <1>2 DEF Fresh
  <2>3. \A e \in Imports(c) : e.by = c
    OBVIOUS
  <2>4. shown'[c] = shown[c] + Imported(c) /\ shown[c] \in Nat
    BY <1>2 DEF EchoInv, TypeOK
  <2> DEFINE S == Imports(c)
  <2> HIDE DEF Imports, S
  <2>5. /\ Cardinality(Imports(c)) \in 0 .. 1
        /\ Cardinality(Imports(c)) = 0 => Imports(c) = {}
        /\ Imports(c) = {} => Cardinality(Imports(c)) = 0
    BY <2>1, AtMostOne
  <2>6. CASE \E l \in links : l.by = c
    <3>1. PICK l \in links : l.by = c
      BY <2>6
    <3>2. l \in journal /\ l \in links'
      BY <1>2, <3>1 DEF EchoInv
    <3>3. Imports(c) = {}
      BY <2>2, <2>3, <3>1, <3>2 DEF OnceInv
    <3> QED
      BY <2>4, <2>5, <3>1, <3>2, <3>3 DEF OnceInv
  <2>7. CASE ~ \E l \in links : l.by = c
    <3>1. shown[c] = 0
      BY <2>4, <2>7 DEF OnceInv
    <3> QED
      BY <2>2, <2>3, <2>4, <2>5, <3>1
  <2> QED
    BY <2>6, <2>7
<1> QED
  BY <1>2, <1>4, <1>5 DEF OnceInv

LEMMA OnceInit == Init => OnceInv
  BY DEF Init, OnceInv

LEMMA OnceStep == EchoInv /\ OnceInv /\ [Next]_vars => OnceInv'
<1> SUFFICES ASSUME EchoInv, OnceInv, [Next]_vars PROVE OnceInv'
  OBVIOUS
<1>1. ASSUME NEW c \in Comments, ClientComments(c) PROVE OnceInv'
  BY <1>1 DEF ClientComments, Made, OnceInv, ticketVars, linkVars
<1>2. CASE PushWrite
  <2>1. /\ journal' = journal \cup {[by |-> "xms", at |-> now]}
        /\ UNCHANGED <<shown, echoes, links>>
    BY <1>2 DEF PushWrite, ticketVars, linkVars
  <2>2. "xms" \notin Comments
    OBVIOUS
  <2> QED
    BY <2>1, <2>2 DEF OnceInv
<1>3. CASE PushCommit
  <2>1. /\ links \subseteq links' /\ UNCHANGED <<shown, echoes, journal>>
    BY <1>3 DEF PushCommit, ticketVars, remoteVars
  <2> QED
    BY <2>1 DEF OnceInv
<1>4. CASE UNCHANGED <<shown, echoes, links, journal>>
  BY <1>4 DEF OnceInv
<1>5. ASSUME ClientEdits \/ PushReadBack \/ PushLost \/ PollRead \/ PollStore \/ Rewind
             \/ StartPass \/ Drop \/ Tick \/ UNCHANGED vars
      PROVE  UNCHANGED <<shown, echoes, links, journal>>
  BY <1>5 DEF ClientEdits, PushReadBack, PushLost, PollRead, PollStore, Rewind, StartPass, Drop,
              Tick, vars, remoteVars, ticketVars, linkVars
<1>6. ASSUME \/ \E terminal \in BOOLEAN : ApplyFails(terminal)
             \/ \E i \in DOMAIN inbox : ReplayInbox(i)
      PROVE  UNCHANGED <<shown, echoes, links, journal>>
  BY <1>6 DEF ApplyFails, ReplayInbox, remoteVars, ticketVars, linkVars
<1> QED
  BY <1>1, <1>2, <1>3, <1>4, <1>5, <1>6, ApplyOnce DEF Next

(* hasJournalMarker, journalLinkExists and the echo guard of applyRecord     *)
(* keep the ticket's comments right: what XMS wrote never returns as a       *)
(* comment, whatever commit was lost or watermark rewound, and a comment of  *)
(* the client's appears once however often it is polled or replayed.         *)
THEOREM CommentsOnce == Spec => []CommentsAppearOnce
<1>1. OnceInv => CommentsAppearOnce
  BY DEF OnceInv, CommentsAppearOnce, OursNeverReturn, ClientCommentOnce
<1> QED
  BY <1>1, OnceInit, OnceStep, SpecEchoInv, PTL DEF Spec

-----------------------------------------------------------------------------
(* QuietInv.                                                                 *)

LEMMA Numbers ==
  ASSUME EchoInv
  PROVE  /\ now \in 1 .. MaxNow /\ now \in Int /\ MaxNow \in Nat /\ Tolerance \in Nat
         /\ case.stamp \in Int /\ case.stamp >= -1 /\ case.value \in Nat
         /\ poll.stamp \in Int /\ poll.stamp >= -1 /\ poll.value \in Nat
         /\ watermark \in Int /\ watermark >= -1 /\ guard.at \in Int /\ value \in Nat
         /\ inbox \in Seq(InboxRow) /\ Len(inbox) \in Nat /\ DOMAIN inbox = 1 .. Len(inbox)
         /\ \A i \in DOMAIN inbox : inbox[i].version \in Int /\ inbox[i].value \in Nat
         /\ \A e \in journal : e.at \in Int
<1>1. inbox \in Seq(InboxRow) /\ Len(inbox) \in Nat /\ DOMAIN inbox = 1 .. Len(inbox)
  BY DEF EchoInv, TypeOK
<1>2. \A i \in DOMAIN inbox : inbox[i].version \in Int /\ inbox[i].value \in Nat
  BY <1>1, RowFields DEF Instants
<1>3. \A e \in journal : e.at \in Int
  BY DEF EchoInv, TypeOK, Entry, Instants
<1>4. /\ case \in [stamp : Instants, value : Nat] /\ poll \in [stamp : Instants, value : Nat]
      /\ watermark \in Instants /\ guard \in [at : Instants, hash : Nat \cup {None}]
      /\ now \in 1 .. MaxNow /\ value \in Nat
  BY DEF EchoInv, TypeOK
<1>5. MaxNow \in Nat /\ Tolerance \in Nat /\ Instants = -1 .. MaxNow
  BY DEF Instants
<1> QED
  BY <1>1, <1>2, <1>3, <1>4, <1>5

(* What a comment of the client's is promised.                               *)
Promise(c) ==
  \E e \in journal :
     /\ e.by = c
     /\ shown[c] = 0 => (push = NoPush /\ e \notin links /\ Late(e.at) /\ OnItsWay(e))

LEMMA ClientQuiet ==
  ASSUME EchoInv, QuietInv, ClientEdits \/ \E c \in Comments : ClientComments(c)
  PROVE  QuietInv'
<1>1. ClientEdits \/ (\E c \in Comments : ClientComments(c))
      => case'.stamp = now /\ UNCHANGED <<now, watermark, poll, inbox, shown, links, guard, push>>
  BY DEF ClientEdits, ClientComments, ticketVars, linkVars, inboundVars, EchoInv, TypeOK
<1>2. StampsPast'
  BY <1>1, Numbers, SMTT(30) DEF StampsPast, QuietInv
<1>3. journal \subseteq journal'
  BY DEF ClientEdits, ClientComments
<1>4. ASSUME NEW c \in Comments, c \in quiet PROVE Promise(c)'
  BY <1>1, <1>3, <1>4 DEF QuietInv, Promise, Late, OnItsWay, CarriedBy
<1>5. ASSUME NEW c \in Comments, c \in quiet', c \notin quiet PROVE Promise(c)'
  <2>1. ClientComments(c) /\ ~NearPush /\ ~SecondOfAPoll
    <3>1. c # "edit"
      OBVIOUS
    <3> QED
      BY <1>5, <3>1 DEF ClientEdits, ClientComments, Quiet
  <2> DEFINE e == [by |-> c, at |-> now]
  <2>2. e \in journal' /\ e.by = c /\ e.at = now
    BY <2>1 DEF ClientComments
  <2>3. push = NoPush /\ Late(now)
    BY <2>1, Numbers, SMTT(30) DEF NearPush, Late
  <2>4. now > watermark /\ \A i \in DOMAIN inbox : inbox[i].version < now
    BY <2>1, Numbers, SMTT(30) DEF SecondOfAPoll, Stored, QuietInv, StampsPast
  <2>5. e \notin links
    BY <2>1 DEF ClientComments, Made, EchoInv
  <2> HIDE DEF e
  <2> QED
    BY <1>1, <2>2, <2>3, <2>4, <2>5 DEF Promise, Late, OnItsWay
<1> QED
  BY <1>2, <1>4, <1>5 DEF QuietInv, Promise

LEMMA PushQuiet ==
  ASSUME EchoInv, QuietInv, PushWrite \/ PushReadBack \/ PushCommit \/ PushLost
  PROVE  QuietInv'
<1>1. /\ UNCHANGED <<now, watermark, poll, inbox, shown>>
      /\ case'.stamp \in {case.stamp, now}
      /\ journal \subseteq journal' /\ quiet' \subseteq quiet
  BY DEF PushWrite, PushReadBack, PushCommit, PushLost, ticketVars, inboundVars, remoteVars,
         EchoInv, TypeOK
<1>2. StampsPast'
  BY <1>1, Numbers, SMTT(30) DEF StampsPast, QuietInv
<1>3. ASSUME NEW c \in Comments, c \in quiet' PROVE shown[c] # 0
  <2>1. c # "edit" /\ shown[c] \in Nat
    BY DEF EchoInv, TypeOK
  <2>2. CASE PushWrite \/ PushCommit
    BY <1>3, <2>1, <2>2 DEF PushWrite, PushCommit, Shown
  <2>3. CASE PushReadBack \/ PushLost
    BY <1>1, <1>3, <2>3 DEF PushReadBack, PushLost, QuietInv
  <2> QED
    BY <2>2, <2>3
<1> QED
  BY <1>1, <1>2, <1>3 DEF QuietInv

LEMMA PollQuiet ==
  ASSUME EchoInv, QuietInv, PollRead \/ PollStore \/ Rewind
  PROVE  QuietInv'
<1>1. UNCHANGED <<now, case, journal, shown, links, guard, push, quiet>>
  BY DEF PollRead, PollStore, Rewind, remoteVars, ticketVars, linkVars
<1>2. CASE PollRead
  <2>1. poll' = case /\ UNCHANGED <<watermark, inbox>>
    BY <1>2 DEF PollRead
  <2> QED
    BY <1>1, <2>1 DEF QuietInv, StampsPast, Late, OnItsWay, CarriedBy
<1>3. CASE Rewind
  <2>1. watermark' = 0 /\ watermark > 0 /\ UNCHANGED <<poll, inbox>>
    BY <1>3 DEF Rewind
  <2>2. StampsPast'
    BY <1>1, <2>1, Numbers DEF QuietInv, StampsPast
  <2>3. \A e \in journal : OnItsWay(e) => OnItsWay(e)'
    BY <1>1, <2>1, Numbers DEF OnItsWay, CarriedBy
  <2> QED
    BY <1>1, <2>2, <2>3 DEF QuietInv, Late
<1>4. CASE PollStore
  <2>1. watermark' = poll.stamp /\ poll' = NoPoll
    BY <1>4 DEF PollStore, NewWatermark
  <2>2. /\ \A j \in DOMAIN inbox : j \in DOMAIN inbox' /\ inbox'[j] = inbox[j]
        /\ \A j \in DOMAIN inbox' : j \in DOMAIN inbox \/ inbox'[j] = Arrival
        /\ ~Stored(poll.stamp) => \E j \in DOMAIN inbox' : inbox'[j] = Arrival
    <3> HIDE DEF Arrival
    <3> QED
      BY <1>4, ArrivalStored
  <2>3. /\ Arrival.version = poll.stamp /\ Arrival.outcome = "pending"
        /\ Arrival.entries = {e \in journal : e.at > watermark}
    BY DEF Arrival, JournalSince
  <2>4. StampsPast'
    BY <1>1, <2>1, <2>2, <2>3, Numbers, SMTT(30) DEF QuietInv, StampsPast, NoPoll, None
  <2>5. ASSUME NEW e \in journal, OnItsWay(e) PROVE OnItsWay(e)'
    <3>1. CASE \E i \in DOMAIN inbox : CarriedBy(i, e)
      BY <2>2, <3>1 DEF OnItsWay, CarriedBy
    <3>2. CASE e.at > watermark /\ \A i \in DOMAIN inbox : inbox[i].version < e.at
      <4>1. CASE e.at <= poll.stamp
        <5>1. ~Stored(poll.stamp)
          BY <3>2, <4>1, Numbers, SMTT(30) DEF Stored
        <5>2. PICK j \in DOMAIN inbox' : inbox'[j] = Arrival
          BY <2>2, <5>1
        <5>3. CarriedBy(j, e)'
          BY <2>3, <3>2, <4>1, <5>2 DEF CarriedBy
        <5> QED
          BY <5>3 DEF OnItsWay
      <4>2. CASE e.at > poll.stamp
        BY <2>1, <2>2, <2>3, <3>2, <4>2 DEF OnItsWay
      <4> QED
        BY <4>1, <4>2, Numbers, SMTT(30)
    <3> QED
      BY <2>5, <3>1, <3>2 DEF OnItsWay
  <2> QED
    BY <1>1, <2>4, <2>5 DEF QuietInv, Late
<1> QED
  BY <1>2, <1>3, <1>4

LEMMA DropQuiet ==
  ASSUME EchoInv, QuietInv, Drop
  PROVE  QuietInv'
<1>1. UNCHANGED <<now, case, journal, shown, links, guard, push, quiet, watermark, poll>>
  BY DEF Drop, remoteVars, ticketVars, linkVars
<1>2. /\ DOMAIN inbox' = DOMAIN inbox
      /\ \A j \in DOMAIN inbox :
            /\ inbox'[j].version = inbox[j].version /\ inbox'[j].entries = inbox[j].entries
            /\ j # Taken => inbox'[j].outcome = inbox[j].outcome
  BY PassSettles
<1>3. StampsPast'
  BY <1>1, <1>2 DEF QuietInv, StampsPast
<1>4. guard.at # None /\ inbox[Taken].version <= guard.at + Tolerance /\ Taken \in DOMAIN inbox
  BY TakenPending DEF Drop, isReflection
<1>5. ASSUME NEW e \in journal, Late(e.at), OnItsWay(e) PROVE OnItsWay(e)'
  <2>1. ~CarriedBy(Taken, e)
    <3>1. /\ e.at \in Int /\ inbox[Taken].version \in Int /\ guard.at \in Int /\ Tolerance \in Nat
      BY <1>4, Numbers
    <3>2. e.at > guard.at + Tolerance
      BY <1>4, <1>5 DEF Late
    <3>3. ~ (e.at <= inbox[Taken].version)
      BY <1>4, <3>1, <3>2
    <3> QED
      BY <3>3 DEF CarriedBy
  <2> QED
    BY <1>1, <1>2, <1>5, <2>1 DEF OnItsWay, CarriedBy
<1> QED
  BY <1>1, <1>3, <1>5 DEF QuietInv, Late

LEMMA ApplyQuiet ==
  ASSUME EchoInv, QuietInv, Apply
  PROVE  QuietInv'
<1> DEFINE Imports(w) == {e \in Fresh(inbox[Taken].entries) : e.by = w}
<1>1. UNCHANGED <<now, case, journal, guard, push, quiet, watermark, poll>>
  BY DEF Apply, remoteVars
<1>2. /\ Taken \in DOMAIN inbox /\ DOMAIN inbox' = DOMAIN inbox
      /\ \A j \in DOMAIN inbox :
            /\ inbox'[j].version = inbox[j].version /\ inbox'[j].entries = inbox[j].entries
            /\ j # Taken => inbox'[j].outcome = inbox[j].outcome
  BY PassSettles, TakenPending
<1>3. StampsPast'
  BY <1>1, <1>2 DEF QuietInv, StampsPast
<1>4. /\ shown' = [c \in Comments |-> shown[c] + Cardinality(Imports(c))]
      /\ links' = links \cup Fresh(inbox[Taken].entries)
  BY DEF Apply
<1>5. ASSUME NEW c \in Comments, c \in quiet PROVE Promise(c)'
  <2>1. PICK e \in journal :
           /\ e.by = c
           /\ shown[c] = 0 => (push = NoPush /\ e \notin links /\ Late(e.at) /\ OnItsWay(e))
    BY <1>5 DEF QuietInv
  <2>2. IsFiniteSet(Imports(c)) /\ Cardinality(Imports(c)) \in Nat
    BY <1>2, Counted
  <2>3. Cardinality(Imports(c)) = 0 => Imports(c) = {}
    <3> HIDE DEF Imports
    <3> QED
      BY <2>2, FS_EmptySet
  <2>4. shown[c] \in Nat /\ shown'[c] = shown[c] + Cardinality(Imports(c))
    BY <1>4 DEF EchoInv, TypeOK
  <2>5. CASE shown'[c] # 0
    BY <1>1, <2>1, <2>5 DEF Promise
  <2>6. CASE shown'[c] = 0
    <3>1. shown[c] = 0 /\ Imports(c) = {}
      <4> HIDE DEF Imports
      <4> QED
        BY <2>2, <2>3, <2>4, <2>6
    <3>2. e \notin Fresh(inbox[Taken].entries)
      BY <2>1, <3>1
    <3>3. e \notin inbox[Taken].entries /\ e \notin links'
      BY <1>4, <2>1, <3>1, <3>2 DEF Fresh, hasJournalMarker
    <3>4. OnItsWay(e)'
      BY <1>1, <1>2, <2>1, <3>1, <3>3 DEF OnItsWay, CarriedBy
    <3> QED
      BY <1>1, <2>1, <3>1, <3>3, <3>4 DEF Promise, Late
  <2> QED
    BY <2>5, <2>6
<1> QED
  BY <1>1, <1>3, <1>5 DEF QuietInv, Promise

LEMMA RetryQuiet ==
  ASSUME EchoInv, QuietInv,
         \/ \E terminal \in BOOLEAN : ApplyFails(terminal)
         \/ \E i \in DOMAIN inbox : ReplayInbox(i)
  PROVE  QuietInv'
<1>1. UNCHANGED <<now, case, journal, shown, links, guard, push, quiet, watermark, poll>>
  BY DEF ApplyFails, ReplayInbox, remoteVars, ticketVars, linkVars
<1>2. /\ DOMAIN inbox' = DOMAIN inbox
      /\ \A j \in DOMAIN inbox :
            /\ inbox'[j].version = inbox[j].version /\ inbox'[j].entries = inbox[j].entries
            /\ inbox'[j].outcome = inbox[j].outcome
                 \/ {inbox[j].outcome, inbox'[j].outcome} \subseteq {"pending", "failed"}
  BY AttemptMade
<1>3. StampsPast'
  BY <1>1, <1>2 DEF QuietInv, StampsPast
<1>4. \A e \in journal : OnItsWay(e) => OnItsWay(e)'
  BY <1>1, <1>2 DEF OnItsWay, CarriedBy
<1> QED
  BY <1>1, <1>3, <1>4 DEF QuietInv, Late

LEMMA QuietInit == Init => QuietInv
  BY DEF Init, QuietInv, StampsPast, NoPoll, None

LEMMA QuietStep == EchoInv /\ QuietInv /\ [Next]_vars => QuietInv'
<1> SUFFICES ASSUME EchoInv, QuietInv, [Next]_vars PROVE QuietInv'
  OBVIOUS
<1>1. ASSUME StartPass \/ Tick \/ UNCHANGED vars PROVE QuietInv'
  <2>1. /\ UNCHANGED <<case, journal, shown, links, guard, push, quiet, watermark, poll, inbox>>
        /\ now' \in {now, now + 1}
    BY <1>1 DEF StartPass, Tick, vars, remoteVars, ticketVars, linkVars, inboundVars
  <2>2. now <= now'
    BY <2>1, Numbers, SMTT(30)
  <2>3. \A t \in Int : t <= now => t <= now'
    BY <2>1, <2>2, Numbers, SMTT(30)
  <2>4. /\ case.stamp <= now' /\ watermark <= now' /\ poll.stamp <= now'
        /\ \A i \in DOMAIN inbox : inbox[i].version <= now'
    BY <2>3, Numbers DEF QuietInv, StampsPast
  <2>5. StampsPast'
    BY <2>1, <2>4 DEF StampsPast
  <2> QED
    BY <2>1, <2>5 DEF QuietInv, Late, OnItsWay, CarriedBy
<1> QED
  BY <1>1, ClientQuiet, PushQuiet, PollQuiet, DropQuiet, ApplyQuiet, RetryQuiet DEF Next

-----------------------------------------------------------------------------
(* EditInv.                                                                  *)

Awaited == "edit" \in quiet /\ value # case.value

LEMMA ClientOrder ==
  ASSUME EchoInv, QuietInv, InOrder, Awaited => Underway,
         ClientEdits \/ \E c \in Comments : ClientComments(c)
  PROVE  InOrder' /\ (Awaited' => Underway')
<1>1. UNCHANGED <<now, watermark, poll, inbox, pass, value, guard, push>>
  BY DEF ClientEdits, ClientComments, ticketVars, linkVars, inboundVars
<1>2. Pending' = Pending
  BY <1>1 DEF Pending
<1>3. CASE ClientEdits
  <2>1. case'.stamp = now /\ case'.value = case.value + 1
    BY <1>3 DEF ClientEdits
  <2>2. InOrder'
    <3>1. \A n \in Nat : n <= case.value => n <= case.value + 1
      BY Numbers
    <3>2. /\ \A i \in DOMAIN inbox : inbox[i].value <= case.value + 1
          /\ poll.value <= case.value + 1 /\ value <= case.value + 1
      BY <3>1, Numbers DEF InOrder
    <3> QED
      BY <1>1, <1>2, <2>1, <3>2 DEF InOrder
  <2>3. ASSUME Awaited' PROVE Underway'
    <3>1. ~NearPush /\ ~SecondOfAPoll
      BY <1>3, <2>3 DEF Awaited, ClientEdits, Quiet
    <3>2. push = NoPush /\ (guard.at # None => now > guard.at + Tolerance)
      BY <3>1, Numbers, SMTT(30) DEF NearPush
    <3>3. now > watermark /\ now > poll.stamp
      BY <3>1, Numbers, SMTT(30) DEF SecondOfAPoll
    <3>4. /\ \A i \in DOMAIN inbox : inbox[i].value # case.value + 1
          /\ poll.value # case.value + 1
      BY Numbers, SMTT(30) DEF InOrder
    <3> QED
      BY <1>1, <2>1, <3>2, <3>3, <3>4 DEF Underway, Late
  <2> QED
    BY <2>2, <2>3
<1>4. ASSUME NEW c \in Comments, ClientComments(c) PROVE InOrder' /\ (Awaited' => Underway')
  <2>1. case'.stamp = now /\ case'.value = case.value
    BY <1>4 DEF ClientComments, EchoInv, TypeOK
  <2>2. "edit" \in quiet' => "edit" \in quiet
    BY <1>4 DEF ClientComments, Quiet
  <2>3. InOrder'
    BY <1>1, <1>2, <2>1 DEF InOrder
  <2>4. ASSUME Awaited' PROVE Underway'
    <3>1. Underway
      BY <1>1, <2>1, <2>2, <2>4 DEF Awaited
    <3>2. case.stamp <= now
      BY DEF QuietInv, StampsPast
    <3>3. Late(now) /\ (case.stamp > watermark => now > watermark)
          /\ (case.stamp > poll.stamp => now > poll.stamp)
      <4>1. /\ now \in Int /\ case.stamp \in Int /\ watermark \in Int /\ poll.stamp \in Int
            /\ guard.at \in Int /\ Tolerance \in Nat
        BY Numbers
      <4>2. guard.at # None => case.stamp > guard.at + Tolerance
        BY <3>1 DEF Underway, Late
      <4>3. guard.at # None => now > guard.at + Tolerance
        BY <3>2, <4>1, <4>2
      <4> QED
        BY <3>2, <4>1, <4>3 DEF Late
    <3> QED
      BY <1>1, <1>2, <2>1, <3>1, <3>3 DEF Underway, Late
  <2> QED
    BY <2>3, <2>4
<1> QED
  BY <1>3, <1>4

LEMMA PushOrder ==
  ASSUME EchoInv, InOrder, Awaited => Underway, PushWrite \/ PushReadBack \/ PushCommit
  PROVE  InOrder' /\ (Awaited' => Underway')
<1>1. /\ UNCHANGED <<watermark, poll, inbox, pass, value>> /\ case'.value = case.value
      /\ quiet' \subseteq quiet
  BY DEF PushWrite, PushReadBack, PushCommit, ticketVars, inboundVars, remoteVars, EchoInv, TypeOK
<1>2. InOrder'
  BY <1>1 DEF InOrder, Pending
<1>3. ~Awaited'
  <2>1. CASE PushReadBack
    BY <1>1, <2>1 DEF PushReadBack, Awaited, Underway
  <2>2. CASE PushWrite \/ PushCommit
    BY <1>1, <2>2 DEF PushWrite, PushCommit, Awaited, Shown
  <2> QED
    BY <2>1, <2>2
<1> QED
  BY <1>2, <1>3

LEMMA PollOrder ==
  ASSUME EchoInv, QuietInv, InOrder, Awaited => Underway, PollRead \/ PollStore
  PROVE  InOrder' /\ (Awaited' => Underway')
<1>1. UNCHANGED <<now, case, value, guard, push, quiet, pass>>
  BY DEF PollRead, PollStore, remoteVars, ticketVars, linkVars
<1>2. CASE PollRead
  <2>1. poll' = case /\ case.stamp > watermark /\ poll = NoPoll
    BY <1>2 DEF PollRead
  <2>2. UNCHANGED <<watermark, inbox>> /\ Pending' = Pending
    BY <1>2 DEF PollRead, Pending
  <2>3. InOrder'
    BY <1>1, <2>1, <2>2, Numbers, SMTT(30) DEF InOrder
  <2>4. ASSUME Awaited' PROVE Underway'
    <3>1. Underway
      BY <1>1, <2>4 DEF Awaited
    <3>2. case # NoPoll
      BY <2>1, Numbers DEF NoPoll, None
    <3> QED
      BY <1>1, <2>1, <2>2, <3>1, <3>2 DEF Underway, Late
  <2> QED
    BY <2>3, <2>4
<1>3. CASE PollStore
  <2> DEFINE n == Len(inbox) + 1
  <2>1. watermark' = poll.stamp /\ poll' = NoPoll /\ poll # NoPoll
    BY <1>3 DEF PollStore, NewWatermark
  <2>2. watermark < poll.stamp /\ value <= poll.value
    BY <2>1 DEF InOrder
  <2>3. ~Stored(poll.stamp)
    BY <2>2, Numbers, SMTT(30) DEF Stored, InOrder
  <2>4. /\ DOMAIN inbox' = DOMAIN inbox \cup {n} /\ inbox'[n] = Arrival
        /\ \A j \in DOMAIN inbox : inbox'[j] = inbox[j]
    <3> HIDE DEF Arrival
    <3> QED
      BY <1>3, <2>3, ArrivalStored
  <2>5. /\ Arrival.version = poll.stamp /\ Arrival.value = poll.value
        /\ Arrival.outcome = "pending"
    BY DEF Arrival
  <2>6. n \notin DOMAIN inbox /\ \A j \in DOMAIN inbox : j < n /\ j \in Int
    BY Numbers, SMTT(30)
  <2>7. Pending' = Pending \cup {n} /\ n \in Int
    BY <2>4, <2>5, <2>6, Numbers, SMTT(30) DEF Pending
  <2> HIDE DEF n, Arrival
  <2>8. \A i, j \in DOMAIN inbox' : i < j =>
           /\ inbox'[i].version < inbox'[j].version /\ inbox'[i].value <= inbox'[j].value
           /\ inbox'[i].outcome = "pending" => inbox'[j].outcome = "pending"
    <3> SUFFICES ASSUME NEW i \in DOMAIN inbox', NEW j \in DOMAIN inbox', i < j
                 PROVE  /\ inbox'[i].version < inbox'[j].version
                        /\ inbox'[i].value <= inbox'[j].value
                        /\ inbox'[i].outcome = "pending" => inbox'[j].outcome = "pending"
      OBVIOUS
    <3>1. i \in DOMAIN inbox
      BY <2>4, <2>6, <2>7
    <3>2. CASE j = n
      <4>1. inbox[i].version <= watermark /\ inbox[i].value <= poll.value
        BY <2>1, <3>1 DEF InOrder
      <4>2. inbox[i].version < poll.stamp
        <5>1. inbox[i].version \in Int /\ watermark \in Int /\ poll.stamp \in Int
          BY <3>1, Numbers
        <5> QED
          BY <2>2, <4>1, <5>1
      <4> QED
        BY <2>4, <2>5, <3>1, <3>2, <4>1, <4>2
    <3>3. CASE j \in DOMAIN inbox
      BY <2>4, <3>1, <3>3 DEF InOrder
    <3> QED
      BY <2>4, <3>2, <3>3
  <2>9. \A i \in DOMAIN inbox' :
           /\ inbox'[i].version <= watermark' /\ inbox'[i].value <= case.value
           /\ inbox'[i].outcome = "pending" => value <= inbox'[i].value
    <3> TAKE i \in DOMAIN inbox'
    <3>1. CASE i = n
      BY <2>1, <2>2, <2>4, <2>5, <3>1, Numbers, SMTT(30) DEF InOrder
    <3>2. CASE i \in DOMAIN inbox
      <4>1. inbox[i].version <= poll.stamp
        BY <2>2, <3>2, Numbers, SMTT(30) DEF InOrder
      <4> QED
        BY <2>1, <2>4, <3>2, <4>1 DEF InOrder
    <3> QED
      BY <2>4, <3>1, <3>2
  <2>10. \A i \in pass, j \in Pending' : j < i => j \in pass
    <3> SUFFICES ASSUME NEW i \in pass, NEW j \in Pending', j < i PROVE j \in pass
      OBVIOUS
    <3>1. i \in DOMAIN inbox
      BY DEF EchoInv, TypeOK
    <3>2. j # n
      BY <2>6, <2>7, <3>1
    <3> QED
      BY <2>7, <3>2 DEF InOrder
  <2>11. poll'.value = 0 /\ poll'.stamp = -1
    BY <2>1 DEF NoPoll, None
  <2>12. poll'.value <= case.value
    BY <2>11, Numbers, SMTT(30)
  <2>13. InOrder'
    BY <1>1, <2>1, <2>8, <2>9, <2>10, <2>12 DEF InOrder
  <2>14. ASSUME Awaited' PROVE Underway'
    <3>1. Underway
      BY <1>1, <2>14 DEF Awaited
    <3>2. \A i \in DOMAIN inbox' : inbox'[i].value = case.value => Late(inbox'[i].version)
      BY <2>1, <2>4, <2>5, <3>1 DEF Underway
    <3>3. \/ \E i \in Pending' : inbox'[i].value = case.value
          \/ case.stamp > watermark' /\ case.stamp > poll'.stamp
      <4>1. CASE \E i \in Pending : inbox[i].value = case.value
        BY <2>4, <2>7, <4>1 DEF Pending
      <4>2. CASE poll.value = case.value
        BY <2>4, <2>5, <2>7, <4>2
      <4>3. CASE case.stamp > watermark /\ case.stamp > poll.stamp
        BY <2>1, <2>11, <4>3, Numbers, SMTT(30)
      <4> QED
        BY <3>1, <4>1, <4>2, <4>3 DEF Underway
    <3> QED
      BY <1>1, <2>1, <3>1, <3>2, <3>3 DEF Underway, Late
  <2> QED
    BY <2>13, <2>14
<1> QED
  BY <1>2, <1>3

LEMMA StartOrder ==
  ASSUME EchoInv, InOrder, Awaited => Underway, StartPass
  PROVE  InOrder' /\ (Awaited' => Underway')
<1>1. /\ pass' = Oldest(Pending)
      /\ UNCHANGED <<case, value, guard, push, quiet, watermark, poll, inbox>>
  BY DEF StartPass, remoteVars, ticketVars, linkVars
<1>2. Pending' = Pending /\ Pending \subseteq 1 .. Len(inbox) /\ Len(inbox) \in Nat
  BY <1>1, Numbers DEF Pending
<1>3. Pending \subseteq Nat /\ IsFiniteSet(Pending)
  <2>1. IsFiniteSet(1 .. Len(inbox))
    BY <1>2, FS_Interval
  <2>2. IsFiniteSet(Pending)
    BY <1>2, <2>1, FS_Subset
  <2>3. 1 .. Len(inbox) \subseteq Nat
    BY <1>2
  <2> QED
    BY <1>2, <2>2, <2>3
<1>4. \A i \in pass', j \in Pending : j < i => j \in pass'
  BY <1>1, <1>3, OldestIsPrefix
<1> QED
  BY <1>1, <1>2, <1>4 DEF InOrder, Awaited, Underway, Late

(* The row a pass takes is the oldest of all pending rows, and it leaves     *)
(* them and the pass.                                                        *)
LEMMA TakenIsOldest ==
  ASSUME EchoInv, InOrder, Drop \/ Apply
  PROVE  /\ Taken \in DOMAIN inbox /\ inbox[Taken].outcome = "pending"
         /\ \A j \in Pending : Taken <= j
         /\ DOMAIN inbox' = DOMAIN inbox /\ Pending' = Pending \ {Taken}
         /\ pass' = pass \ {Taken}
         /\ \A j \in DOMAIN inbox :
               /\ inbox'[j].version = inbox[j].version /\ inbox'[j].value = inbox[j].value
               /\ inbox'[j].outcome = "pending" <=> j \in Pending \ {Taken}
<1>1. /\ Taken \in pass /\ Taken \in DOMAIN inbox /\ inbox[Taken].outcome = "pending"
      /\ \A j \in pass : Taken <= j
  BY PassSettles, TakenPending
<1>2. ASSUME NEW j \in Pending PROVE Taken <= j
  <2>1. j \in Int /\ Taken \in Int
    BY <1>1, Numbers DEF Pending
  <2>2. j < Taken => j \in pass
    BY <1>1 DEF InOrder
  <2> QED
    BY <1>1, <2>1, <2>2
<1>3. /\ DOMAIN inbox' = DOMAIN inbox /\ Pending' = Pending \ {Taken} /\ pass' = pass \ {Taken}
      /\ \A j \in DOMAIN inbox :
            inbox'[j].version = inbox[j].version /\ inbox'[j].value = inbox[j].value
  BY PassSettles
<1>4. \A j \in DOMAIN inbox : inbox'[j].outcome = "pending" <=> j \in Pending \ {Taken}
  BY <1>3 DEF Pending
<1> QED
  BY <1>1, <1>2, <1>3, <1>4

LEMMA PassOrder ==
  ASSUME EchoInv, InOrder, Awaited => Underway, Drop \/ Apply
  PROVE  InOrder' /\ (Awaited' => Underway')
<1>1. /\ Taken \in DOMAIN inbox /\ inbox[Taken].outcome = "pending"
      /\ \A j \in Pending : Taken <= j
      /\ DOMAIN inbox' = DOMAIN inbox /\ Pending' = Pending \ {Taken}
      /\ pass' = pass \ {Taken}
      /\ \A j \in DOMAIN inbox :
            /\ inbox'[j].version = inbox[j].version /\ inbox'[j].value = inbox[j].value
            /\ inbox'[j].outcome = "pending" <=> j \in Pending \ {Taken}
  BY TakenIsOldest
<1>2. UNCHANGED <<case, guard, push, quiet, watermark, poll>>
  BY DEF Drop, Apply, remoteVars, linkVars
<1>3. value' = value \/ value' = inbox[Taken].value
  BY DEF Drop, Apply, ticketVars
<1>4. \A i, j \in DOMAIN inbox : i < j /\ i \in Pending => j \in Pending
  BY DEF InOrder, Pending
<1>5. \A i, j \in DOMAIN inbox' : i < j =>
         /\ inbox'[i].version < inbox'[j].version /\ inbox'[i].value <= inbox'[j].value
         /\ inbox'[i].outcome = "pending" => inbox'[j].outcome = "pending"
  <2> SUFFICES ASSUME NEW i \in DOMAIN inbox, NEW j \in DOMAIN inbox, i < j
               PROVE  /\ inbox[i].version < inbox[j].version /\ inbox[i].value <= inbox[j].value
                      /\ i \in Pending \ {Taken} => j \in Pending \ {Taken}
    BY <1>1
  <2>1. i \in Pending => Taken <= i /\ j \in Pending
    BY <1>1, <1>4
  <2>2. i \in Int /\ j \in Int /\ Taken \in Int
    BY <1>1, Numbers
  <2> QED
    BY <2>1, <2>2 DEF InOrder
<1>6. ASSUME NEW i \in DOMAIN inbox PROVE inbox'[i].outcome = "pending" => value' <= inbox[i].value
  <2> SUFFICES ASSUME i \in Pending, i # Taken PROVE value' <= inbox[i].value
    BY <1>1
  <2>1. Taken < i
    <3>1. Taken <= i /\ i \in Int /\ Taken \in Int
      BY <1>1, Numbers
    <3> QED
      BY <3>1
  <2>2. inbox[Taken].value <= inbox[i].value
    BY <1>1, <2>1 DEF InOrder
  <2>3. value <= inbox[i].value
    BY DEF InOrder, Pending
  <2> QED
    BY <1>3, <2>2, <2>3
<1>7. value' <= case.value /\ (poll # NoPoll => value' <= poll.value)
  BY <1>1, <1>3 DEF InOrder
<1>8. InOrder'
  <2>1. \A i \in DOMAIN inbox' :
          /\ inbox'[i].version <= watermark' /\ inbox'[i].value <= case'.value
          /\ poll' # NoPoll => inbox'[i].value <= poll'.value
          /\ inbox'[i].outcome = "pending" => value' <= inbox'[i].value
    BY <1>1, <1>2, <1>6 DEF InOrder
  <2>2. poll' # NoPoll => (watermark' < poll'.stamp /\ value' <= poll'.value)
    BY <1>2, <1>7 DEF InOrder
  <2>3. poll'.value <= case'.value /\ value' <= case'.value
    BY <1>2, <1>7 DEF InOrder
  <2>4. \A i \in pass', j \in Pending' : j < i => j \in pass'
    BY <1>1 DEF InOrder
  <2> QED
    BY <1>5, <2>1, <2>2, <2>3, <2>4 DEF InOrder
<1>9. ASSUME Awaited' PROVE Underway'
  <2>1. inbox[Taken].value # case.value \/ Drop
    BY <1>2, <1>9 DEF Apply, Awaited
  <2>2. value # case.value
    <3>1. CASE Drop
      BY <1>2, <1>9, <3>1 DEF Drop, ticketVars, Awaited
    <3>2. CASE inbox[Taken].value # case.value
      <4>1. value <= inbox[Taken].value /\ inbox[Taken].value <= case.value
        BY <1>1 DEF InOrder
      <4>2. value \in Nat /\ inbox[Taken].value \in Nat /\ case.value \in Nat
        BY <1>1, Numbers
      <4> QED
        BY <3>2, <4>1, <4>2
    <3> QED
      BY <2>1, <3>1, <3>2
  <2>3. Underway
    BY <1>2, <1>9, <2>2 DEF Awaited
  <2>4. inbox[Taken].value # case.value
    <3> SUFFICES ASSUME Drop PROVE inbox[Taken].value # case.value
      BY <2>1
    <3>1. guard.at # None /\ inbox[Taken].version <= guard.at + Tolerance
      BY DEF Drop, isReflection
    <3>2. inbox[Taken].version \in Int /\ guard.at \in Int /\ Tolerance \in Nat
      BY <1>1, Numbers
    <3>3. ~Late(inbox[Taken].version)
      BY <3>1, <3>2 DEF Late
    <3> QED
      BY <1>1, <2>3, <3>3 DEF Underway
  <2>5. (\E i \in Pending : inbox[i].value = case.value)
         => \E i \in Pending' : inbox'[i].value = case.value
    BY <1>1, <2>4 DEF Pending
  <2> QED
    BY <1>1, <1>2, <2>3, <2>5 DEF Underway, Late
<1> QED
  BY <1>8, <1>9

LEMMA EditInit == Init => EditInv
<1> SUFFICES ASSUME Init PROVE EditInv
  OBVIOUS
<1>1. DOMAIN inbox = {} /\ pass = {} /\ poll = NoPoll /\ value = 0 /\ case.value = 0 /\ quiet = {}
  BY DEF Init
<1>2. poll.value = 0
  BY <1>1 DEF NoPoll
<1> QED
  BY <1>1, <1>2 DEF EditInv, InOrder

LEMMA EditStep == EchoInv /\ QuietInv /\ EditInv /\ [Next]_vars => EditInv'
<1> SUFFICES ASSUME EchoInv, QuietInv, EditInv, [Next]_vars, disturbances' = 0
             PROVE  InOrder' /\ (Awaited' => Underway')
  BY DEF EditInv, Awaited
<1>1. disturbances \in Nat
  BY DEF EchoInv, TypeOK
<1>2. ~Disturbed
  BY <1>1 DEF Disturbed
<1>3. \/ Tick \/ UNCHANGED vars
      \/ ClientEdits \/ \E c \in Comments : ClientComments(c)
      \/ PushWrite \/ PushReadBack \/ PushCommit
      \/ PollRead \/ PollStore \/ StartPass \/ Drop \/ Apply
  BY <1>2 DEF Next, PushLost, Rewind, ApplyFails, ReplayInbox
<1>4. disturbances = 0
  BY <1>3 DEF Tick, vars, ClientEdits, ClientComments, PushWrite, PushReadBack, PushCommit,
              PollRead, PollStore, StartPass, Drop, Apply, bounds
<1>5. InOrder /\ (Awaited => Underway)
  BY <1>4 DEF EditInv, Awaited
<1>6. CASE Tick \/ UNCHANGED vars
  <2>1. UNCHANGED <<case, value, guard, push, quiet, watermark, poll, inbox, pass>>
    BY <1>6 DEF Tick, vars, remoteVars, ticketVars, linkVars, inboundVars
  <2> QED
    BY <1>5, <2>1 DEF InOrder, Awaited, Underway, Late, Pending
<1> QED
  BY <1>3, <1>5, <1>6, ClientOrder, PushOrder, PollOrder, StartOrder, PassOrder

(* A client change made while no push of ours is near is not lost: the       *)
(* watermark of pollOne, the inbox with its dead letters and isReflection    *)
(* bring a comment to the ticket, and an edit stays what the ticket shows.   *)
THEOREM QuietArrive == Spec => []QuietChangesArrive
<1>1. EchoInv /\ OnceInv /\ QuietInv => QuietCommentsArrive
  <2> SUFFICES ASSUME EchoInv, OnceInv, QuietInv, NEW c \in Comments \cap quiet, DealtWith(c),
                      ~Shown(c)
               PROVE  \E i \in Failed : Carries(i, c)
    BY DEF QuietCommentsArrive
  <2>1. shown[c] = 0
    BY DEF Shown, EchoInv, TypeOK
  <2>2. PICK e \in journal : e.by = c /\ OnItsWay(e)
    BY <2>1 DEF QuietInv
  <2>3. PICK f \in journal : f.by = c /\ f.at <= watermark
    BY DEF DealtWith
  <2>4. e = f
    BY <2>2, <2>3 DEF OnceInv
  <2>5. ~ (e.at > watermark)
    <3>1. e.at \in Int /\ watermark \in Int
      BY Numbers
    <3> QED
      BY <2>3, <2>4, <3>1
  <2>6. PICK i \in DOMAIN inbox : CarriedBy(i, e)
    BY <2>2, <2>5 DEF OnItsWay
  <2>7. inbox[i].outcome # "pending"
    BY DEF DealtWith, Pending
  <2> QED
    BY <2>2, <2>6, <2>7 DEF CarriedBy, Failed, Carries
<1>2. EchoInv /\ EditInv => QuietEditArrives
  <2> SUFFICES ASSUME EchoInv, EditInv, "edit" \in quiet, disturbances = 0, poll = NoPoll,
                      Pending = {}, case.stamp <= watermark, value # case.value
               PROVE  FALSE
    BY DEF QuietEditArrives
  <2>1. case.stamp > watermark
    BY DEF EditInv, Underway
  <2>2. case.stamp \in Int /\ watermark \in Int
    BY Numbers
  <2> QED
    BY <2>1, <2>2
<1>3. EchoInv /\ OnceInv /\ QuietInv /\ EditInv => QuietChangesArrive
  BY <1>1, <1>2 DEF QuietChangesArrive
<1>4. Init => OnceInv /\ QuietInv /\ EditInv
  BY OnceInit, QuietInit, EditInit
<1>5. EchoInv /\ (OnceInv /\ QuietInv /\ EditInv) /\ [Next]_vars
       => (OnceInv /\ QuietInv /\ EditInv)'
  BY OnceStep, QuietStep, EditStep
<1> QED
  BY <1>3, <1>4, <1>5, SpecEchoInv, PTL DEF Spec

-----------------------------------------------------------------------------
(* The field maps of an instance (SyncLink).                               *)

CONSTANTS Requests, Maps, MaxMapEdits, MaxActivations

VARIABLES maps, checked, instance, mapReq, mapEdits, outdated, overrun

Fields == INSTANCE SyncLink WITH
  Policies <- {}, MaxFieldInstant <- 0, MaxTroubles <- 0,
  policy <- 0, clock <- 0, record <- 0, ticket <- 0, closed <- 0, link <- 0, inbox <- 0, pass <- 0,
  applying <- 0, queue <- 0, pushing <- 0, resolving <- 0, troubles <- 0, backwards <- 0, crossed <- 0

MapRow == [state : Fields!States, edit : 0 .. MaxMapEdits]
MapRequest == [at : {"edit", "validate", "activate"}, map : Maps, row : MapRow, version : Nat]

(* A request has read a map that existed and was not in use.               *)
MapRequestFits(r, rows) ==
  r # Fields!Free => r \in MapRequest /\ r.row.state # "active" /\ rows[r.map].state # "none"

MapsShape ==
  /\ maps \in [Maps -> MapRow]
  /\ checked \in [Maps -> -1 .. MaxMapEdits]
  /\ instance \in [map : Maps \cup {Fields!NoMap}, version : Nat]
  /\ DOMAIN mapReq = Requests
  /\ mapReq = [t \in Requests |-> mapReq[t]]
  /\ \A t \in Requests : MapRequestFits(mapReq[t], maps)
  /\ mapEdits \in 0 .. MaxMapEdits /\ outdated \subseteq Maps /\ overrun \subseteq Maps

(* The map in use is the instance's, until a request that had read it      *)
(* earlier writes it.                                                      *)
InUse ==
  /\ \A m \in Maps : maps[m].state = "active" => instance.map = m
  /\ instance.map # Fields!NoMap /\ instance.map \notin overrun => maps[instance.map].state = "active"

(* What has been found good is what the report was about.                  *)
ReportFits ==
  \A m \in Maps :
    maps[m].state \in {"validated", "active", "retired"} /\ m \notin outdated =>
      checked[m] = maps[m].edit

MapsInv == MapsShape /\ InUse /\ ReportFits

(* An instance begins with no map.                                         *)
LEMMA MapsStart ==
  ASSUME Fields!MapsConstants, Fields!MapsInit
  PROVE  MapsInv
<1>1. [state |-> "none", edit |-> 0] \in MapRow
  BY DEF MapRow, Fields!States, Fields!MapsConstants
<1>2. MapsShape
  BY <1>1 DEF MapsShape, MapRequestFits, Fields!MapsInit, Fields!MapsConstants
<1> QED BY <1>2 DEF MapsInv, InUse, ReportFits, Fields!MapsInit

(* createMap: a draft of its own.                                          *)
LEMMA CreateKeeps ==
  ASSUME MapsInv, NEW m \in Maps, Fields!Create(m)
  PROVE  MapsInv'
<1>1. MapsShape /\ maps[m] \in MapRow
  BY DEF MapsInv, MapsShape
<1>2. PICK row : row = [maps[m] EXCEPT !.state = "draft"]
  OBVIOUS
<1>3. row \in MapRow /\ row.state = "draft"
  BY <1>1, <1>2 DEF MapRow, Fields!States
<1>4. maps' = [maps EXCEPT ![m] = row] /\ maps[m].state = "none"
      /\ UNCHANGED <<checked, instance, mapReq, mapEdits, outdated, overrun>>
  BY <1>2 DEF Fields!Create
<1>5. maps' \in [Maps -> MapRow] /\ \A n \in Maps : maps'[n] = IF n = m THEN row ELSE maps[n]
  BY <1>1, <1>3, <1>4 DEF MapsShape
<1>6. \A t \in Requests : MapRequestFits(mapReq[t], maps')
  BY <1>1, <1>3, <1>5 DEF MapsShape, MapRequestFits, MapRequest
<1>7. MapsShape'
  BY <1>1, <1>4, <1>5, <1>6 DEF MapsShape
<1>8. InUse' /\ ReportFits'
  BY <1>1, <1>3, <1>4, <1>5 DEF MapsInv, MapsShape, InUse, ReportFits
<1> QED BY <1>7, <1>8 DEF MapsInv

(* Every handler of connectors.service.ts refuses a map in use as it reads. *)
LEMMA MapReadKeeps ==
  ASSUME MapsInv, NEW t \in Requests, NEW m \in Maps, Fields!Read(t, m)
  PROVE  MapsInv'
<1>1. MapsShape /\ maps[m] \in MapRow /\ instance.version \in Nat
  BY DEF MapsInv, MapsShape
<1>2. PICK at \in {"edit", "validate", "activate"} :
        /\ IF at = "activate" THEN maps[m].state = "validated" ELSE Fields!Editable(maps[m].state)
        /\ mapReq' = [mapReq EXCEPT ![t] = [at |-> at, map |-> m, row |-> maps[m], version |-> instance.version]]
        /\ UNCHANGED <<maps, checked, instance, mapEdits, outdated, overrun>>
  BY DEF Fields!Read
<1>3. PICK r : r = [at |-> at, map |-> m, row |-> maps[m], version |-> instance.version]
  OBVIOUS
<1>4. MapRequestFits(r, maps)
  BY <1>1, <1>2, <1>3 DEF MapRequestFits, MapRequest, Fields!Editable
<1>5. mapReq' = [mapReq EXCEPT ![t] = r]
  BY <1>2, <1>3
<1>6. MapsShape'
  BY <1>1, <1>2, <1>4, <1>5 DEF MapsShape
<1> QED BY <1>2, <1>6 DEF MapsInv, InUse, ReportFits

(* What a request that is over leaves behind.                              *)
LEMMA RequestEnds ==
  ASSUME MapsShape, NEW t \in Requests, Fields!Done(t),
         maps' \in [Maps -> MapRow],
         \A m \in Maps : maps[m].state # "none" => maps'[m].state # "none",
         checked' \in [Maps -> -1 .. MaxMapEdits],
         instance' \in [map : Maps \cup {Fields!NoMap}, version : Nat],
         mapEdits' \in 0 .. MaxMapEdits, outdated' \subseteq Maps, overrun' \subseteq Maps
  PROVE  MapsShape'
<1>1. mapReq' = [mapReq EXCEPT ![t] = Fields!Free]
  BY DEF Fields!Done
<1>2. \A u \in Requests : MapRequestFits(mapReq'[u], maps')
  BY <1>1 DEF MapsShape, MapRequestFits, MapRequest
<1> QED BY <1>1, <1>2 DEF MapsShape

(* A map that a request had read gets a row that is not in use.            *)
LEMMA RowWritten ==
  ASSUME MapsInv, NEW t \in Requests, NEW m \in Maps, m = mapReq[t].map, mapReq[t] # Fields!Free,
         NEW row \in MapRow, row.state \in {"draft", "validated"},
         maps' = [maps EXCEPT ![m] = row], Fields!Overrun(t), Fields!Done(t),
         NEW good \in -1 .. MaxMapEdits, checked' = [checked EXCEPT ![m] = good],
         outdated \subseteq outdated', outdated' \subseteq Maps,
         row.state = "validated" /\ m \notin outdated' => good = row.edit,
         instance' = instance, mapEdits' \in 0 .. MaxMapEdits
  PROVE  MapsInv'
<1>1. MapsShape
  BY DEF MapsInv
<1>2. maps' \in [Maps -> MapRow] /\ checked' \in [Maps -> -1 .. MaxMapEdits]
      /\ \A n \in Maps : /\ maps'[n] = IF n = m THEN row ELSE maps[n]
                         /\ checked'[n] = IF n = m THEN good ELSE checked[n]
  BY <1>1 DEF MapsShape
<1>3. mapReq[t].row.state # "active"
  BY <1>1 DEF MapsShape, MapRequestFits
<1>4. overrun \subseteq overrun' /\ overrun' \subseteq Maps /\ (maps[m].state = "active" => m \in overrun')
  BY <1>1, <1>3 DEF Fields!Overrun, MapsShape
<1>5. MapsShape'
  BY <1>1, <1>2, <1>4, RequestEnds DEF MapsShape
<1>6. InUse'
  BY <1>1, <1>2, <1>4 DEF MapsInv, MapsShape, InUse
<1>7. ReportFits'
  BY <1>2 DEF MapsInv, ReportFits
<1> QED BY <1>5, <1>6, <1>7 DEF MapsInv

(* Only the request ends.                                                  *)
LEMMA MapsStay ==
  ASSUME MapsInv, NEW t \in Requests, Fields!Done(t),
         UNCHANGED <<maps, checked, instance, mapEdits, outdated, overrun>>
  PROVE  MapsInv'
<1>1. MapsShape'
  BY RequestEnds DEF MapsInv, MapsShape
<1> QED BY <1>1 DEF MapsInv, InUse, ReportFits

(* updateMap makes a draft of the map again.                               *)
LEMMA EntriesKeep ==
  ASSUME Fields!MapsConstants, MapsInv, NEW t \in Requests, Fields!WriteEntries(t)
  PROVE  MapsInv'
<1>1. PICK m : m = mapReq[t].map
  OBVIOUS
<1>2. /\ mapReq[t].at = "edit" /\ mapEdits < MaxMapEdits /\ mapEdits' = mapEdits + 1
      /\ Fields!Overrun(t) /\ Fields!Done(t) /\ UNCHANGED <<checked, instance, outdated>>
      /\ maps' = [maps EXCEPT ![m] = [state |-> "draft", edit |-> mapEdits + 1]]
  BY <1>1 DEF Fields!WriteEntries
<1>3. mapReq[t] # Fields!Free /\ m \in Maps /\ checked[m] \in -1 .. MaxMapEdits
  BY <1>1, <1>2 DEF MapsInv, MapsShape, MapRequestFits, MapRequest, Fields!Free
<1>4. mapEdits' \in 0 .. MaxMapEdits
  BY <1>2 DEF MapsInv, MapsShape, Fields!MapsConstants
<1>5. PICK row \in MapRow : row = [state |-> "draft", edit |-> mapEdits + 1]
  BY <1>2, <1>4 DEF MapRow, Fields!States
<1>6. checked' = [checked EXCEPT ![m] = checked[m]] /\ outdated' \subseteq Maps
  BY <1>2, <1>3 DEF MapsInv, MapsShape
<1>7. maps' = [maps EXCEPT ![m] = row] /\ row.state = "draft"
  BY <1>2, <1>5
<1> QED BY <1>1, <1>2, <1>3, <1>4, <1>6, <1>7, RowWritten, ZenonT(60)

(* validateMap saves its report, on the entries it had read.               *)
LEMMA ReportKeeps ==
  ASSUME Fields!MapsConstants, MapsInv, NEW t \in Requests, Fields!WriteReport(t)
  PROVE  MapsInv'
<1>1. PICK m : m = mapReq[t].map
  OBVIOUS
<1>2. mapReq[t].at = "validate" /\ Fields!Done(t) /\ UNCHANGED <<instance, mapEdits>>
  BY DEF Fields!WriteReport
<1>3. /\ mapReq[t] # Fields!Free /\ m \in Maps /\ checked[m] \in -1 .. MaxMapEdits /\ maps[m] \in MapRow
      /\ mapReq[t].row.edit \in -1 .. MaxMapEdits /\ outdated \subseteq Maps /\ mapEdits' \in 0 .. MaxMapEdits
  BY <1>1, <1>2 DEF MapsInv, MapsShape, MapRequestFits, MapRequest, MapRow, Fields!Free, Fields!MapsConstants
<1>4. ASSUME maps' = [maps EXCEPT ![m].state = "validated"],
             checked' = [checked EXCEPT ![m] = mapReq[t].row.edit],
             outdated' = (IF maps[m].edit # mapReq[t].row.edit THEN outdated \cup {m} ELSE outdated),
             Fields!Overrun(t)
      PROVE  MapsInv'
  <2>1. PICK row : row = [maps[m] EXCEPT !.state = "validated"]
    OBVIOUS
  <2>2. row \in MapRow /\ row.state = "validated" /\ row.edit = maps[m].edit
    BY <1>3, <2>1 DEF MapRow, Fields!States
  <2>3. maps' = [maps EXCEPT ![m] = row]
    BY <1>4, <2>1
  <2>4. outdated \subseteq outdated' /\ outdated' \subseteq Maps
        /\ (m \notin outdated' => mapReq[t].row.edit = row.edit)
    BY <1>3, <1>4, <2>2
  <2> QED BY <1>1, <1>2, <1>3, <1>4, <2>2, <2>3, <2>4, RowWritten
<1>5. ASSUME maps' = [maps EXCEPT ![m].state = "draft"], Fields!Overrun(t), UNCHANGED <<checked, outdated>>
      PROVE  MapsInv'
  <2>1. PICK row : row = [maps[m] EXCEPT !.state = "draft"]
    OBVIOUS
  <2>2. row \in MapRow /\ row.state = "draft"
    BY <1>3, <2>1 DEF MapRow, Fields!States
  <2>3. maps' = [maps EXCEPT ![m] = row]
    BY <1>5, <2>1
  <2>4. checked' = [checked EXCEPT ![m] = checked[m]]
    BY <1>3, <1>5 DEF MapsInv, MapsShape
  <2> QED BY <1>1, <1>2, <1>3, <1>5, <2>2, <2>3, <2>4, RowWritten, ZenonT(60)
<1>6. ASSUME UNCHANGED <<maps, checked, outdated, overrun>> PROVE MapsInv'
  BY <1>2, <1>6, MapsStay
<1> QED BY <1>1, <1>4, <1>5, <1>6 DEF Fields!WriteReport

(* activateMap retires whatever is active and points the instance at its   *)
(* own map, so both change together.                                       *)
LEMMA ActivateKeeps ==
  ASSUME MapsInv, NEW t \in Requests, Fields!Activate(t)
  PROVE  MapsInv'
<1>1. PICK m : m = mapReq[t].map
  OBVIOUS
<1>2. /\ mapReq[t].at = "activate" /\ Fields!Done(t) /\ UNCHANGED <<checked, mapEdits, overrun>>
      /\ instance' = [map |-> m, version |-> instance.version + 1]
      /\ outdated' = (IF maps[m].state = "draft" \/ maps[m].edit # mapReq[t].row.edit
                      THEN outdated \cup {m} ELSE outdated)
      /\ maps' = [n \in Maps |-> IF n = m THEN [maps[n] EXCEPT !.state = "active"]
                                 ELSE IF maps[n].state = "active"
                                 THEN [maps[n] EXCEPT !.state = "retired"] ELSE maps[n]]
  BY <1>1 DEF Fields!Activate
<1>3. MapsShape /\ m \in Maps /\ maps[m].state # "none" /\ instance.version \in Nat
      /\ outdated \subseteq Maps
  BY <1>1, <1>2 DEF MapsInv, MapsShape, MapRequestFits, MapRequest, Fields!Free
<1>4. ASSUME NEW n \in Maps
      PROVE  /\ maps'[n] \in MapRow /\ maps'[n].edit = maps[n].edit
             /\ maps'[n].state = IF n = m THEN "active"
                                 ELSE IF maps[n].state = "active" THEN "retired" ELSE maps[n].state
  <2>1. maps[n] \in MapRow
    BY <1>3 DEF MapsShape
  <2>2. maps'[n] = IF n = m THEN [maps[n] EXCEPT !.state = "active"]
                   ELSE IF maps[n].state = "active"
                   THEN [maps[n] EXCEPT !.state = "retired"] ELSE maps[n]
    BY <1>2
  <2> QED BY <2>1, <2>2 DEF MapRow, Fields!States
<1>5. maps' \in [Maps -> MapRow]
  BY <1>2, <1>4
<1>6. instance'.map = m /\ instance' \in [map : Maps \cup {Fields!NoMap}, version : Nat]
  BY <1>2, <1>3
<1>7. outdated \subseteq outdated' /\ outdated' \subseteq Maps /\ (maps[m].state = "draft" => m \in outdated')
  BY <1>2, <1>3
<1>8. MapsShape'
  BY <1>2, <1>3, <1>4, <1>5, <1>6, <1>7, RequestEnds, SMTT(30) DEF MapsShape
<1>9. InUse'
  BY <1>3, <1>4, <1>6 DEF InUse
<1>10. ReportFits'
  <2>1. ASSUME NEW n \in Maps, maps'[n].state \in {"validated", "active", "retired"}, n \notin outdated'
        PROVE  checked'[n] = maps'[n].edit
    <3>1. maps[n].state \in {"validated", "active", "retired"}
      <4>1. maps[n].state \in Fields!States
        BY <1>3 DEF MapsShape, MapRow
      <4> QED BY <1>3, <1>4, <1>7, <2>1, <4>1 DEF Fields!States
    <3> QED BY <1>2, <1>4, <1>7, <2>1, <3>1 DEF MapsInv, ReportFits
  <2> QED BY <2>1 DEF ReportFits
<1> QED BY <1>8, <1>9, <1>10 DEF MapsInv

(* Every request that reads or writes a map keeps it.                      *)
LEMMA MapsStep ==
  ASSUME Fields!MapsConstants, MapsInv, [Fields!MapsNext]_(Fields!mapVars)
  PROVE  MapsInv'
<1>1. CASE UNCHANGED Fields!mapVars
  BY <1>1 DEF Fields!mapVars, MapsInv, MapsShape, InUse, ReportFits, MapRequestFits
<1>2. ASSUME NEW t \in Requests, Fields!ActivateRefused(t) PROVE MapsInv'
  BY <1>2, MapsStay DEF Fields!ActivateRefused
<1>3. CASE Fields!MapsNext
  BY <1>2, <1>3, CreateKeeps, MapReadKeeps, EntriesKeep, ReportKeeps, ActivateKeeps DEF Fields!MapsNext
<1> QED BY <1>1, <1>3

(* Whatever requests of connectors.service.ts overlap on the maps of an     *)
(* instance, an active map is the instance's, and a map that counts as      *)
(* validated was, with the entries it has, up to the cases in outdated.     *)
THEOREM MapsInvariant ==
  ASSUME Fields!MapsConstants
  PROVE  Fields!MapsInit /\ [][Fields!MapsNext]_(Fields!mapVars) => []MapsInv
<1>1. Fields!MapsInit => MapsInv
  BY MapsStart
<1>2. MapsInv /\ [Fields!MapsNext]_(Fields!mapVars) => MapsInv'
  BY MapsStep
<1> QED BY <1>1, <1>2, PTL

(* At most one map is active, by the version of the instance alone (the    *)
(* unique index of 0012_connectors.sql 93 and 110 is not needed for it),    *)
(* and the map the sync reads is active and validated as it is, unless a    *)
(* request that had read it before activateMap wrote it afterwards, or the  *)
(* report was on older entries.                                            *)
THEOREM OneMapIsUsed ==
  ASSUME Fields!MapsConstants
  PROVE  Fields!MapsInit /\ [][Fields!MapsNext]_(Fields!mapVars) =>
           [](Fields!MapsTypeOK /\ Fields!UsedIsChecked /\ Fields!OneActive)
<1>1. ASSUME MapsInv PROVE Fields!MapsTypeOK
  <2>1. ASSUME NEW t \in Requests PROVE mapReq[t].at \in {"free", "edit", "validate", "activate"}
    BY <1>1 DEF MapsInv, MapsShape, MapRequestFits, MapRequest, Fields!Free
  <2> QED BY <1>1, <2>1 DEF MapsInv, MapsShape, MapRow, Fields!MapsTypeOK
<1>2. ASSUME MapsInv PROVE Fields!UsedIsChecked
  BY <1>2 DEF MapsInv, MapsShape, InUse, ReportFits, Fields!UsedIsChecked
<1>3. ASSUME MapsInv PROVE Fields!OneActive
  BY <1>3 DEF MapsInv, InUse, Fields!OneActive
<1> QED BY <1>1, <1>2, <1>3, MapsInvariant, PTL
=============================================================================
