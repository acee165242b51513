----------------------------- MODULE SyncQueue -----------------------------
(***************************************************************************)
(* The outbound queue of one connector instance, for the messages of one   *)
(* linked ticket: deliverPending, deliverOne and push of                   *)
(* src/src/modules/connectors/sync.worker.ts over the queries of           *)
(* connectors.repository.ts, with the kill switch and the operator's       *)
(* replay, discard and retry of connectors.service.ts.                     *)
(*                                                                         *)
(* A run claims the oldest rows, passing over those another run's claim     *)
(* has locked, lets the row locks go, and then takes its rows one by one:   *)
(* it looks at the switch and the journal link, writes the journal entry at *)
(* the instance, reads the newest entry back, and commits status and link;  *)
(* an error is recorded in a second transaction with the attempts read at   *)
(* the claim.  The newest entry is found by a stamp in whole seconds, so it *)
(* can be another row's or the client's, and when it has a link already the *)
(* row is sent without one.                                                 *)
(* The job's lease is 30 s and one call may take as long, so runs overlap.  *)
(* The instance's mode stays bidirectional, and the messages are all public *)
(* comments or all work notes: one journal element.                         *)
(***************************************************************************)
EXTENDS Naturals, FiniteSets, Sequences

CONSTANTS
  N,            \* rows, numbered in the order they are queued
  Runs,         \* runs of the job that can overlap
  Batch,        \* rows of one claim (50)
  MaxAttempts,  \* MAX_OUTBOUND_ATTEMPTS
  MaxDisturbances \* bound on crashes, lost answers and commits, replays, retries,
                  \* discards, trips, comments of the client and the deletion of
                  \* the case, together

ASSUME QueueAssumption ==
  /\ N \in Nat \ {0} /\ Batch \in Nat \ {0} /\ MaxAttempts \in Nat \ {0}
  /\ IsFiniteSet(Runs) /\ MaxDisturbances \in Nat

Rows == 1 .. N
Settled == {"sent", "skipped", "dead_lettered"}
Client == 0 \* the writer of an entry that is no row's

VARIABLES
  status, attempts, \* the rows of acct.sync_outbound; a pending row whose
                    \* next_attempt_at is still to come is "waiting" here
  letters,    \* open dead letters of each row
  discarded,  \* rows with a discarded dead letter
  linked,     \* rows whose message has a row in acct.sync_journal_links
  taken,      \* entries of the journal with a row in acct.sync_journal_links
  remote,     \* the journal at the instance: who wrote each entry, in order
  newest,     \* its entries with the latest stamp, in whole seconds
  gone,       \* the client deleted the case
  unlinked,   \* the state of the link
  tripped,    \* the kill switch
  batch,      \* batch[d]: rows run d of the job has claimed and not yet passed
  seen,       \* seen[d]: their attempts, as read at the claim
  phase,      \* phase[d]: where d is with its claim or its oldest row
  entry,      \* entry[d]: the journal entry d has read back, or 0
  disturbances, \* counted against the bound
  excused,    \* history: rows an accident hit after the write, or two runs pushed at once
  misread,    \* history: rows sent for an entry read back that had a link already
  troubled,   \* history: rows that failed, were reopened, were deferred by a trip,
              \* or were passed over by a claim while another claim had them
  afterTrip   \* history: entries written since the last trip, while tripped

queue == <<status, attempts, letters, discarded, linked, taken, misread>>
instance == <<remote, newest, gone, unlinked, tripped, afterTrip>>
runs == <<batch, seen, phase, entry>>
vars == <<queue, instance, runs, disturbances, excused, troubled>>

Phases == {"claiming", "ready", "pushing", "posted", "read"}

TypeOK ==
  /\ status \in [Rows -> {"none", "pending", "waiting"} \cup Settled]
  /\ attempts \in [Rows -> 0 .. MaxAttempts]
  /\ letters \in [Rows -> Nat] /\ discarded \subseteq Rows
  /\ linked \subseteq Rows /\ misread \subseteq Rows
  /\ remote \in Seq(Rows \cup {Client})
  /\ taken \subseteq Nat /\ newest \subseteq DOMAIN remote
  /\ gone \in BOOLEAN /\ unlinked \in BOOLEAN /\ tripped \in BOOLEAN
  /\ batch \in [Runs -> SUBSET Rows]
  /\ seen \in [Runs -> [Rows -> 0 .. MaxAttempts]]
  /\ phase \in [Runs -> Phases] /\ entry \in [Runs -> Nat]
  /\ disturbances \in 0 .. MaxDisturbances
  /\ excused \subseteq Rows /\ troubled \subseteq Rows /\ afterTrip \in Nat

Unread == [r \in Rows |-> 0]

Init ==
  /\ status = [r \in Rows |-> "none"] /\ attempts = [r \in Rows |-> 0]
  /\ letters = [r \in Rows |-> 0]
  /\ discarded = {} /\ linked = {} /\ taken = {} /\ misread = {}
  /\ remote = <<>> /\ newest = {}
  /\ gone = FALSE /\ unlinked = FALSE /\ tripped = FALSE
  /\ batch = [d \in Runs |-> {}] /\ seen = [d \in Runs |-> Unread]
  /\ phase = [d \in Runs |-> "ready"] /\ entry = [d \in Runs |-> 0]
  /\ disturbances = 0
  /\ excused = {} /\ troubled = {} /\ afterTrip = 0

-----------------------------------------------------------------------------
Disturbed == disturbances < MaxDisturbances /\ disturbances' = disturbances + 1

(* onOutbox: the next change becomes a row; the unique index on the outbox  *)
(* id makes a redelivery of the event a stutter.  The switch does not       *)
(* matter here.                                                             *)
Enqueue(r) ==
  /\ status[r] = "none" /\ \A q \in 1 .. r - 1 : status[q] # "none"
  /\ status' = [status EXCEPT ![r] = "pending"]
  /\ UNCHANGED <<attempts, letters, discarded, linked, taken, misread, instance, runs, disturbances, excused, troubled>>

(* next_attempt_at passes. *)
BecomeDue(r) ==
  /\ status[r] = "waiting"
  /\ status' = [status EXCEPT ![r] = "pending"]
  /\ UNCHANGED <<attempts, letters, discarded, linked, taken, misread, instance, runs, disturbances, excused, troubled>>

\* A mutant of the next definition.
ClaimableOnce == {r \in Rows : status[r] = "pending" /\ attempts[r] = 0}
Claimable == {r \in Rows : status[r] = "pending"}

(* Rows under a claim that has not committed yet. *)
LockedByClaims == UNION {batch[d] : d \in {c \in Runs : phase[c] = "claiming"}}

(* order by created_at limit Batch *)
Oldest(rows) == {r \in rows : Cardinality({q \in rows : q < r}) < Batch}

(* claimOutbound, a transaction of its own, "for update skip locked". *)
Claim(d) ==
  LET claimed == Oldest(Claimable \ LockedByClaims)
  IN  /\ batch[d] = {} /\ ~tripped /\ claimed # {}
      /\ batch' = [batch EXCEPT ![d] = claimed]
      /\ seen' = [seen EXCEPT ![d] = [r \in Rows |-> IF r \in claimed THEN attempts[r] ELSE 0]]
      /\ phase' = [phase EXCEPT ![d] = "claiming"]
      /\ troubled' = troubled \cup (Claimable \cap LockedByClaims)
      /\ UNCHANGED <<queue, instance, entry, disturbances, excused>>

Goto(d, there) == phase' = [phase EXCEPT ![d] = there] /\ UNCHANGED <<batch, seen, entry>>

(* The claim commits: the row locks are gone. *)
Unlock(d) ==
  /\ phase[d] = "claiming"
  /\ Goto(d, "ready")
  /\ UNCHANGED <<queue, instance, disturbances, excused, troubled>>

Least(rows) == CHOOSE r \in rows : \A q \in rows : r <= q

\* A mutant of the next definition.
NewestRow(d) == CHOOSE r \in batch[d] : \A q \in batch[d] : q <= r
Row(d) == Least(batch[d])
AttemptsOf(d) == seen[d][Row(d)] + 1
At(d, here) == batch[d] # {} /\ phase[d] = here

Pass(d) ==
  /\ batch' = [batch EXCEPT ![d] = @ \ {Row(d)}]
  /\ seen' = [seen EXCEPT ![d][Row(d)] = 0]
  /\ phase' = [phase EXCEPT ![d] = "ready"]
  /\ entry' = [entry EXCEPT ![d] = 0]

Settle(d, outcome) ==
  /\ status' = [status EXCEPT ![Row(d)] = outcome]
  /\ attempts' = [attempts EXCEPT ![Row(d)] = AttemptsOf(d)]

\* A mutant of the next definition.
ArmedAtClaim == TRUE
Armed == ~tripped

(* deliverOne reads the switch again: a tripped instance defers the row and *)
(* the run goes on to the next one.                                         *)
Defer(d) ==
  /\ At(d, "ready") /\ ~Armed
  /\ Pass(d)
  /\ troubled' = troubled \cup {Row(d)}
  /\ UNCHANGED <<queue, instance, disturbances, excused>>

\* A mutant of the next definition.
NeverSent(r) == FALSE
AlreadySent(r) == r \in linked

(* push, the early returns: no link, the case is gone, the entry was sent.  *)
Skip(d) ==
  /\ At(d, "ready") /\ Armed
  /\ unlinked \/ gone \/ AlreadySent(Row(d))
  /\ unlinked' = (unlinked \/ gone)
  /\ Settle(d, "skipped")
  /\ Pass(d)
  /\ UNCHANGED <<letters, discarded, linked, taken, misread, remote, newest, gone, tripped, afterTrip,
                 disturbances, excused, troubled>>

(* The entry is written, and its outcome is not yet committed. *)
Posted(d) == At(d, "posted") \/ At(d, "read")
Pushing(r) == {d \in Runs : (At(d, "pushing") \/ Posted(d)) /\ Row(d) = r}

(* push, up to the call: the checks passed. *)
Begin(d) ==
  /\ At(d, "ready") /\ Armed
  /\ ~unlinked /\ ~gone /\ ~AlreadySent(Row(d))
  /\ Goto(d, "pushing")
  /\ excused' = IF Pushing(Row(d)) # {} THEN excused \cup {Row(d)} ELSE excused
  /\ UNCHANGED <<queue, instance, disturbances, troubled>>

(* A new entry, in the second of the latest ones or in a later one. *)
Write(w) ==
  LET i == Len(remote) + 1
  IN  /\ remote' = Append(remote, w)
      /\ newest' \in {{i}, newest \cup {i}}

(* createJournal writes the entry. *)
Post(d) ==
  /\ At(d, "pushing")
  /\ Write(Row(d)) /\ Goto(d, "posted")
  /\ afterTrip' = IF tripped THEN afterTrip + 1 ELSE afterTrip
  /\ UNCHANGED <<queue, gone, unlinked, tripped, disturbances, excused, troubled>>

(* createJournal, the second call: the newest entry, whoever wrote it. *)
ReadBack(d) ==
  /\ At(d, "posted")
  /\ \E i \in newest : entry' = [entry EXCEPT ![d] = i]
  /\ phase' = [phase EXCEPT ![d] = "read"]
  /\ UNCHANGED <<queue, instance, batch, seen, disturbances, excused, troubled>>

\* A mutant of the next definition.
Unlinked(r, i) == UNCHANGED <<linked, taken>>
(* insertJournalLink: one link a message and one an entry, "on conflict do  *)
(* nothing".                                                                *)
Link(r, i) ==
  IF r \notin linked /\ i \notin taken
  THEN linked' = linked \cup {r} /\ taken' = taken \cup {i}
  ELSE UNCHANGED <<linked, taken>>

(* The commit of link and status: the row is sent, link or no link. *)
Commit(d) ==
  /\ At(d, "read")
  /\ Link(Row(d), entry[d])
  /\ misread' = misread \cup (IF entry[d] \in taken THEN {Row(d)} ELSE {})
  /\ Settle(d, "sent") /\ Pass(d)
  /\ UNCHANGED <<letters, discarded, instance, disturbances, excused, troubled>>

\* A mutant of the next definition.
PastAttempts(n) == n > MaxAttempts
OutOfAttempts(n) == n >= MaxAttempts

(* deliverOne, the catch: back off, or dead letter when the error is for     *)
(* good (4xx but 429) or the attempts are used up.  The write is by id,      *)
(* whatever the row's status has become.                                    *)
RecordFailure(d, terminal) ==
  LET final == terminal \/ OutOfAttempts(AttemptsOf(d))
  IN  /\ Settle(d, IF final THEN "dead_lettered" ELSE "waiting")
      /\ letters' = IF final THEN [letters EXCEPT ![Row(d)] = @ + 1] ELSE letters
      /\ Pass(d)
      /\ troubled' = troubled \cup {Row(d)}
      /\ UNCHANGED <<discarded, linked, taken, misread, instance>>

(* The read of the case, before the checks, or the write is refused. *)
Fail(d) ==
  /\ At(d, "pushing") \/ (At(d, "ready") /\ Armed /\ ~unlinked)
  /\ \E terminal \in BOOLEAN : RecordFailure(d, terminal)
  /\ UNCHANGED <<disturbances, excused>>

(* The entry was written, but the answer does not come within 30 s, the     *)
(* entry cannot be read back, or the connection drops before the commit.    *)
LoseOutcome(d) ==
  /\ Posted(d)
  /\ \E terminal \in BOOLEAN : RecordFailure(d, terminal)
  /\ Disturbed
  /\ excused' = excused \cup {Row(d)}

(* The worker dies, or the catch itself fails: the rest of the batch is     *)
(* left for the next run.                                                   *)
Crash(d) ==
  /\ batch[d] # {}
  /\ batch' = [batch EXCEPT ![d] = {}]
  /\ seen' = [seen EXCEPT ![d] = Unread]
  /\ phase' = [phase EXCEPT ![d] = "ready"]
  /\ entry' = [entry EXCEPT ![d] = 0]
  /\ Disturbed
  /\ excused' = IF Posted(d) THEN excused \cup {Row(d)} ELSE excused
  /\ UNCHANGED <<queue, instance, troubled>>

-----------------------------------------------------------------------------
Reopen(r) ==
  /\ Disturbed
  /\ status' = [status EXCEPT ![r] = "pending"]
  /\ attempts' = [attempts EXCEPT ![r] = 0]
  /\ troubled' = troubled \cup {r}
  /\ UNCHANGED <<discarded, linked, taken, misread, instance, runs, excused>>

(* resolveDeadLetters: replay whatever the row's status has become. *)
Replay(r) ==
  letters[r] > 0 /\ letters' = [letters EXCEPT ![r] = @ - 1] /\ Reopen(r)

Discard(r) ==
  /\ letters[r] > 0
  /\ letters' = [letters EXCEPT ![r] = @ - 1]
  /\ discarded' = discarded \cup {r}
  /\ Disturbed
  /\ UNCHANGED <<status, attempts, linked, taken, misread, instance, runs, excused, troubled>>

(* retryOutbound: any settled row; its dead letter stays open. *)
Retry(r) == status[r] \in Settled /\ Reopen(r) /\ UNCHANGED letters

(* killSwitch, or the health job at the error threshold. *)
Trip ==
  /\ ~tripped
  /\ tripped' = TRUE /\ afterTrip' = 0
  /\ Disturbed
  /\ UNCHANGED <<queue, remote, newest, gone, unlinked, runs, excused, troubled>>

Arm ==
  /\ tripped /\ tripped' = FALSE /\ afterTrip' = 0
  /\ UNCHANGED <<queue, remote, newest, gone, unlinked, runs, disturbances, excused, troubled>>

ClientDeletes ==
  /\ ~gone /\ gone' = TRUE
  /\ Disturbed
  /\ UNCHANGED <<queue, remote, newest, unlinked, tripped, afterTrip, runs, excused, troubled>>

(* The client writes in the case's journal. *)
ClientComments ==
  /\ Write(Client)
  /\ Disturbed
  /\ UNCHANGED <<queue, gone, unlinked, tripped, afterTrip, runs, excused, troubled>>

(* applyRecord links an entry of the client's to the comment made from it.  *)
Import(i) ==
  /\ remote[i] = Client /\ i \notin taken
  /\ taken' = taken \cup {i}
  /\ UNCHANGED <<status, attempts, letters, discarded, linked, misread, instance, runs,
                 disturbances, excused, troubled>>

RunStep(d) ==
  \/ Unlock(d) \/ Defer(d) \/ Skip(d) \/ Begin(d) \/ Post(d) \/ Fail(d)
  \/ ReadBack(d) \/ Commit(d)

Next ==
  \/ \E d \in Runs : Claim(d) \/ RunStep(d) \/ LoseOutcome(d) \/ Crash(d)
  \/ \E r \in Rows : Enqueue(r) \/ BecomeDue(r) \/ Replay(r) \/ Discard(r) \/ Retry(r)
  \/ \E i \in DOMAIN remote : Import(i)
  \/ Trip \/ Arm \/ ClientDeletes \/ ClientComments

Spec == Init /\ [][Next]_vars

(* The job comes round every five seconds, each call ends within 30 s, and  *)
(* a back-off passes.                                                       *)
FairSpec ==
  /\ Spec
  /\ \A d \in Runs : WF_vars(Claim(d)) /\ WF_vars(RunStep(d))
  /\ \A r \in Rows : WF_vars(BecomeDue(r))

-----------------------------------------------------------------------------
Places(r) == {i \in 1 .. Len(remote) : remote[i] = r}
Copies(r) == Cardinality(Places(r))

(* A message reaches the client's journal once, however often its row is    *)
(* retried, replayed or redelivered; a second copy needs a write whose      *)
(* outcome was lost, two runs of the job in the same row at once, or a row  *)
(* sent for an entry read back that another message or comment had.         *)
DuplicateNeedsExcuse == \A r \in Rows : Copies(r) > 1 => r \in excused \cup misread

(* A row is settled only with its message at the instance, and a link that   *)
(* keeps a retry from repeating it or a misread entry, with its case gone,   *)
(* or with a dead letter to show for it.                                     *)
NothingLost ==
  \A r \in Rows :
    /\ status[r] \in {"sent", "skipped"} =>
          unlinked \/ (r \in linked \cup misread /\ Copies(r) > 0)
    /\ status[r] = "dead_lettered" => letters[r] > 0 \/ r \in discarded

(* Messages arrive in the order they were queued: no copy of r is there      *)
(* before q, queued earlier, unless q failed, was reopened, met a trip in    *)
(* the middle of a batch, or was passed over while another run claimed it.   *)
OvertakenOnlyAfterTrouble ==
  \A q, r \in Rows : \A i \in Places(r) :
    q < r => (q \in troubled \/ \E j \in Places(q) : j < i)

(* sync.worker.ts 701: "Rows leave oldest first so a ticket's changes reach  *)
(* the instance in the order they were made": of two messages that arrived,  *)
(* the older arrived first.                                                  *)
MessagesArriveInOrder ==
  \A q, r \in Rows : \A i \in Places(r) :
    q < r /\ Places(q) # {} => \E j \in Places(q) : j < i

(* After a trip each run finishes at most the one call it was in. *)
TripStopsDelivery == afterTrip <= Cardinality(Runs)

Queued(r) == status[r] \in {"pending", "waiting"}

(* While the switch stays armed, a queued row does not stay queued. *)
EveryRowSettles ==
  <>[]~tripped => \A r \in Rows : []<>~Queued(r)
=============================================================================
