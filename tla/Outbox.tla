------------------------------- MODULE Outbox -------------------------------
(***************************************************************************)
(* The outbox dispatcher (src/src/worker/outbox-dispatcher.ts) and the     *)
(* subscriptions of src/src/worker/worker.module.ts.                       *)
(*                                                                         *)
(* Every worker task runs one dispatcher.  A tick is one transaction: it   *)
(* claims the first Batch undispatched rows no other live transaction has  *)
(* locked, hands each row to the handlers its type routes to, in           *)
(* subscription order and up to the first that throws, writes the verdict  *)
(* of each row, and commits.  Handlers work in transactions of their own:  *)
(* a tick that rolls back keeps what they did and loses every verdict.  If *)
(* the connection of the tick drops, its locks go at once while the        *)
(* handler in flight runs on.                                              *)
(***************************************************************************)
EXTENDS Naturals, FiniteSets, Sequences

CONSTANTS
  LastEvent,     \* events are the ids 1 .. LastEvent of sys.outbox
  Handlers,      \* subscribed handlers
  Route,         \* Route[e]: the matching handlers in subscription order
  Dispatchers,   \* worker tasks
  Batch,         \* rows claimed by one tick (100)
  MaxAttempts,   \* MAX_ATTEMPTS (5)
  MaxAborts      \* bound on ticks lost to a crash, a database error or a dropped connection

Events == 1 .. LastEvent

ASSUME LastEventAssumption == LastEvent \in Nat
ASSUME RouteAssumption == Route \in [Events -> Seq(Handlers)]
ASSUME RouteOnceAssumption ==   \* each subscription is called once for a row
  \A e \in Events : \A i, j \in DOMAIN Route[e] : Route[e][i] = Route[e][j] => i = j
ASSUME BatchAssumption == Batch \in Nat \ {0}
ASSUME MaxAttemptsAssumption == MaxAttempts \in Nat \ {0}
ASSUME MaxAbortsAssumption == MaxAborts \in Nat
ASSUME DispatchersAssumption == IsFiniteSet(Dispatchers)

VARIABLES
  published,     \* committed rows of sys.outbox
  dispatched,    \* rows with dispatched_at set
  attempts,      \* sys.outbox.attempts
  letters,       \* letters[e]: rows of sys.dead_letters written for e
  claimed,       \* claimed[d]: rows the tick of d has claimed, {} when idle
  okRows,        \* okRows[d]: rows of the tick whose handlers all returned
  failedRows,    \* failedRows[d]: rows of the tick a handler threw on
  handled,       \* handled[d]: handlers that have returned for the row in hand
  lost,          \* dispatchers whose tick has lost its connection
  runs,          \* history: runs[e][h], how often handler h took effect for e
  aborts         \* history: ticks lost so far

rows == <<published, dispatched, attempts, letters>>
ticks == <<claimed, okRows, failedRows, handled, lost>>
vars == <<rows, ticks, runs, aborts>>

RoutedTo(e) == {Route[e][i] : i \in DOMAIN Route[e]}

TypeOK ==
  /\ published \subseteq Events
  /\ dispatched \subseteq published
  /\ attempts \in [Events -> 0 .. MaxAttempts]
  /\ letters \in [Events -> Nat]
  /\ claimed \in [Dispatchers -> SUBSET published]
  /\ okRows \in [Dispatchers -> SUBSET Events]
  /\ failedRows \in [Dispatchers -> SUBSET Events]
  /\ handled \in [Dispatchers -> Nat]
  /\ lost \subseteq Dispatchers
  /\ runs \in [Events -> [Handlers -> Nat]]
  /\ aborts \in 0 .. MaxAborts

Init ==
  /\ published = {}
  /\ dispatched = {}
  /\ attempts = [e \in Events |-> 0]
  /\ letters = [e \in Events |-> 0]
  /\ claimed = [d \in Dispatchers |-> {}]
  /\ okRows = [d \in Dispatchers |-> {}]
  /\ failedRows = [d \in Dispatchers |-> {}]
  /\ handled = [d \in Dispatchers |-> 0]
  /\ lost = {}
  /\ runs = [e \in Events |-> [h \in Handlers |-> 0]]
  /\ aborts = 0

-----------------------------------------------------------------------------
(* A domain transaction commits with its outbox row.  Ids are drawn before  *)
(* the commit, so rows need not become visible in id order.                 *)
Publish(e) ==
  /\ e \notin published
  /\ published' = published \cup {e}
  /\ UNCHANGED <<dispatched, attempts, letters, ticks, runs, aborts>>

(* A mutant of Locked: rows are claimed without "for update". *)
NothingLocked == {}

(* Row locks last as long as the connection that took them. *)
Locked == UNION {claimed[d] : d \in Dispatchers \ lost}

(* A mutant of Claimable: settled rows are claimed again. *)
ClaimableForever == published \ Locked

(* A mutant of Claimable: a row that failed once is never claimed again. *)
ClaimableOnce == {e \in (published \ dispatched) \ Locked : attempts[e] = 0}

Claimable == (published \ dispatched) \ Locked

FirstOf(S) == {e \in S : Cardinality({f \in S : f < e}) < Batch}

(* The head of tick(): one tick per process, "limit $1 for update skip locked". *)
Claim(d) ==
  /\ claimed[d] = {}
  /\ Claimable # {}
  /\ claimed' = [claimed EXCEPT ![d] = FirstOf(Claimable)]
  /\ UNCHANGED <<rows, okRows, failedRows, handled, lost, runs, aborts>>

Unprocessed(d) == claimed[d] \ (okRows[d] \cup failedRows[d])

(* The row in hand: rows are taken in id order. *)
InHand(d, e) == e \in Unprocessed(d) /\ \A f \in Unprocessed(d) : e <= f

(* A mutant of HasNextHandler: a row is done after its first handler. *)
HasFirstHandler(d, e) == handled[d] < Len(Route[e]) /\ handled[d] = 0

HasNextHandler(d, e) == handled[d] < Len(Route[e])

NextHandler(d, e) == Route[e][handled[d] + 1]

Ran(e, h) == [runs EXCEPT ![e][h] = @ + 1]

(* dispatch(): the next matching handler returns. *)
HandlerReturns(d, e) ==
  /\ InHand(d, e)
  /\ HasNextHandler(d, e)
  /\ handled' = [handled EXCEPT ![d] = @ + 1]
  /\ runs' = Ran(e, NextHandler(d, e))
  /\ UNCHANGED <<rows, claimed, okRows, failedRows, lost, aborts>>

(* dispatch() returned 'ok': every matching handler returned. *)
RowDelivered(d, e) ==
  /\ d \notin lost
  /\ InHand(d, e)
  /\ ~HasNextHandler(d, e)
  /\ okRows' = [okRows EXCEPT ![d] = @ \cup {e}]
  /\ handled' = [handled EXCEPT ![d] = 0]
  /\ UNCHANGED <<rows, claimed, failedRows, lost, runs, aborts>>

(* dispatch() returned an error: the first handler that throws ends the     *)
(* row, before or after its own effect, and later handlers do not run.      *)
HandlerThrows(d, e, effect) ==
  /\ d \notin lost
  /\ InHand(d, e)
  /\ HasNextHandler(d, e)
  /\ failedRows' = [failedRows EXCEPT ![d] = @ \cup {e}]
  /\ handled' = [handled EXCEPT ![d] = 0]
  /\ runs' = IF effect THEN Ran(e, NextHandler(d, e)) ELSE runs
  /\ UNCHANGED <<rows, claimed, okRows, lost, aborts>>

(* A mutant of Exhausted: one attempt too many. *)
Overspent(e) == attempts[e] + 1 > MaxAttempts

(* attempts + 1 >= MAX_ATTEMPTS: the row is buried instead of retried. *)
Exhausted(e) == attempts[e] + 1 >= MaxAttempts

(* A mutant of Buried: the first failure buries the row. *)
BuriedAtOnce(d) == failedRows[d]

Buried(d) == {e \in failedRows[d] : Exhausted(e)}

TickOver(d) ==
  /\ claimed' = [claimed EXCEPT ![d] = {}]
  /\ okRows' = [okRows EXCEPT ![d] = {}]
  /\ failedRows' = [failedRows EXCEPT ![d] = {}]
  /\ handled' = [handled EXCEPT ![d] = 0]
  /\ lost' = lost \ {d}

(* The commit of the tick: the verdicts of all its rows at once. *)
Commit(d) ==
  /\ d \notin lost
  /\ claimed[d] # {}
  /\ Unprocessed(d) = {}
  /\ attempts' = [e \in Events |->
                    IF e \in claimed[d] THEN attempts[e] + 1 ELSE attempts[e]]
  /\ letters' = [e \in Events |->
                   IF e \in Buried(d) THEN letters[e] + 1 ELSE letters[e]]
  /\ dispatched' = dispatched \cup okRows[d] \cup Buried(d)
  /\ TickOver(d)
  /\ UNCHANGED <<published, runs, aborts>>

(* The connection drops: the locks are gone, the process does not know yet. *)
LoseConnection(d) ==
  /\ claimed[d] # {}
  /\ d \notin lost
  /\ aborts < MaxAborts
  /\ lost' = lost \cup {d}
  /\ aborts' = aborts + 1
  /\ UNCHANGED <<rows, claimed, okRows, failedRows, handled, runs>>

(* A statement of the tick fails and the catch block rolls back, or the     *)
(* process dies: locks and verdicts are gone, no attempt is counted.        *)
Abort(d) ==
  /\ claimed[d] # {}
  /\ d \notin lost => aborts < MaxAborts
  /\ aborts' = IF d \in lost THEN aborts ELSE aborts + 1
  /\ TickOver(d)
  /\ UNCHANGED <<rows, runs>>

Next ==
  \/ \E e \in Events : Publish(e)
  \/ \E d \in Dispatchers : Claim(d) \/ Commit(d) \/ LoseConnection(d) \/ Abort(d)
  \/ \E d \in Dispatchers, e \in Events :
        \/ HandlerReturns(d, e)
        \/ RowDelivered(d, e)
        \/ \E effect \in BOOLEAN : HandlerThrows(d, e, effect)

Spec == Init /\ [][Next]_vars

(* The tick of a live process goes on: handlers answer (their statements    *)
(* and calls have timeouts), one way or the other, and a tick whose         *)
(* connection is gone ends in its catch block.                              *)
Progress(d) ==
  \/ Claim(d) \/ Commit(d)
  \/ \E e \in Events :
        \/ HandlerReturns(d, e)
        \/ RowDelivered(d, e)
        \/ \E effect \in BOOLEAN : HandlerThrows(d, e, effect)
  \/ d \in lost /\ Abort(d)

FairSpec == Spec /\ \A d \in Dispatchers : WF_vars(Progress(d))

-----------------------------------------------------------------------------
(* A row leaves the queue only delivered to every handler its type routes   *)
(* to, or with exactly one dead letter after MAX_ATTEMPTS counted attempts; *)
(* until then it has no dead letter and an attempt to spare, because letter *)
(* and verdict are written in one transaction.                              *)
NoSilentLoss ==
  /\ \A e \in dispatched :
        \/ letters[e] = 0 /\ \A h \in RoutedTo(e) : runs[e][h] > 0
        \/ letters[e] = 1 /\ attempts[e] = MaxAttempts
  /\ \A e \in Events \ dispatched : letters[e] = 0 /\ attempts[e] < MaxAttempts

(* 1 while a live tick has still to write its verdict on e. *)
InFlight(e) == IF \E d \in Dispatchers \ lost : e \in claimed[d] THEN 1 ELSE 0

(* A handler repeats an event at most once for each counted attempt and     *)
(* each lost tick, and once more while a live tick has the row: SKIP LOCKED *)
(* keeps a second live tick off it.                                         *)
RepeatsAreAccountedFor ==
  \A e \in Events, h \in Handlers :
     runs[e][h] <= attempts[e] + aborts + InFlight(e)

(* Once a row is settled nothing writes it again: its attempts and its dead *)
(* letters stay as they are, whatever ticks were in flight when it settled. *)
SettledIsFinal ==
  [][\A e \in dispatched :
        e \in dispatched' /\ attempts'[e] = attempts[e] /\ letters'[e] = letters[e]]_vars

(* Every committed event is settled in the end. *)
EveryEventSettles == \A e \in Events : e \in published ~> e \in dispatched

(* The dispatcher keeps the promise of EventDelivery. *)
Delivery == INSTANCE EventDelivery WITH
  Subscribed <- [e \in Events |-> RoutedTo(e)],
  state <- [e \in Events |->
              CASE e \notin published -> "unpublished"
                [] e \in published \ dispatched -> "queued"
                [] e \in dispatched /\ letters[e] = 0 -> "delivered"
                [] OTHER -> "buried"],
  ran <- [e \in Events |-> {h \in Handlers : runs[e][h] > 0}]

DeliveryPromise == Delivery!Spec
=============================================================================
