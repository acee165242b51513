------------------------------ MODULE Webhooks ------------------------------
(***************************************************************************)
(* One webhook subscription and its deliveries                             *)
(* (src/src/modules/integrations/webhooks.module.ts): the first attempt    *)
(* made by the outbox handler, the retry ladder of the webhook.retry job,  *)
(* dead letters and their replay from the console, the automatic pause,    *)
(* and the console's pause, resume and remove beside the revocation of the *)
(* API client.                                                             *)
(*                                                                         *)
(* log[e] lists the status of the delivery rows of event e, the row of     *)
(* attempt n at position n.  A delivery transaction (one per worker) calls *)
(* the endpoint while it is open; its writes are kept apart (wrote, draft) *)
(* until it commits.  It holds the row locks of the deliveries it claimed  *)
(* and, once it has counted an outcome, of the subscription row.  Console  *)
(* operations read the subscription without a lock and write it later.     *)
(* Whether a retry is due (BACKOFF_MINUTES) is left to chance.             *)
(***************************************************************************)
EXTENDS Naturals, Sequences, FiniteSets

CONSTANTS
  Events,        \* outbox ids of the subscribed types
  Workers,       \* delivery transactions that can be open at once
  Admins,        \* console requests that can be open at once
  MaxAttempts,   \* MAX_ATTEMPTS (5)
  PauseAfter,    \* PAUSE_AFTER_FAILURES (3)
  MaxReplays,    \* bound on attempts beyond the ladder, per event
  MaxAborts,     \* bound on delivery transactions that roll back or die
  NoEvent, NoWorker

ASSUME MaxAttemptsAssumption == MaxAttempts \in Nat \ {0}
ASSUME PauseAfterAssumption == PauseAfter \in Nat \ {0}
ASSUME BoundsAssumption == MaxReplays \in Nat /\ MaxAborts \in Nat
ASSUME NoneAssumption == NoEvent \notin Events /\ NoWorker \notin Workers
ASSUME WorkersAssumption == IsFiniteSet(Workers)

VARIABLES
  client,    \* op.api_clients.status
  sub,       \* acct.webhook_subscriptions: status, reason, failures
  log,       \* acct.webhook_deliveries, committed
  kind,      \* kind[w]: what the transaction of w does, "idle" when none is open
  todo,      \* todo[w]: claimed deliveries still to attempt
  hand,      \* hand[w]: the event of the attempt under way
  answer,    \* answer[w]: what the endpoint answered to it, "none" before
  wrote,     \* wrote[w][e]: status of the row inserted for e, uncommitted
  lock,      \* holder of the lock on the subscription row
  draft,     \* the lock holder's uncommitted version of that row
  console,   \* console[a]: operation whose checks have passed, not yet written
  posts,     \* history: posts[e], calls made for e
  rollbacks, \* history: transactions that called and did not commit
  aborts,    \* faults so far
  began      \* history: began[w], client status when the transaction began

database == <<client, sub, log>>
tx == <<kind, todo, hand, answer, wrote, began>>
history == <<posts, rollbacks, aborts>>
vars == <<database, tx, lock, draft, console, history>>

RowStatuses == {"delivered", "retrying", "dead_lettered", "replayed"}
Subscription ==
  [status : {"active", "paused", "deleted"},
   reason : {"none", "continuous_failure", "owner", "client_revoked"},
   failures : Nat]

TypeOK ==
  /\ client \in {"active", "revoked"}
  /\ sub \in Subscription /\ draft \in Subscription
  /\ log \in [Events -> Seq(RowStatuses)]
  /\ kind \in [Workers -> {"idle", "first", "retry", "replay", "claiming"}]
  /\ todo \in [Workers -> SUBSET Events]
  /\ hand \in [Workers -> Events \cup {NoEvent}]
  /\ answer \in [Workers -> {"none", "ok", "bad"}]
  /\ wrote \in [Workers -> [Events -> RowStatuses \cup {"none", "dropped"}]]
  /\ lock \in Workers \cup {NoWorker}
  /\ console \in [Admins -> {"none", "pause", "resume", "remove"}]
  /\ posts \in [Events -> Nat] /\ rollbacks \in Nat
  /\ aborts \in 0 .. MaxAborts
  /\ began \in [Workers -> {"active", "revoked"}]

Fresh == [status |-> "active", reason |-> "none", failures |-> 0]

NothingWritten == [e \in Events |-> "none"]

Init ==
  /\ client = "active"
  /\ sub = Fresh
  /\ draft = Fresh
  /\ log = [e \in Events |-> <<>>]
  /\ kind = [w \in Workers |-> "idle"]
  /\ todo = [w \in Workers |-> {}]
  /\ hand = [w \in Workers |-> NoEvent]
  /\ answer = [w \in Workers |-> "none"]
  /\ wrote = [w \in Workers |-> NothingWritten]
  /\ lock = NoWorker
  /\ console = [a \in Admins |-> "none"]
  /\ posts = [e \in Events |-> 0]
  /\ rollbacks = 0
  /\ aborts = 0
  /\ began = [w \in Workers |-> "active"]

-----------------------------------------------------------------------------
Latest(e) == IF log[e] = <<>> THEN "none" ELSE log[e][Len(log[e])]

(* The version of the subscription row transaction w reads: its own writes  *)
(* or the committed row.                                                    *)
SubSeenBy(w) == IF lock = w THEN draft ELSE sub

Open(w, k) ==
  /\ kind[w] = "idle"
  /\ kind' = [kind EXCEPT ![w] = k]
  /\ began' = [began EXCEPT ![w] = client]

(* Deliveries whose row a transaction other than w has locked. *)
LockedByOthers(w) ==
  UNION {todo[v] \cup {hand[v]} \cup {e \in Events : wrote[v][e] # "none"} :
           v \in {u \in Workers \ {w} : kind[u] \in {"retry", "replay"}}}

(* onOutbox: the dispatcher hands an event over, for the first time or again. *)
(* Only an active subscription of an active client gets an attempt, and only  *)
(* when no delivery of the event exists yet.                                  *)
StartFirst(w, e) ==
  /\ sub.status = "active" /\ client = "active"
  /\ log[e] = <<>>
  /\ Open(w, "first")
  /\ hand' = [hand EXCEPT ![w] = e]
  /\ UNCHANGED <<database, todo, answer, wrote, lock, draft, console, history>>

(* dueRetries: "status = 'retrying'" for update skip locked. *)
Claimable(w) == {e \in Events : Latest(e) = "retrying"} \ LockedByOthers(w)

StartRetry(w, due) ==
  /\ due # {} /\ due \subseteq Claimable(w)
  /\ Open(w, "retry")
  /\ todo' = [todo EXCEPT ![w] = due]
  /\ UNCHANGED <<database, hand, answer, wrote, lock, draft, console, history>>

(* retryDue, one row: a subscription that is not active any more gets no    *)
(* further attempt, and the row is marked replayed all the same.            *)
TakeRetry(w, e) ==
  /\ kind[w] = "retry" /\ hand[w] = NoEvent
  /\ e \in todo[w]
  /\ todo' = [todo EXCEPT ![w] = @ \ {e}]
  /\ IF SubSeenBy(w).status = "active"
     THEN hand' = [hand EXCEPT ![w] = e] /\ UNCHANGED wrote
     ELSE wrote' = [wrote EXCEPT ![w][e] = "dropped"] /\ UNCHANGED hand
  /\ UNCHANGED <<database, kind, answer, began, lock, draft, console, history>>

(* replay, the checks: the row is a dead letter, its subscription active. *)
StartReplay(w, e) ==
  /\ Latest(e) = "dead_lettered"
  /\ Len(log[e]) < MaxAttempts + MaxReplays
  /\ sub.status = "active"
  /\ Open(w, "claiming")
  /\ hand' = [hand EXCEPT ![w] = e]
  /\ UNCHANGED <<database, todo, answer, wrote, lock, draft, console, history>>

(* claimDeadLetter waits for the row lock and then matches the row as it is. *)
StillDead(w, e) == e \notin LockedByOthers(w) /\ Latest(e) = "dead_lettered"

ClaimReplay(w) ==
  /\ kind[w] = "claiming"
  /\ StillDead(w, hand[w])
  /\ kind' = [kind EXCEPT ![w] = "replay"]
  /\ UNCHANGED <<database, todo, hand, answer, wrote, began, lock, draft, console, history>>

Closed(w) ==
  /\ kind' = [kind EXCEPT ![w] = "idle"]
  /\ todo' = [todo EXCEPT ![w] = {}]
  /\ hand' = [hand EXCEPT ![w] = NoEvent]
  /\ answer' = [answer EXCEPT ![w] = "none"]
  /\ wrote' = [wrote EXCEPT ![w] = NothingWritten]
  /\ began' = [began EXCEPT ![w] = "active"]

(* The second of two people pressing Replay: 409, nothing sent. *)
RefuseReplay(w) ==
  /\ kind[w] = "claiming"
  /\ hand[w] \notin LockedByOthers(w)
  /\ ~StillDead(w, hand[w])
  /\ Closed(w)
  /\ UNCHANGED <<database, lock, draft, console, history>>

(* attempt, the call: 2xx, or anything else up to the timeout of 10 s. *)
Post(w, result) ==
  /\ kind[w] \in {"first", "retry", "replay"}
  /\ hand[w] # NoEvent /\ answer[w] = "none"
  /\ answer' = [answer EXCEPT ![w] = result]
  /\ posts' = [posts EXCEPT ![hand[w]] = @ + 1]
  /\ UNCHANGED <<database, kind, todo, hand, wrote, began, lock, draft, console, rollbacks, aborts>>

(* A mutant of Verdict: one retry too many. *)
LateVerdict(n, result) ==
  IF result = "ok" THEN "delivered"
  ELSE IF n > MaxAttempts THEN "dead_lettered" ELSE "retrying"

(* The status attempt n leaves: the ladder ends at MAX_ATTEMPTS. *)
Verdict(n, result) ==
  IF result = "ok" THEN "delivered"
  ELSE IF n >= MaxAttempts THEN "dead_lettered" ELSE "retrying"

(* A mutant of Counted: a success takes one failure back. *)
CountedDown(s, verdict) ==
  LET failures == IF verdict = "delivered" THEN s.failures - 1 ELSE s.failures + 1
  IN  IF verdict = "dead_lettered" /\ failures >= PauseAfter
      THEN [status |-> "paused", reason |-> "continuous_failure", failures |-> failures]
      ELSE [s EXCEPT !.failures = failures]

(* recordOutcome, and the pause after PAUSE_AFTER_FAILURES dead letters in a *)
(* row, on the row s: no condition on the status the row has by now.         *)
Counted(s, verdict) ==
  LET failures == IF verdict = "delivered" THEN 0 ELSE s.failures + 1
  IN  IF verdict = "dead_lettered" /\ failures >= PauseAfter
      THEN [status |-> "paused", reason |-> "continuous_failure", failures |-> failures]
      ELSE [s EXCEPT !.failures = failures]

(* attempt, the rest: the delivery row is inserted (the unique key of the   *)
(* attempt waits for a concurrent insert) and a final outcome is counted on *)
(* the subscription row, whose lock it takes.                               *)
Record(w) ==
  LET e == hand[w]
      verdict == Verdict(Len(log[e]) + 1, answer[w])
  IN  /\ answer[w] # "none"
      /\ \A v \in Workers \ {w} : wrote[v][e] = "none"
      /\ kind[w] = "first" => log[e] = <<>>
      /\ wrote' = [wrote EXCEPT ![w][e] = verdict]
      /\ hand' = [hand EXCEPT ![w] = NoEvent]
      /\ answer' = [answer EXCEPT ![w] = "none"]
      /\ IF verdict = "retrying" THEN UNCHANGED <<lock, draft>>
         ELSE /\ lock \in {NoWorker, w}
              /\ lock' = w
              /\ draft' = Counted(SubSeenBy(w), verdict)
      /\ UNCHANGED <<database, kind, todo, began, console, history>>

(* A mutant of Extended: a new attempt overwrites the row of the last one. *)
Overwritten(rows, status) ==
  LET marked == IF rows = <<>> THEN rows ELSE [rows EXCEPT ![Len(rows)] = "replayed"]
  IN  IF status = "none" THEN rows
      ELSE IF status = "dropped" THEN marked
      ELSE IF rows = <<>> THEN <<status>> ELSE [rows EXCEPT ![Len(rows)] = status]

(* The rows a transaction leaves for e: the claimed row becomes replayed,    *)
(* the new attempt follows it.                                               *)
Extended(rows, status) ==
  LET marked == IF rows = <<>> THEN rows ELSE [rows EXCEPT ![Len(rows)] = "replayed"]
  IN  IF status = "none" THEN rows
      ELSE IF status = "dropped" THEN marked ELSE Append(marked, status)

Unlocked(w) ==
  IF lock = w THEN lock' = NoWorker /\ draft' = Fresh ELSE UNCHANGED <<lock, draft>>

Commit(w) ==
  /\ kind[w] \in {"first", "retry", "replay"}
  /\ todo[w] = {} /\ hand[w] = NoEvent
  /\ log' = [e \in Events |-> Extended(log[e], wrote[w][e])]
  /\ sub' = SubSeenBy(w)
  /\ Unlocked(w)
  /\ Closed(w)
  /\ UNCHANGED <<client, console, history>>

(* Calls of the open transaction of w that a rollback forgets. *)
Forgotten(w) ==
  {e \in Events : wrote[w][e] \in RowStatuses} \cup
  (IF answer[w] # "none" THEN {hand[w]} ELSE {})

Rollback(w) ==
  /\ rollbacks' = IF Forgotten(w) = {} THEN rollbacks ELSE rollbacks + 1
  /\ Unlocked(w)
  /\ Closed(w)
  /\ UNCHANGED <<database, console, posts>>

(* The first attempt was made twice (the dispatcher's tick lost its locks    *)
(* while the handler ran on): the later insert fails on the unique key and   *)
(* its transaction rolls back.                                               *)
DuplicateFirst(w) ==
  /\ kind[w] = "first" /\ answer[w] # "none"
  /\ log[hand[w]] # <<>>
  /\ Rollback(w)
  /\ UNCHANGED aborts

(* A statement fails or the process dies before the commit: every write of   *)
(* the transaction is gone, the calls it made are not.                       *)
Abort(w) ==
  /\ kind[w] # "idle"
  /\ aborts < MaxAborts
  /\ aborts' = aborts + 1
  /\ Rollback(w)

-----------------------------------------------------------------------------
(* Console operations: the checks read the row, the write comes later, once  *)
(* no delivery transaction holds it, and names nothing but the id.           *)
Ready(op) ==
  CASE op = "pause"  -> sub.status = "active"
    [] op = "resume" -> sub.status = "paused"
    [] op = "remove" -> sub.status # "deleted"

Check(a, op) ==
  /\ console[a] = "none"
  /\ Ready(op)
  /\ console' = [console EXCEPT ![a] = op]
  /\ UNCHANGED <<database, tx, lock, draft, history>>

(* A mutant of Written: a resume keeps the failure count. *)
WrittenKeepingCount(op) ==
  CASE op = "pause"  -> [sub EXCEPT !.status = "paused", !.reason = "owner"]
    [] op = "resume" -> [sub EXCEPT !.status = "active", !.reason = "none"]
    [] op = "remove" -> [sub EXCEPT !.status = "deleted", !.reason = "none"]

Written(op) ==
  CASE op = "pause"  -> [sub EXCEPT !.status = "paused", !.reason = "owner"]
    [] op = "resume" -> Fresh
    [] op = "remove" -> [sub EXCEPT !.status = "deleted", !.reason = "none"]

Write(a) ==
  /\ console[a] # "none"
  /\ lock = NoWorker
  /\ sub' = Written(console[a])
  /\ console' = [console EXCEPT ![a] = "none"]
  /\ UNCHANGED <<client, log, tx, lock, draft, history>>

(* revoke: the client and, "where status = 'active'", its subscriptions. *)
Revoke ==
  /\ client = "active"
  /\ lock = NoWorker
  /\ client' = "revoked"
  /\ sub' = IF sub.status = "active"
            THEN [sub EXCEPT !.status = "paused", !.reason = "client_revoked"]
            ELSE sub
  /\ UNCHANGED <<log, tx, lock, draft, console, history>>

Next ==
  \/ \E w \in Workers, e \in Events :
        StartFirst(w, e) \/ TakeRetry(w, e) \/ StartReplay(w, e)
  \/ \E w \in Workers : \E due \in SUBSET Events : StartRetry(w, due)
  \/ \E w \in Workers :
        \/ ClaimReplay(w) \/ RefuseReplay(w)
        \/ Post(w, "ok") \/ Post(w, "bad")
        \/ Record(w) \/ Commit(w) \/ DuplicateFirst(w) \/ Abort(w)
  \/ \E a \in Admins : Write(a) \/ \E op \in {"pause", "resume", "remove"} : Check(a, op)
  \/ Revoke

Spec == Init /\ [][Next]_vars

-----------------------------------------------------------------------------
(* The attempts of an event form one ladder: each row but the last has been  *)
(* replaced by its successor, attempts below MAX_ATTEMPTS that failed wait   *)
(* for a retry and later ones are dead letters, whatever mix of first        *)
(* attempts, retries and replays wrote them.                                 *)
OneLadderPerEvent ==
  \A e \in Events :
     /\ \A n \in 1 .. Len(log[e]) - 1 : log[e][n] = "replayed"
     /\ Latest(e) = "retrying" => Len(log[e]) < MaxAttempts
     /\ Latest(e) = "dead_lettered" => Len(log[e]) >= MaxAttempts

(* "Two people pressing the button send the event once": retries and replays *)
(* of one event never have two calls under way.                              *)
Resending(w, e) == kind[w] \in {"retry", "replay"} /\ hand[w] = e
ResendIsExclusive ==
  \A e \in Events, v, w \in Workers : Resending(v, e) /\ Resending(w, e) => v = w

(* Both: first attempts, retries and replays of an event take their turns.   *)
AttemptsTakeTurns == OneLadderPerEvent /\ ResendIsExclusive

(* Every call for an event beyond its recorded attempts was made by a         *)
(* transaction that rolled back, at most one call each, or has yet to commit. *)
CallsAreAccountedFor ==
  \A e \in Events :
     posts[e] <= Len(log[e]) + rollbacks
                 + Cardinality({w \in Workers : e \in Forgotten(w)})

(* A subscription at the failure threshold is not active: the pause comes    *)
(* with the outcome that reaches it, and a resume starts the count afresh.   *)
NoActiveAtThreshold == sub.status = "active" => sub.failures < PauseAfter

(* webhooks.module.ts 308: "a revoked credential stops receiving             *)
(* immediately": a delivery transaction begun after the revocation makes no  *)
(* call.                                                                     *)
RevokedReceivesNothing ==
  \A w \in Workers : began[w] = "revoked" => answer[w] = "none"
=============================================================================
