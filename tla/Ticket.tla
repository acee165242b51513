------------------------------- MODULE Ticket -------------------------------
(***************************************************************************)
(* One ticket, its two SLA clocks and the tasks that write them: the       *)
(* transition, the first response and the priority change of               *)
(* src/src/modules/tickets/tickets.service.ts, and the breach sweeper of   *)
(* src/src/worker/sla-jobs.ts, over the engine of SlaEngine.               *)
(*                                                                         *)
(* A request locks the ticket row, reads the clocks without a lock,        *)
(* computes what it will write (the variable request holds it) and saves   *)
(* and commits later; while it waits, other requests queue for the ticket  *)
(* row.  A sweep locks the overdue clocks first and the ticket row last.   *)
(* The two orders can meet: the database then kills one of the two.        *)
(*                                                                         *)
(* A request with a stale version, a forbidden transition or a missing     *)
(* requirement is refused and changes nothing.  The state machine is a     *)
(* parameter: the seeded ones are in src/src/config/seeds.                 *)
(***************************************************************************)
EXTENDS SlaEngine, FiniteSets

CONSTANTS
  States, Initial,
  Transitions,   \* records [from, to, portal, reopen]
  Pausing, Responding, Resolving, Closing, Cancelling,  \* states by effect
  Priorities, FirstPriority,
  Targets,       \* Targets[p][k]: minutes of clock k at priority p, 0 for none
  Sweepers,      \* runs of the sweep that can overlap
  MaxVersion,    \* bound on committed requests
  MaxNow         \* bound on time

Kinds == {"response", "resolution"}

ASSUME MachineAssumption ==
  /\ Initial \in States
  /\ Transitions \subseteq [from : States, to : States, portal : BOOLEAN, reopen : BOOLEAN]
  /\ Initial \notin Pausing
ASSUME TargetsAssumption ==
  /\ FirstPriority \in Priorities
  /\ Targets \in [Priorities -> [Kinds -> Nat]]
  /\ \A k \in Kinds : Targets[FirstPriority][k] > 0
ASSUME BoundsAssumption == MaxVersion \in Nat /\ MaxNow \in Nat

(* What StampsAgreeWithState needs of a machine and no validation checks: a   *)
(* ticket closes from a resolved state, exactly the reopening transitions     *)
(* lead out of the resolved states, and nothing leads out of the last ones.   *)
(* The five seeded machines are so.                                           *)
StampingMachine ==
  LET Ended == Resolving \cup Closing IN
  /\ Initial \notin Ended \cup Cancelling
  /\ \A t \in Transitions :
       /\ t.to \in Closing => t.from \in Ended \/ t.to \in Resolving
       /\ t.reopen => t.to \notin Ended
       /\ t.from \in Ended /\ ~t.reopen => t.to \in Ended
       /\ t.from \in Closing => t.to \in Closing
       /\ t.from \in Cancelling => t.to \in Cancelling

VARIABLES
  now,        \* the time, in ticks since creation
  ticket,     \* the row of acct.tickets
  clocks,     \* the rows of acct.sla_clocks, committed
  openPauses, \* rows of acct.sla_pauses with no end
  announced,  \* announced[k]: outbox rows 'sla.breached' written for clock k
  request,    \* the request that holds the ticket row, with what it will write
  claims      \* claims[s]: clocks the sweep s has locked, and since when

vars == <<now, ticket, clocks, openPauses, announced, request, claims>>

TicketRow ==
  [state : States, priority : Priorities, responded : BOOLEAN, resolved : BOOLEAN,
   closed : BOOLEAN, cancelled : BOOLEAN, breached : [Kinds -> BOOLEAN], version : Nat]

NoRequest == [open |-> FALSE]
Request ==
  [open : {TRUE}, ticket : TicketRow, clocks : [Kinds -> Clock], saves : SUBSET Kinds,
   events : SUBSET Kinds, openPauses : Nat]

NoClaim == [kinds |-> {}, at |-> 0]

TypeOK ==
  /\ now \in Nat
  /\ ticket \in TicketRow
  /\ clocks \in [Kinds -> Clock]
  /\ openPauses \in Nat
  /\ announced \in [Kinds -> Nat]
  /\ request \in Request \cup {NoRequest}
  /\ claims \in [Sweepers -> [kinds : SUBSET Kinds, at : Nat]]

(* create: the initial state, and clocks started from the targets of the    *)
(* derived priority.                                                        *)
Init ==
  /\ now = 0
  /\ ticket = [state |-> Initial, priority |-> FirstPriority, responded |-> FALSE,
               resolved |-> FALSE, closed |-> FALSE, cancelled |-> FALSE,
               breached |-> [k \in Kinds |-> FALSE], version |-> 1]
  /\ clocks = [k \in Kinds |-> startClock(Targets[FirstPriority][k], 0)]
  /\ openPauses = 0
  /\ announced = [k \in Kinds |-> 0]
  /\ request = NoRequest
  /\ claims = [s \in Sweepers |-> NoClaim]

-----------------------------------------------------------------------------
(* The ticket row is free, and the bound on versions is not reached. *)
CanLock == ~request.open /\ ticket.version < MaxVersion

Hold(row, drafts, saves, events, open) ==
  request' = [open |-> TRUE, ticket |-> [row EXCEPT !.version = @ + 1], clocks |-> drafts,
              saves |-> saves, events |-> events, openPauses |-> open]

(* transition: the clocks in the order of the code.  Latch all; on leaving a *)
(* pausing state resume and latch again; on entering one pause; then the     *)
(* first response and the resolution are met.                                *)
\* A mutant of the next definition.
LeavesForWork(t) == t.from \in Pausing /\ t.to \in Responding
Leaves(t) == t.from \in Pausing /\ t.to \notin Pausing
Enters(t) == t.to \in Pausing /\ t.from \notin Pausing

Responds(t, internal) == internal /\ t.to \in Responding /\ ~ticket.responded

Latched(cs) == [k \in Kinds |-> latch(cs[k], now)]

AfterPause(t, cs) ==
  LET first == Latched(cs)
  IN  IF Leaves(t) THEN Latched([k \in Kinds |-> resume(first[k], now)])
      ELSE IF Enters(t) THEN [k \in Kinds |-> pause(first[k], now)]
      ELSE first

\* A mutant of the next definition.
CountedPauses(t) == IF Enters(t) THEN openPauses + 1 ELSE openPauses - 1
PausesAfter(t) == IF Leaves(t) THEN 0 ELSE IF Enters(t) THEN openPauses + 1 ELSE openPauses

AfterTransition(t, internal, cs) ==
  [k \in Kinds |->
     IF \/ k = "response" /\ Responds(t, internal)
        \/ k = "resolution" /\ t.to \in Resolving
     THEN markMet(AfterPause(t, cs)[k], now)
     ELSE AfterPause(t, cs)[k]]

NewlyBreached(drafts) ==
  {k \in Kinds : clocks[k].breachedAt = None /\ drafts[k].breachedAt # None}

\* A mutant of the next definition.
FlagsBefore(drafts) == [k \in Kinds |-> clocks[k].breachedAt # None]
Flags(drafts) == [k \in Kinds |-> drafts[k].breachedAt # None]

(* The ticket columns a transition assigns. *)
Moved(t, internal, drafts) ==
  [ticket EXCEPT !.state = t.to,
                 !.responded = @ \/ Responds(t, internal),
                 !.resolved = (@ \/ t.to \in Resolving) /\ ~t.reopen,
                 !.closed = @ \/ t.to \in Closing,
                 !.cancelled = @ \/ t.to \in Cancelling,
                 !.breached = Flags(drafts)]

(* transition, from the lock to the computed writes; portal users may take  *)
(* the transitions marked for them.                                         *)
Transition(t, internal) ==
  LET drafts == AfterTransition(t, internal, clocks)
  IN  /\ CanLock
      /\ t \in Transitions /\ t.from = ticket.state
      /\ internal \/ t.portal
      /\ Hold(Moved(t, internal, drafts), drafts, Kinds, NewlyBreached(drafts), PausesAfter(t))
      /\ UNCHANGED <<now, ticket, clocks, openPauses, announced, claims>>

(* addComment by an operator, the first one: the response clock is latched  *)
(* and met, the response flag is cleared, and the breach, if this is where  *)
(* it latched, is audited but not written to the outbox.  Other comments    *)
(* leave the ticket and its clocks alone.                                   *)
FirstResponse ==
  /\ CanLock
  /\ ~ticket.responded
  /\ Hold([ticket EXCEPT !.responded = TRUE, !.breached["response"] = FALSE],
          [clocks EXCEPT !["response"] = markMet(latch(@, now), now)],
          {"response"}, {}, openPauses)
  /\ UNCHANGED <<now, ticket, clocks, openPauses, announced, claims>>

(* patch with a new priority: live clocks with a target are restamped; the  *)
(* breach flags are left alone.                                             *)
Restamped(p) ==
  [k \in Kinds |-> IF Targets[p][k] = 0 THEN clocks[k]
                   ELSE restampForPriority(clocks[k], Targets[p][k], now)]

ChangePriority(p) ==
  /\ CanLock
  /\ ticket.state \notin Closing \cup Cancelling
  /\ p \in Priorities \ {ticket.priority}
  /\ Hold([ticket EXCEPT !.priority = p], Restamped(p),
          {k \in Kinds : Targets[p][k] > 0}, {}, openPauses)
  /\ UNCHANGED <<now, ticket, clocks, openPauses, announced, claims>>

(* Clocks the request has to save that a sweep has locked. *)
Blocking(s) == request.open /\ claims[s].kinds \cap request.saves # {}

(* saveClock for each clock, the versioned update, the outbox rows, commit. *)
Save ==
  /\ request.open
  /\ \A s \in Sweepers : ~Blocking(s)
  /\ ticket' = request.ticket
  /\ clocks' = [k \in Kinds |-> IF k \in request.saves THEN request.clocks[k] ELSE clocks[k]]
  /\ openPauses' = request.openPauses
  /\ announced' = [k \in Kinds |-> IF k \in request.events THEN announced[k] + 1 ELSE announced[k]]
  /\ request' = NoRequest
  /\ UNCHANGED <<now, claims>>

-----------------------------------------------------------------------------
\* A mutant of the next definition.
AnyClock(k) == TRUE
Unclaimed(k) == \A s \in Sweepers : k \notin claims[s].kinds

(* SWEEP_PREDICATE: live, not paused, due_at < now(). *)
\* A mutant of the next definition.
OverdueAndOpen(k) ==
  isLive(clocks[k]) /\ clocks[k].pausedAt = None /\ clocks[k].due < now
    /\ ticket.state \notin Cancelling
Overdue(k) == isLive(clocks[k]) /\ clocks[k].pausedAt = None /\ clocks[k].due < now

(* sweep, the claim: for update skip locked on the clock rows. *)
SweepClaim(s) ==
  /\ claims[s].kinds = {}
  /\ \E k \in Kinds : Overdue(k) /\ Unclaimed(k)
  /\ claims' = [claims EXCEPT ![s] = [kinds |-> {k \in Kinds : Overdue(k) /\ Unclaimed(k)}, at |-> now]]
  /\ UNCHANGED <<now, ticket, clocks, openPauses, announced, request>>

(* The ticket row, which the sweep locks before it sets the flag. *)
\* A mutant of the next definition.
NoTicketLock == TRUE
TicketFree == ~request.open

(* sweep, the rest: latch each claimed clock, set its flag on the ticket     *)
(* (the version stays), write one outbox row for each, commit.               *)
SweepCommit(s) ==
  /\ claims[s].kinds # {}
  /\ TicketFree
  /\ clocks' = [k \in Kinds |-> IF k \in claims[s].kinds THEN latch(clocks[k], claims[s].at) ELSE clocks[k]]
  /\ ticket' = [ticket EXCEPT !.breached = [k \in Kinds |-> @[k] \/ k \in claims[s].kinds]]
  /\ announced' = [k \in Kinds |-> IF k \in claims[s].kinds THEN announced[k] + 1 ELSE announced[k]]
  /\ claims' = [claims EXCEPT ![s] = NoClaim]
  /\ UNCHANGED <<now, openPauses, request>>

(* The request waits for a clock, the sweep for the ticket: the database    *)
(* detects the deadlock and rolls one of the two back.                      *)
KillRequest(s) ==
  /\ Blocking(s)
  /\ request' = NoRequest
  /\ UNCHANGED <<now, ticket, clocks, openPauses, announced, claims>>

KillSweep(s) ==
  /\ Blocking(s)
  /\ claims' = [claims EXCEPT ![s] = NoClaim]
  /\ UNCHANGED <<now, ticket, clocks, openPauses, announced, request>>

Tick ==
  /\ now < MaxNow
  /\ now' = now + 1
  /\ UNCHANGED <<ticket, clocks, openPauses, announced, request, claims>>

Next ==
  \/ \E t \in Transitions, internal \in BOOLEAN : Transition(t, internal)
  \/ FirstResponse
  \/ \E p \in Priorities : ChangePriority(p)
  \/ Save
  \/ \E s \in Sweepers : SweepClaim(s) \/ SweepCommit(s) \/ KillRequest(s) \/ KillSweep(s)
  \/ Tick

Spec == Init /\ [][Next]_vars

(* A request ends: the database breaks each deadlock within a second, and    *)
(* sweeps come five minutes apart, so a request is saved or killed before    *)
(* they can hold it up for ever.  A sweep queues for the ticket row and gets  *)
(* it.                                                                        *)
FairSpec ==
  /\ Spec
  /\ SF_vars(Save \/ \E s \in Sweepers : KillRequest(s))
  /\ \A s \in Sweepers : WF_vars(SweepClaim(s)) /\ SF_vars(SweepCommit(s))

-----------------------------------------------------------------------------
Paused(k) == clocks[k].pausedAt # None

(* A live clock stands still exactly while the ticket is in a pausing state, *)
(* and exactly then there is one open pause row to show why.                 *)
ClocksPauseWithTicket ==
  /\ \A k \in Kinds : isLive(clocks[k]) => (Paused(k) <=> ticket.state \in Pausing)
  /\ openPauses = IF ticket.state \in Pausing THEN 1 ELSE 0

(* Pauses move the due time and priority changes recompute it; through any   *)
(* mix of both it stays the target plus the excluded minutes, to within a     *)
(* minute, unless the target was already spent.  So a breach always comes     *)
(* after the whole target, the pauses not charged.                            *)
WindowOf(c) == addMinutes(0, c.target + c.pausedTotal)

DueIsWindow ==
  \A k \in Kinds : LET c == clocks[k] IN
     /\ c.due >= WindowOf(c)
     /\ c.due < WindowOf(c) + Minute \/ c.due <= now

BreachMeansTargetSpent ==
  \A k \in Kinds : LET c == clocks[k] IN
     c.breachedAt # None => c.breachedAt >= WindowOf(c) /\ c.breachedAt <= now

(* Both: no pause or priority change moves a deadline or a breach forward.   *)
ClocksKeepTheirWindow == DueIsWindow /\ BreachMeansTargetSpent

(* A breach that has latched stays latched, at the instant it latched: no    *)
(* request overwrites it with a clock it read before the sweep.              *)
LatchIsForever ==
  [][\A k \in Kinds :
        clocks[k].breachedAt # None => clocks'[k].breachedAt = clocks[k].breachedAt]_vars

(* Two sweeps and a request that reach one overdue clock announce it once,   *)
(* and only a breach is announced.                                           *)
AnnouncedOnce ==
  \A k \in Kinds : announced[k] <= IF clocks[k].breachedAt = None THEN 0 ELSE 1

(* The flags queues and dashboards count by: the resolution flag is the      *)
(* latch of the resolution clock; the response flag is never set without one. *)
FlagsHaveLatches ==
  /\ ticket.breached["resolution"] <=> clocks["resolution"].breachedAt # None
  /\ ticket.breached["response"] => clocks["response"].breachedAt # None

(* The stamps agree with the state, through reopening and portal moves.      *)
StampsAgreeWithState ==
  /\ ticket.resolved <=> ticket.state \in Resolving \cup Closing
  /\ ticket.closed <=> ticket.state \in Closing
  /\ ticket.cancelled <=> ticket.state \in Cancelling

(* Both: what lists and reports read off the ticket row is what its state    *)
(* and its clocks say.                                                       *)
RowAgreesWithClocks == FlagsHaveLatches /\ StampsAgreeWithState

(* A clock past its due time does not stay unlatched, whatever became of the  *)
(* ticket: a sweep, or a request before it, deals with it.                    *)
PastDue(k) == latches(clocks[k], now) /\ clocks[k].due < now

OverdueIsSwept == \A k \in Kinds : PastDue(k) ~> ~PastDue(k)

(* engine.ts 97: "A breached clock can still be met (late), the latch stays": *)
(* the ticket column that shows it stays set too.                             *)
LateResponseStaysBreached ==
  clocks["response"].breachedAt # None /\ ~request.open => ticket.breached["response"]
=============================================================================
