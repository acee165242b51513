----------------------------- MODULE SlaEngine -----------------------------
(***************************************************************************)
(* The SLA engine (src/src/domain/sla/engine.ts): pure functions from a    *)
(* clock and an instant to the next clock, over the wall-clock calendar.   *)
(* Instants are ticks since the ticket was created; a minute is Minute     *)
(* ticks, and durations are kept in whole minutes, rounded down, as the    *)
(* code keeps them.                                                        *)
(***************************************************************************)
EXTENDS Integers

CONSTANT Minute   \* ticks of the clock in a minute

ASSUME MinuteAssumption == Minute \in Nat \ {0}

None == -1   \* a null instant

Instants == Nat \cup {None}

Clock ==
  [target : Nat, due : Nat, pausedAt : Instants, pausedTotal : Nat,
   metAt : Instants, breachedAt : Instants]

(* WALL_CLOCK: minutesBetween is zero when b <= a. *)
addMinutes(from, minutes) == from + minutes * Minute
minutesBetween(a, b) == IF b <= a THEN 0 ELSE (b - a) \div Minute

AtLeastZero(n) == IF n < 0 THEN 0 ELSE n

startClock(minutes, now) ==
  [target |-> minutes, due |-> addMinutes(now, minutes), pausedAt |-> None,
   pausedTotal |-> 0, metAt |-> None, breachedAt |-> None]

isLive(c) == c.metAt = None /\ c.breachedAt = None

(* The precondition of latch: live, running and past due. *)
latches(c, now) == isLive(c) /\ c.pausedAt = None /\ now >= c.due

latch(c, now) == IF latches(c, now) THEN [c EXCEPT !.breachedAt = now] ELSE c

pause(c, now) ==
  IF isLive(c) /\ c.pausedAt = None THEN [c EXCEPT !.pausedAt = now] ELSE c

resume(c, now) ==
  IF c.pausedAt = None THEN c
  ELSE LET excluded == minutesBetween(c.pausedAt, now)
       IN  [c EXCEPT !.pausedAt = None,
                     !.pausedTotal = @ + excluded,
                     !.due = addMinutes(@, excluded)]

markMet(c, now) == IF c.metAt # None THEN c ELSE [c EXCEPT !.metAt = now]

(* Consumed minutes count from the start (instant 0) to now or the pause. *)
\* A mutant of the next definition.
restampForgettingPauses(c, newTarget, now) ==
  IF ~isLive(c) THEN c
  ELSE LET reference == IF c.pausedAt = None THEN now ELSE c.pausedAt
           left      == AtLeastZero(newTarget - minutesBetween(0, reference))
       IN  [c EXCEPT !.target = newTarget, !.due = addMinutes(reference, left)]
restampForPriority(c, newTarget, now) ==
  IF ~isLive(c) THEN c
  ELSE LET reference == IF c.pausedAt = None THEN now ELSE c.pausedAt
           consumed  == minutesBetween(0, reference) - c.pausedTotal
           left      == AtLeastZero(newTarget - AtLeastZero(consumed))
       IN  [c EXCEPT !.target = newTarget, !.due = addMinutes(reference, left)]
=============================================================================
