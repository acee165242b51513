------------------------------ MODULE JobLease ------------------------------
(***************************************************************************)
(* The lease of one scheduled job (src/src/worker/jobs.ts, JobRunner).     *)
(*                                                                         *)
(* Every worker task ticks the job on a timer and does not wait for the    *)
(* previous invocation, so one task may have several invocations in        *)
(* flight (Slots).  An invocation takes the row of sys.job_leases when the *)
(* lease in it has passed, runs the job and sets the lease to now().  The  *)
(* lease is never renewed while the job runs, and the release names the    *)
(* task (hostname:pid), not the invocation.                                *)
(*                                                                         *)
(* Time is relative: leaseLeft is leased_until - now(), floored at -1, the *)
(* first value at which "leased_until < now()" holds.  Leases of different *)
(* jobs are different rows and do not interact, so one job is modelled.    *)
(***************************************************************************)
EXTENDS Integers, FiniteSets

CONSTANTS
  Tasks,        \* worker tasks; a task is the holder string of its process
  Slots,        \* invocations one task can have in flight at once
  Lease,        \* ticks granted by acquire: max(30 s, 2 * interval)
  RunBound,     \* ticks within which every run of the job ends
  MaxCrashes,   \* bound on task restarts
  NoTask

ASSUME LeaseAssumption == Lease \in Nat \ {0}
ASSUME RunBoundAssumption == RunBound \in Nat
ASSUME CrashAssumption == MaxCrashes \in Nat
ASSUME NoTaskAssumption == NoTask \notin Tasks

VARIABLES
  holder,       \* sys.job_leases.holder, NoTask before the first insert
  leaseLeft,    \* leased_until - now(), -1 once it has passed
  age,          \* age[t][s]: ticks since invocation s of task t took the lease, -1 when idle
  crashes,      \* task restarts so far
  overran       \* history: tasks with a run that outlived its lease, since they were last idle

leaseVars == <<holder, leaseLeft, age, crashes, overran>>

Idle == -1

Running(t, s) == age[t][s] # Idle

LeaseTypeOK ==
  /\ holder \in Tasks \cup {NoTask}
  /\ leaseLeft \in -1 .. Lease
  /\ age \in [Tasks -> [Slots -> -1 .. RunBound]]
  /\ crashes \in 0 .. MaxCrashes
  /\ overran \subseteq Tasks

LeaseInit ==
  /\ holder = NoTask
  /\ leaseLeft = -1
  /\ age = [t \in Tasks |-> [s \in Slots |-> Idle]]
  /\ crashes = 0
  /\ overran = {}

-----------------------------------------------------------------------------
(* A mutant of LeaseFree: the lease is free at its last instant already. *)
LeaseFreeEarly == leaseLeft <= 0

(* A mutant of LeaseFree: only a lease nobody holds can be taken. *)
LeaseFreeIfUnheld == leaseLeft < 0 /\ holder = NoTask

(* leased_until < now(); an absent row is inserted by the same statement. *)
LeaseFree == leaseLeft < 0

(* runOnce up to the start of job.run(): acquire succeeded. *)
Acquire(t, s) ==
  /\ ~Running(t, s)
  /\ LeaseFree
  /\ holder' = t
  /\ leaseLeft' = Lease
  /\ age' = [age EXCEPT ![t][s] = 0]
  /\ UNCHANGED <<crashes, overran>>

(* A mutant of ReleasedLease: the release does not name the holder. *)
ReleasedAnyway(t) == 0

(* A mutant of ReleasedLease: the release takes back the time granted. *)
ReleasedGrant(t) == IF holder = t THEN leaseLeft - Lease ELSE leaseLeft

(* The where clause of release: name and holder, nothing of the invocation. *)
ReleasedLease(t) == IF holder = t THEN 0 ELSE leaseLeft

(* History: a task that has become idle again starts afresh. *)
OverranAfter(t, ages) ==
  IF \A s \in Slots : ages[t][s] = Idle THEN overran \ {t} ELSE overran

(* runOnce after job.run() returned or threw: either outcome releases. *)
Finish(t, s) ==
  /\ Running(t, s)
  /\ leaseLeft' = ReleasedLease(t)
  /\ age' = [age EXCEPT ![t][s] = Idle]
  /\ overran' = OverranAfter(t, age')
  /\ UNCHANGED <<holder, crashes>>

(* The release statement failed and the error is swallowed: the lease stays *)
(* until it passes.                                                         *)
FinishUnreleased(t, s) ==
  /\ Running(t, s)
  /\ age' = [age EXCEPT ![t][s] = Idle]
  /\ overran' = OverranAfter(t, age')
  /\ UNCHANGED <<holder, leaseLeft, crashes>>

(* The process dies with all its invocations; the lease row stays. *)
Crash(t) ==
  /\ crashes < MaxCrashes
  /\ \E s \in Slots : Running(t, s)
  /\ crashes' = crashes + 1
  /\ age' = [age EXCEPT ![t] = [s \in Slots |-> Idle]]
  /\ overran' = overran \ {t}
  /\ UNCHANGED <<holder, leaseLeft>>

(* One tick of the database clock; no run outlives RunBound. *)
Tick ==
  /\ \A t \in Tasks, s \in Slots : age[t][s] < RunBound
  /\ leaseLeft' = IF leaseLeft < 0 THEN leaseLeft ELSE leaseLeft - 1
  /\ age' = [t \in Tasks |-> [s \in Slots |->
                IF age[t][s] = Idle THEN Idle ELSE age[t][s] + 1]]
  /\ overran' = overran \cup {t \in Tasks : \E s \in Slots : age'[t][s] > Lease}
  /\ UNCHANGED <<holder, crashes>>

LeaseNext ==
  \/ \E t \in Tasks, s \in Slots :
        Acquire(t, s) \/ Finish(t, s) \/ FinishUnreleased(t, s)
  \/ \E t \in Tasks : Crash(t)
  \/ Tick

LeaseSpec == LeaseInit /\ [][LeaseNext]_leaseVars

(* The database clock advances, a run ends (the job's own statements are    *)
(* bounded) and some task's timer fires again and again.                    *)
Fairness ==
  /\ WF_leaseVars(Tick)
  /\ \A t \in Tasks, s \in Slots :
        WF_leaseVars(Finish(t, s) \/ FinishUnreleased(t, s))
  /\ WF_leaseVars(\E t \in Tasks, s \in Slots : Acquire(t, s))

FairLeaseSpec == LeaseSpec /\ Fairness

-----------------------------------------------------------------------------
(* jobs.ts 7-8: "only the instance holding the lease runs it, so two tasks  *)
(* never run the same scheduled job at once".                               *)
TwoTasksNeverRunAtOnce ==
  \A t, u \in Tasks : t # u =>
     ~ (\E s \in Slots : Running(t, s)) \/ ~ (\E s \in Slots : Running(u, s))

(* Two invocations, of one task or of two, run at once only if a run of one *)
(* of the two tasks has outlived its lease.                                 *)
OverlapOnlyAfterOverrun ==
  \A t, u \in Tasks : \A s, r \in Slots :
     /\ Running(t, s) /\ Running(u, r)
     /\ t \notin overran /\ u \notin overran
     => t = u /\ s = r

(* While no run of a task has outlived its lease, the row names that task   *)
(* and covers its run to the end: another task's release, late because its  *)
(* own run overran, does not free it.                                       *)
UnexpiredRunIsCovered ==
  \A t \in Tasks, s \in Slots :
     Running(t, s) /\ t \notin overran
     => holder = t /\ leaseLeft = Lease - age[t][s]

(* A lease left behind by a crashed task, or by a release that failed, does *)
(* not stop the job for good: it is always run again.                       *)
JobRunsAgain == []<>(\E t \in Tasks, s \in Slots : Running(t, s))
=============================================================================
