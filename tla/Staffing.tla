------------------------------ MODULE Staffing ------------------------------
(***************************************************************************)
(* The allocations of one person in one month, the time off that lies in   *)
(* it and the row of rpt.capacity_periods computed from both:              *)
(* putAllocations, addPto, removePto and computeMonth of                   *)
(* src/src/modules/capacity/capacity.module.ts and personMonth of          *)
(* src/src/domain/capacity/capacity.ts.                                    *)
(*                                                                         *)
(* A put writes its cells in the caller's order, one row lock after the    *)
(* other, computes the month and commits; a view only computes it.  Days   *)
(* are counted in quarters and the person works full time.                 *)
(*                                                                         *)
(* One person of the roster: the skills assessed, the certifications and   *)
(* the daily sweep that tells of those about to expire.                    *)
(* src/src/modules/roster/roster.module.ts (setSkills, patch,              *)
(* addCertification, removeCertification) and src/src/worker/roster-jobs.ts.*)
(*                                                                         *)
(* A sweep is one transaction: it locks the certifications it found, skips *)
(* those another one holds, and its notices and marks commit together.     *)
(***************************************************************************)
EXTENDS Integers, Sequences, FiniteSets, FiniteSetsExt

CONSTANTS
  Requests,
  Allocated,        \* accounts with a cell in the month
  Puts,             \* cell edits of a put, in order; a note is "kept" (omitted), "set" or "cleared"
  TimeOff,          \* ranges of days that may be entered, each with its quarters a day
  MonthDays,        \* working days of the month, holidays included
  HolidaysOfMonth,
  MaxPuts,          \* bounds on puts, and on views and changes of time off
  MaxViews,
  Processes,        \* that may sweep at once, when the job's lease ran out
  Skills, Certifications,
  ExpiresOn,        \* day each certification expires
  ExpiryWindow,     \* days before that in which a sweep tells of it
  SweepBatch,       \* certifications of one sweep
  MaxRosterDay,     \* bounds
  MaxAssessments

VARIABLES
  cells,         \* committed rows of op.allocations
  timeOff,       \* committed rows of op.pto
  month,         \* committed row of rpt.capacity_periods
  capReq,        \* requests in progress
  puts, views,   \* how many there were
  buried,        \* history: a put that named a version wrote over another one
  unread,         \* history: what the month is computed from changed since it was read
  active,         \* is_active of the person
  certified,      \* rows of op.certifications and whether they were told of
  sweep,          \* the certifications each process's sweep holds
  rosterDay,
  skills,         \* rows of op.person_skills, each with the assessment that wrote it
  skillReq,       \* replacements in progress
  assessments,    \* how many began
  heard,          \* history: how often each certification was told of
  due,            \* history: certifications that were due in some sweep
  excused,        \* history: those a sweep left to one that failed, or to the next batch
  merged          \* history: two replacements overlapped

-----------------------------------------------------------------------------
(* Capacity                                                                *)

capacityVars == <<cells, timeOff, month, capReq, puts, views, buried, unread>>

NoCell == [minutes |-> -1, noted |-> FALSE, version |-> 0, life |-> -1]
Idle == [at |-> "idle"]

\* What a request has written and not committed; a cell it left alone is not in it.
NoWrites == [x \in {} |-> NoCell]

CapacityTypeOK ==
  /\ \A x \in Allocated :
       cells[x] = NoCell \/ (cells[x].version > 0 /\ cells[x].minutes \in 0 .. 1 /\ cells[x].life \in 0 .. MaxPuts)
  /\ timeOff \subseteq TimeOff /\ puts \in 0 .. MaxPuts /\ views \in 0 .. MaxViews
  /\ \A t \in Requests : capReq[t].at \in {"idle", "open", "lock", "write", "compute", "sum", "save", "commit"}
  /\ buried \subseteq {"same life", "another life"} /\ unread \subseteq {"time off", "beside"}

CapacityInit ==
  /\ \E planned \in SUBSET Allocated :
       cells = [x \in Allocated |->
                  IF x \in planned THEN [minutes |-> 1, noted |-> FALSE, version |-> 1, life |-> 0] ELSE NoCell]
  /\ timeOff = {} /\ month = <<>>
  /\ capReq = [t \in Requests |-> Idle]
  /\ puts = 0 /\ views = 0 /\ buried = {} /\ unread = {}

-----------------------------------------------------------------------------
(* The month *)

QuartersOff(rows, day) ==
  MapThenSumSet(LAMBDA r : IF day \in r.from .. r.to THEN r.quarters ELSE 0, rows)

\* A holiday inside a range of time off is counted once, a day at most once.
FreeQuarters(rows) ==
  MapThenSumSet(LAMBDA day : IF QuartersOff(rows, day) > 4 THEN 0 ELSE 4 - QuartersOff(rows, day),
                MonthDays \ HolidaysOfMonth)

MinutesOf(cell) == IF cell = NoCell THEN 0 ELSE cell.minutes
Planned(all) == MapThenSumSet(LAMBDA x : MinutesOf(all[x]), Allocated)

PersonMonth(rows, planned) == [free |-> FreeQuarters(rows), planned |-> planned]

-----------------------------------------------------------------------------
(* Puts *)

\* The rows as a request sees them: committed, with its own writes.
Seen(t) == [x \in Allocated |-> IF x \in DOMAIN capReq[t].own THEN capReq[t].own[x] ELSE cells[x]]

Began(at, own, todo, seen, versioned) ==
  [at |-> at, own |-> own, todo |-> todo, seen |-> seen, versioned |-> versioned,
   locked |-> {}, value |-> <<>>, since |-> {}]

\* The grid is read, and later a put sends the versions it was read at, or none.
OpenGrid(t) ==
  /\ capReq[t] = Idle /\ puts < MaxPuts
  /\ capReq' = [capReq EXCEPT ![t] = Began("open", NoWrites, <<>>, cells, TRUE)]
  /\ puts' = puts + 1
  /\ UNCHANGED <<cells, timeOff, month, views, buried, unread>>

BeginPut(t) ==
  /\ capReq[t].at = "open"
  /\ \E put \in Puts, versioned \in BOOLEAN :
       capReq' = [capReq EXCEPT ![t] = Began("lock", NoWrites, put, @.seen, versioned)]
  /\ UNCHANGED <<cells, timeOff, month, puts, views, buried, unread>>

LockedBy(u, x) == capReq[u] # Idle /\ x \in capReq[u].locked
InsertedBy(u, x) == capReq[u] # Idle /\ x \in DOMAIN capReq[u].own /\ x \notin capReq[u].locked
Stale(r, x) == r.versioned /\ r.seen[x] # NoCell /\ cells[x].version # r.seen[x].version
Target(t) == Head(capReq[t].todo).account

\* select ... for update, and the version check on the row it finds.
LockCell(t) ==
  LET r == capReq[t]
      x == Target(t)
  IN
  /\ r.at = "lock"
  /\ cells[x] # NoCell => (\A u \in Requests \ {t} : ~LockedBy(u, x)) /\ ~Stale(r, x)
  /\ capReq' = [capReq EXCEPT ![t].at = "write",
                              ![t].locked = IF cells[x] = NoCell THEN @ ELSE @ \cup {x}]
  /\ UNCHANGED <<cells, timeOff, month, puts, views, buried, unread>>

\* A note that is omitted keeps a row that is written, and not one that is deleted.
Upserted(old, e) ==
  IF e.minutes = 0 /\ e.note # "set" THEN NoCell
  ELSE [minutes |-> e.minutes,
        noted |-> e.note = "set" \/ (e.note = "kept" /\ old.noted),
        version |-> old.version + 1,
        life |-> IF old = NoCell THEN puts ELSE old.life]

Wrote(t, x, row) == [y \in DOMAIN capReq[t].own \cup {x} |-> IF y = x THEN row ELSE capReq[t].own[y]]

\* The write finds the row its lock left; an insert waits for the insert of
\* another request and fails when that one commits.
WriteCell(t) ==
  LET r == capReq[t]
      x == Target(t)
      found == IF x \in r.locked THEN cells[x] ELSE NoCell
      row == Upserted(found, Head(r.todo))
  IN
  /\ r.at = "write"
  /\ found = NoCell /\ row # NoCell =>
       cells[x] = NoCell /\ \A u \in Requests \ {t} : ~InsertedBy(u, x)
  /\ capReq' = [capReq EXCEPT
       ![t].own = IF found = NoCell /\ row = NoCell THEN @ ELSE Wrote(t, x, row),
       ![t].todo = Tail(@),
       ![t].at = IF Len(r.todo) = 1 THEN "compute" ELSE "lock"]
  /\ buried' = buried \cup
       (IF ~r.versioned \/ r.seen[x] = NoCell THEN {}
        ELSE IF found.life # r.seen[x].life THEN {"another life"}
        ELSE IF found.version # r.seen[x].version THEN {"same life"} ELSE {})
  /\ UNCHANGED <<cells, timeOff, month, puts, views, unread>>

-----------------------------------------------------------------------------
(* computeMonth: time off, allocations, the row *)

BeginView(t) ==
  /\ capReq[t] = Idle /\ views < MaxViews
  /\ capReq' = [capReq EXCEPT ![t] = Began("compute", NoWrites, <<>>, <<>>, FALSE)]
  /\ views' = views + 1
  /\ UNCHANGED <<cells, timeOff, month, puts, buried, unread>>

ReadTimeOff(t) ==
  /\ capReq[t].at = "compute"
  /\ capReq' = [capReq EXCEPT ![t].at = "sum", ![t].value = timeOff]
  /\ UNCHANGED <<cells, timeOff, month, puts, views, buried, unread>>

ReadAllocations(t) ==
  /\ capReq[t].at = "sum"
  /\ capReq' = [capReq EXCEPT ![t].at = "save", ![t].value = PersonMonth(@, Planned(Seen(t)))]
  /\ UNCHANGED <<cells, timeOff, month, puts, views, buried, unread>>

\* What requests that have read are told of a change to what they read.
Outdated(states, why) ==
  [u \in Requests |-> IF capReq[u].at \in states THEN [capReq[u] EXCEPT !.since = @ \cup why] ELSE capReq[u]]

\* The upsert waits for one that is not committed.
SaveMonth(t) ==
  /\ capReq[t].at = "save"
  /\ \A u \in Requests \ {t} : capReq[u].at # "commit"
  /\ capReq' = [capReq EXCEPT ![t].at = "commit"]
  /\ UNCHANGED <<cells, timeOff, month, puts, views, buried, unread>>

Commit(t) ==
  /\ capReq[t].at = "commit"
  /\ cells' = Seen(t)
  /\ month' = <<capReq[t].value>>
  /\ capReq' = [Outdated({"save"}, IF cells' = cells THEN {} ELSE {"beside"}) EXCEPT ![t] = Idle]
  /\ unread' = capReq[t].since
  /\ UNCHANGED <<timeOff, puts, views, buried>>

(* A refusal, a unique violation, a deadlock that made it the victim.      *)
Rollback(t) ==
  /\ capReq[t].at \notin {"idle", "commit"}
  /\ capReq' = [capReq EXCEPT ![t] = Idle]
  /\ UNCHANGED <<cells, timeOff, month, puts, views, buried, unread>>

-----------------------------------------------------------------------------
(* Time off: one statement, and nothing is computed *)

AddPto(row) ==
  /\ row \notin timeOff /\ views < MaxViews
  /\ timeOff' = timeOff \cup {row}
  /\ unread' = unread \cup {"time off"}
  /\ capReq' = Outdated({"sum", "save", "commit"}, {"time off"})
  /\ views' = views + 1
  /\ UNCHANGED <<cells, month, puts, buried>>

RemovePto(row) ==
  /\ row \in timeOff /\ views < MaxViews
  /\ timeOff' = timeOff \ {row}
  /\ unread' = unread \cup {"time off"}
  /\ capReq' = Outdated({"sum", "save", "commit"}, {"time off"})
  /\ views' = views + 1
  /\ UNCHANGED <<cells, month, puts, buried>>

CapacityNext ==
  \/ \E t \in Requests :
       \/ OpenGrid(t) \/ BeginPut(t) \/ LockCell(t) \/ WriteCell(t) \/ BeginView(t)
       \/ ReadTimeOff(t) \/ ReadAllocations(t) \/ SaveMonth(t) \/ Commit(t) \/ Rollback(t)
  \/ \E row \in TimeOff : AddPto(row) \/ RemovePto(row)

-----------------------------------------------------------------------------
\* A put that names the version it read never writes over a later one, unless
\* the cell was removed meanwhile, when the version is not looked at or starts again.
ReadCellsAreKept == "same life" \notin buried

\* The row of the month is what its cells and the time off come to, unless
\* time off was entered or a put committed after whoever wrote it had read them.
MonthAddsUp == month # <<>> /\ unread = {} => month = <<PersonMonth(timeOff, Planned(cells))>>

-----------------------------------------------------------------------------
(* Roster                                                                  *)

rosterVars == <<active, certified, sweep, rosterDay, skills, skillReq, assessments, heard, due,
                excused, merged>>

NoRow == "none"
Resting == [at |-> "resting"]

RosterTypeOK ==
  /\ active \in BOOLEAN /\ certified \in [Certifications -> {NoRow, "new", "told"}]
  /\ sweep \in [Processes -> SUBSET Certifications] /\ rosterDay \in 0 .. MaxRosterDay
  /\ skills \subseteq Skills \X (0 .. MaxAssessments) /\ assessments \in 0 .. MaxAssessments
  /\ \A x, y \in skills : x[1] = y[1] => x = y
  /\ \A t \in Requests : skillReq[t].at \in {"resting", "begun", "deleted", "inserted"}
  /\ heard \in [Certifications -> 0 .. 2] /\ merged \in BOOLEAN
  /\ due \subseteq Certifications /\ excused \subseteq Certifications

RosterInit ==
  /\ active = TRUE /\ certified = [c \in Certifications |-> NoRow]
  /\ sweep = [p \in Processes |-> {}] /\ rosterDay = 0
  /\ skills = {} /\ skillReq = [t \in Requests |-> Resting] /\ assessments = 0
  /\ heard = [c \in Certifications |-> 0] /\ due = {} /\ excused = {} /\ merged = FALSE

-----------------------------------------------------------------------------
(* Certifications *)

rosterRest == <<skills, skillReq, assessments, merged>>

AddCertification(c) ==
  /\ certified[c] = NoRow /\ c \notin due
  /\ certified' = [certified EXCEPT ![c] = "new"]
  /\ UNCHANGED <<active, sweep, rosterDay, heard, due, excused, rosterRest>>

Held == UNION {sweep[p] : p \in Processes}

\* The delete waits for a sweep that holds the row.
RemoveCertification(c) ==
  /\ certified[c] # NoRow /\ c \notin Held
  /\ certified' = [certified EXCEPT ![c] = NoRow]
  /\ UNCHANGED <<active, sweep, rosterDay, heard, due, excused, rosterRest>>

PatchActive ==
  /\ active' = ~active
  /\ UNCHANGED <<certified, sweep, rosterDay, heard, due, excused, rosterRest>>

InWindow(c) == rosterDay <= ExpiresOn[c] /\ ExpiresOn[c] <= rosterDay + ExpiryWindow

Due == {c \in Certifications : active /\ certified[c] = "new" /\ InWindow(c)}

\* order by expires_on limit batch, for update skip locked.
Selected == {c \in Due \ Held : Cardinality({d \in Due \ Held : ExpiresOn[d] < ExpiresOn[c]}) < SweepBatch}

BeginSweep(p) ==
  /\ sweep[p] = {} /\ Selected # {}
  /\ sweep' = [sweep EXCEPT ![p] = Selected]
  /\ due' = due \cup Due
  /\ excused' = excused \cup ((Due \ Held) \ Selected)
  /\ UNCHANGED <<active, certified, rosterDay, heard, rosterRest>>

\* The person and the managers are told of each row, and the row says so.
CommitSweep(p) ==
  /\ sweep[p] # {}
  /\ certified' = [c \in Certifications |-> IF c \in sweep[p] THEN "told" ELSE certified[c]]
  /\ heard' = [c \in Certifications |-> IF c \in sweep[p] THEN heard[c] + 1 ELSE heard[c]]
  /\ sweep' = [sweep EXCEPT ![p] = {}]
  /\ UNCHANGED <<active, rosterDay, due, excused, rosterRest>>

\* A failed statement, or the end of the process: the marks go with the notices.
FailSweep(p) ==
  /\ sweep[p] # {}
  /\ sweep' = [sweep EXCEPT ![p] = {}]
  /\ excused' = excused \cup sweep[p]
  /\ UNCHANGED <<active, certified, rosterDay, heard, due, rosterRest>>

NextDay ==
  /\ rosterDay < MaxRosterDay
  /\ rosterDay' = rosterDay + 1
  /\ UNCHANGED <<active, certified, sweep, heard, due, excused, rosterRest>>

-----------------------------------------------------------------------------
(* Skills *)

certRest == <<active, certified, sweep, rosterDay, heard, due, excused>>

BeginSkills(t, set) ==
  /\ skillReq[t] = Resting /\ assessments < MaxAssessments
  /\ skillReq' = [skillReq EXCEPT ![t] = [at |-> "begun", set |-> set, as |-> assessments + 1]]
  /\ assessments' = assessments + 1
  /\ UNCHANGED <<skills, merged, certRest>>

Uncommitted(t) == {skillReq[u] : u \in {v \in Requests \ {t} : skillReq[v].at = "inserted"}}

\* The snapshot of the delete, which stays the same however long that waits.
DeleteSkills(t) ==
  LET r == skillReq[t]
  IN
  /\ r.at = "begun"
  /\ skillReq' = [skillReq EXCEPT ![t] = [at |-> "deleted", set |-> r.set, as |-> r.as, seen |-> skills]]
  /\ UNCHANGED <<skills, assessments, merged, certRest>>

\* The delete waits for a replacement that deleted the same rows.  The primary
\* key makes a row that exists a refusal, and one another replacement has
\* inserted a wait.
InsertSkills(t) ==
  LET r == skillReq[t]
      left == skills \ r.seen
  IN
  /\ r.at = "deleted"
  /\ \A x \in left : x[1] \notin r.set
  /\ \A o \in Uncommitted(t) : o.set \cap r.set = {} /\ o.seen \cap r.seen = {}
  /\ skillReq' = [skillReq EXCEPT ![t].at = "inserted"]
  /\ UNCHANGED <<skills, assessments, merged, certRest>>

CommitSkills(t) ==
  LET r == skillReq[t]
  IN
  /\ r.at = "inserted"
  /\ skills' = (skills \ r.seen) \cup (r.set \X {r.as})
  /\ merged' = (merged \/ skills \ r.seen # {})
  /\ skillReq' = [skillReq EXCEPT ![t] = Resting]
  /\ UNCHANGED <<assessments, certRest>>

RollbackSkills(t) ==
  /\ skillReq[t] # Resting
  /\ skillReq' = [skillReq EXCEPT ![t] = Resting]
  /\ UNCHANGED <<skills, assessments, merged, certRest>>

RosterNext ==
  \/ PatchActive \/ NextDay
  \/ \E c \in Certifications : AddCertification(c) \/ RemoveCertification(c)
  \/ \E p \in Processes : BeginSweep(p) \/ CommitSweep(p) \/ FailSweep(p)
  \/ \E t \in Requests :
       \/ \E set \in SUBSET Skills : BeginSkills(t, set)
       \/ DeleteSkills(t) \/ InsertSkills(t) \/ CommitSkills(t) \/ RollbackSkills(t)

-----------------------------------------------------------------------------
\* A certification is told of once, whichever sweeps overlap or fail.
HeardOnce == \A c \in Certifications : heard[c] <= 1

\* One that was due in a sweep has been told of, or one holds it, unless it was
\* left to a sweep that failed or to the next batch, or was removed.
DueIsHeard == \A c \in due : certified[c] = "new" => c \in Held \/ c \in excused

\* The skills are those of one assessment, unless two replacements overlapped.
SkillsOfOneAssessment == \A x, y \in skills : x[2] = y[2] \/ merged
=============================================================================
