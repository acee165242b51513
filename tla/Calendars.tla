------------------------------ MODULE Calendars -----------------------------
(***************************************************************************)
(* Working time across a change of the clocks:                             *)
(* src/src/domain/calendar/business-calendar.ts.                           *)
(*                                                                         *)
(* A behaviour takes one calendar, one instant and one number of minutes   *)
(* through addMinutes, then minutesBetween, then nextWorkingInstant, a     *)
(* step for each turn of their loops.  A day has DayMinutes minutes and    *)
(* every other day is a working day of the second kind; instants are       *)
(* whole minutes of UTC; the zone data, which comes from Intl, is an       *)
(* offset before and after one change.                                     *)
(*                                                                         *)
(* One calendar of an account, the requests that edit it and the copy each *)
(* process keeps of it: patch, invalidate and byId of                      *)
(* src/src/modules/calendars/calendars.module.ts.                          *)
(*                                                                         *)
(* The API and the worker each have a cache of their own.  An entry is     *)
(* dropped after a minute, which here is at any time, and by the patches   *)
(* of its own process, before they commit.                                 *)
(***************************************************************************)
EXTENDS Integers, FiniteSets, Sequences

CONSTANTS
  DayMinutes,
  Zones,               \* records of the offsets before and after the change, and its instant
  WorkHours,           \* pairs of the hours minutes of the two kinds of day
  HolidaySets, MaxFrom, MaxWork, Requests, Processes,
  Slots,               \* working intervals, none of which overlap
  MaxCalendarPatches   \* bound on patches

VARIABLES
  zone, working, holidays, from, work,  \* the input
  loop,   \* the function that runs: its day, its minute of the day, the day whose hours it reads
  due,    \* what addMinutes answered
  total,  \* what minutesBetween answered
  next,    \* what nextWorkingInstant answered
  calendar,  \* fields, version, status and hours of the row; whether it is the account's default
  calReq,    \* the patches in progress
  cache,     \* what each process keeps
  filling,   \* a read of the calendar that has the row and not yet the hours
  commits,   \* the process of each committed patch
  inForce,   \* history: pairs of fields and hours that were ever committed
  mixed,     \* history: two replacements of the hours overlapped
  loopholes  \* history: a retired calendar was made the default

-----------------------------------------------------------------------------
(* Working time                                                            *)

calendarVars == <<zone, working, holidays, from, work, loop, due, total, next>>

Offset(t) == IF t < zone.at THEN zone.before ELSE zone.after
(* localParts, as minutes of the local calendar.                           *)
Local(t) == t + Offset(t)
DayOf(l) == l \div DayMinutes
MinuteOf(l) == l % DayMinutes

InstantOf(l) == l - Offset(l - Offset(l))

Intervals(day) == IF day \in holidays THEN {} ELSE working[1 + (day % 2)]

IsWorkingTime(t) == MinuteOf(Local(t)) \in Intervals(DayOf(Local(t)))

StartLoop(name, t) ==
  [fn |-> name, day |-> DayOf(Local(t)), minute |-> MinuteOf(Local(t)), reads |-> DayOf(Local(t)),
   left |-> work, first |-> TRUE]

(* The day after, read by the local date its midnight falls on.            *)
NextDay ==
  LET seen == DayOf(Local(InstantOf(DayMinutes * (loop.day + 1))))
  IN  [loop EXCEPT !.day = @ + 1, !.minute = 0, !.reads = seen, !.first = FALSE]

CalendarTypeOK ==
  /\ zone \in Zones /\ working \in WorkHours /\ holidays \in HolidaySets
  /\ from \in 0 .. MaxFrom /\ work \in 0 .. MaxWork
  /\ loop.fn \in {"addMinutes", "minutesBetween", "nextWorkingInstant", "done"}
  /\ due \in Int /\ total \in Nat /\ next \in Int

CalendarInit ==
  /\ zone \in Zones /\ working \in WorkHours /\ holidays \in HolidaySets
  /\ from \in 0 .. MaxFrom /\ work \in 0 .. MaxWork
  /\ loop = StartLoop("addMinutes", from)
  /\ due = from /\ total = 0 /\ next = from

Input == <<zone, working, holidays, from, work>>

(* The minutes of the loop's day it has not yet passed.                    *)
Ahead == {m \in Intervals(loop.reads) : m >= loop.minute}
Nth(S, n) == CHOOSE m \in S : Cardinality({k \in S : k <= m}) = n

AddMinutes ==
  /\ loop.fn = "addMinutes"
  /\ IF loop.left <= Cardinality(Ahead)
     THEN /\ due' = IF loop.left = 0 THEN from
                    ELSE InstantOf(DayMinutes * loop.day + Nth(Ahead, loop.left) + 1)
          /\ loop' = StartLoop("minutesBetween", from)
     ELSE loop' = [NextDay EXCEPT !.left = loop.left - Cardinality(Ahead)] /\ UNCHANGED due
  /\ UNCHANGED <<Input, total, next>>

(* It ends on the day its hours are read from, not on the day it counts.   *)
MinutesBetween ==
  LET end  == Local(due)
      last == loop.reads = DayOf(end)
      counted == {m \in Intervals(loop.reads) :
                    m >= (IF loop.first THEN loop.minute ELSE 0) /\ (last => m < MinuteOf(end))}
  IN
  /\ loop.fn = "minutesBetween"
  /\ IF due <= from
     THEN loop' = StartLoop("nextWorkingInstant", from) /\ UNCHANGED total
     ELSE /\ total' = total + Cardinality(counted)
          /\ IF last \/ NextDay.reads > DayOf(end)
             THEN loop' = StartLoop("nextWorkingInstant", from)
             ELSE loop' = NextDay
  /\ UNCHANGED <<Input, due, next>>

NextWorkingInstant ==
  /\ loop.fn = "nextWorkingInstant"
  /\ IF Ahead # {}
     THEN /\ next' = IF loop.first /\ loop.minute \in Ahead THEN from
                     ELSE InstantOf(DayMinutes * loop.day + Nth(Ahead, 1))
          /\ loop' = [loop EXCEPT !.fn = "done"]
     ELSE loop' = NextDay /\ UNCHANGED next
  /\ UNCHANGED <<Input, due, total>>

CalendarNext == AddMinutes \/ MinutesBetween \/ NextWorkingInstant

-----------------------------------------------------------------------------
(* The definition: working minutes on the local clock, counted one by one. *)
WorkingBetween(s, t) ==
  Cardinality({l \in Local(s) .. Local(t) - 1 : MinuteOf(l) \in Intervals(DayOf(l))})

Forward == zone.before < zone.after
\* Local minutes the change leaves out, or runs through twice.
Gap  == IF Forward THEN zone.at + zone.before .. zone.at + zone.after - 1 ELSE {}
Fold == IF Forward THEN {} ELSE zone.at + zone.after .. zone.at + zone.before - 1
\* West of Greenwich instantOf puts a midnight that is left out on the day before.
NoMidnight == zone.before < 0 /\ \E l \in Gap : MinuteOf(l) = 0
Added == loop.fn # "addMinutes"
Counted == loop.fn \in {"nextWorkingInstant", "done"}

\* The instant addMinutes answers has the wanted working minutes of the local
\* clock before it, whatever the clocks do in between, unless the local time
\* it aims at does not exist or the zone leaves a midnight out.  It lies in
\* the future, except for an instant in the hour that is run through twice.
DueIsCounted ==
  Added /\ work > 0 =>
    \/ WorkingBetween(from, due) = work /\ (due > from \/ Local(from) \in Fold)
    \/ NoMidnight
    \/ \E l \in Gap : due = InstantOf(l)

\* minutesBetween undoes addMinutes, with the same two exceptions and for an
\* instant in the hour that is run through twice.
BetweenUndoesAdd ==
  Counted /\ total # work =>
    NoMidnight \/ Local(from) \in Fold \/ \E l \in Gap : due = InstantOf(l)

\* The next working instant is a working one, at or after the given one, and
\* no working minute of the local clock lies between them.
NextIsWorking ==
  loop.fn = "done" =>
    NoMidnight \/ Local(from) \in Fold \/ (\E l \in Gap : next = InstantOf(l))
      \/ (IsWorkingTime(next) /\ next >= from /\ WorkingBetween(from, next) = 0)

-----------------------------------------------------------------------------
(* The calendar and its copies                                             *)

calendarsVars == <<calendar, calReq, cache, filling, commits, inForce, mixed, loopholes>>

Absent == [at |-> "absent"]
Edits == {{"fields"}, {"hours"}, {"retire"}, {"default"}, {"fields", "hours"}, {"retire", "default"}}
HoursOf(edits) == IF "hours" \in edits THEN (SUBSET Slots) \ {{}} ELSE {{}}

\* A row of acct.calendar_hours is known by its slot and the patch that made it.
Rows == Slots \X (0 .. MaxCalendarPatches)
SlotsOf(rows) == {row[1] : row \in rows}

CalendarsTypeOK ==
  /\ calendar \in [fields : 0 .. MaxCalendarPatches, version : 1 .. MaxCalendarPatches + 1,
                   retired : BOOLEAN, isDefault : BOOLEAN, hours : SUBSET Rows]
  /\ \A t \in Requests : calReq[t].at \in {"absent", "begun", "deleting", "written"}
  /\ \A p \in Processes : cache[p].at \in {"absent", "kept"} /\ filling[p].at \in {"absent", "row"}
  /\ commits \in Seq(Processes) /\ mixed \in BOOLEAN /\ loopholes \in BOOLEAN

CalendarsInit ==
  /\ \E slots \in (SUBSET Slots) \ {{}} :
       calendar = [fields |-> 0, version |-> 1, retired |-> FALSE, isDefault |-> TRUE,
                   hours |-> slots \X {0}]
  /\ calReq = [t \in Requests |-> Absent]
  /\ cache = [p \in Processes |-> Absent] /\ filling = [p \in Processes |-> Absent]
  /\ commits = <<>> /\ inForce = {<<calendar.fields, calendar.hours>>}
  /\ mixed = FALSE /\ loopholes = FALSE

Begun == Cardinality({t \in Requests : calReq[t].at # "absent"}) + Len(commits)

(* The caller has the version it read with the calendar.                   *)
Begin(t, p, edits, slots) ==
  /\ calReq[t] = Absent /\ Begun < MaxCalendarPatches
  /\ calReq' = [calReq EXCEPT ![t] =
       [at |-> "begun", by |-> p, edits |-> edits, slots |-> slots, version |-> calendar.version]]
  /\ UNCHANGED <<calendar, cache, filling, commits, inForce, mixed, loopholes>>

\* The fields a patch assigns bring the version check and the row's lock;
\* hours and the default alone bring neither.
Versioned(r) == r.edits \cap {"fields", "retire"} # {}
Others(t, states) == {calReq[u] : u \in {v \in Requests \ {t} : calReq[v].at \in states}}

(* update, and the snapshot of replaceHours' delete.                       *)
Update(t) ==
  LET r == calReq[t]
  IN
  /\ r.at = "begun"
  /\ Versioned(r) =>
       r.version = calendar.version /\ \A o \in Others(t, {"deleting", "written"}) : ~Versioned(o)
  /\ calReq' = [calReq EXCEPT ![t] =
       [at |-> "deleting", by |-> r.by, edits |-> r.edits, slots |-> r.slots, seen |-> calendar.hours]]
  /\ UNCHANGED <<calendar, cache, filling, commits, inForce, mixed, loopholes>>

Invalidated(p) == [cache EXCEPT ![p] = Absent]

(* The delete waits for a replacement that is not committed; the rows that *)
(* one inserts it does not see.  ex_calendar_hours_overlap compares all.   *)
Replace(t) ==
  LET r == calReq[t]
      replaces == "hours" \in r.edits
      default == IF "retire" \in r.edits /\ (calendar.isDefault \/ "default" \in r.edits) THEN "cleared"
                 ELSE IF "default" \in r.edits THEN "set" ELSE "kept"
  IN
  /\ r.at = "deleting"
  /\ replaces =>
       /\ \A o \in Others(t, {"written"}) : "hours" \notin o.edits
       /\ SlotsOf(calendar.hours \ r.seen) \cap r.slots = {}
  /\ default # "kept" => \A o \in Others(t, {"written"}) : o.default = "kept"
  /\ calReq' = [calReq EXCEPT ![t] =
       [at |-> "written", by |-> r.by, edits |-> r.edits, slots |-> r.slots, seen |-> r.seen,
        default |-> default]]
  /\ cache' = Invalidated(r.by)
  /\ filling' = IF filling[r.by] = Absent THEN filling ELSE [filling EXCEPT ![r.by].crossed = TRUE]
  /\ UNCHANGED <<calendar, commits, inForce, mixed, loopholes>>

Commit(t) ==
  LET r == calReq[t]
      n == Len(commits) + 1
      replaced == (calendar.hours \ r.seen) \cup (r.slots \X {n})
  IN
  /\ r.at = "written"
  /\ calendar' =
       [fields |-> IF "fields" \in r.edits THEN n ELSE calendar.fields,
        version |-> IF Versioned(r) THEN calendar.version + 1 ELSE calendar.version,
        retired |-> calendar.retired \/ "retire" \in r.edits,
        isDefault |-> CASE r.default = "set" -> TRUE [] r.default = "cleared" -> FALSE
                        [] OTHER -> calendar.isDefault,
        hours |-> IF "hours" \in r.edits THEN replaced ELSE calendar.hours]
  /\ calReq' = [calReq EXCEPT ![t] = Absent]
  /\ commits' = Append(commits, r.by)
  /\ inForce' = inForce \cup {<<calendar'.fields, calendar'.hours>>}
  /\ mixed' = (mixed \/ ("hours" \in r.edits /\ calendar.hours \ r.seen # {}))
  /\ loopholes' = (loopholes \/ (r.default = "set" /\ calendar.retired))
  /\ UNCHANGED <<cache, filling>>

Refuse(t) ==
  /\ calReq[t] # Absent
  /\ calReq' = [calReq EXCEPT ![t] = Absent]
  /\ UNCHANGED <<calendar, cache, filling, commits, inForce, mixed, loopholes>>

(* byId without a usable entry: the row, then the hours, then the entry.   *)
ReadRow(p) ==
  /\ cache[p] = Absent /\ filling[p] = Absent
  /\ filling' = [filling EXCEPT ![p] =
       [at |-> "row", fields |-> calendar.fields, after |-> Len(commits),
        crossed |-> \E t \in Requests : calReq[t].at = "written" /\ calReq[t].by = p]]
  /\ UNCHANGED <<calendar, calReq, cache, commits, inForce, mixed, loopholes>>

Keep(p) ==
  LET f == filling[p]
  IN
  /\ f.at = "row"
  /\ cache' = [cache EXCEPT ![p] =
       [at |-> "kept", fields |-> f.fields, hours |-> calendar.hours, after |-> f.after,
        torn |-> f.after # Len(commits), crossed |-> f.crossed]]
  /\ filling' = [filling EXCEPT ![p] = Absent]
  /\ UNCHANGED <<calendar, calReq, commits, inForce, mixed, loopholes>>

Expire(p) ==
  /\ cache[p] # Absent
  /\ cache' = [cache EXCEPT ![p] = Absent]
  /\ UNCHANGED <<calendar, calReq, filling, commits, inForce, mixed, loopholes>>

CalendarsNext ==
  \/ \E t \in Requests :
       \/ \E p \in Processes, edits \in Edits : \E slots \in HoursOf(edits) :
            Begin(t, p, edits, slots)
       \/ Update(t) \/ Replace(t) \/ Commit(t) \/ Refuse(t)
  \/ \E p \in Processes : ReadRow(p) \/ Keep(p) \/ Expire(p)

-----------------------------------------------------------------------------
\* The hours are those of one patch, however many were saved at once, unless
\* two replacements of the hours overlapped.
HoursOfOnePatch == \A x, y \in calendar.hours : x[2] = y[2] \/ mixed

\* A process computes with the calendar in force, up to patches made in other
\* processes and to reads that ran beside a patch of its own.
CopyIsCurrent ==
  \A p \in Processes :
    LET e == cache[p]
    IN  e.at = "kept" /\ <<e.fields, e.hours>> # <<calendar.fields, calendar.hours>> =>
          e.crossed \/ \E i \in e.after + 1 .. Len(commits) : commits[i] # p

\* It computes with fields and hours that belong together, unless a patch
\* committed between its two queries.
CopyIsWhole ==
  \A p \in Processes :
    cache[p].at = "kept" /\ ~cache[p].torn => <<cache[p].fields, cache[p].hours>> \in inForce

\* A retired calendar is not the account's default, unless it was made that
\* afterwards.
DefaultIsInUse == calendar.retired /\ calendar.isDefault => loopholes
=============================================================================
