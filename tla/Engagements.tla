----------------------------- MODULE Engagements ----------------------------
(***************************************************************************)
(* One engagement: its renewal date and notice period, edited under the    *)
(* row's version, and the daily sweep that alerts once per lead time and   *)
(* at the notice boundary and lets the status follow the date.             *)
(*                                                                         *)
(* The sweep holds the row from its read to its commit and stamps it by    *)
(* id.  Days are numbered; Leads stands for 90, 60 and 30.                 *)
(*                                                                         *)
(* Out-of-scope work on the tickets of one contract: a person or the       *)
(* container sweep flags it, the flagger withdraws or a second person      *)
(* decides, and an approval adds its allowance to the contract period.     *)
(*                                                                         *)
(* A request names the version of the ticket on the page it was made from, *)
(* takes the ticket's row lock, looks at the flag again, and compares the  *)
(* version at the write.  Two tickets meet at the row of their period.     *)
(***************************************************************************)
EXTENDS Integers, FiniteSets, FiniteSetsExt, Sequences

CONSTANTS
  Requests, None, Leads, RenewalDates, NoticePeriods, MaxToday, MaxEngagementPatches,
  ScopeTickets, People, MaxScopeEvents

VARIABLES
  engagement,    \* acct.engagements: date, notice, status, alerts fired, version
  engHolder,     \* the sweep that holds its row, or None
  today,         \* the calendar day
  engReq,        \* what each request has read
  alerted,       \* per key, the alerts sent for the present renewal date
  swept,          \* history: the sweep was done today, and no edit since
  flags,         \* acct.tickets: out_of_scope, who flagged, version, detected, closed
  flagHolder,    \* per ticket the request that holds its row, or None
  allowance,     \* acct.contract_periods: carried-over minutes and version
  allowHolder,   \* the request that holds the period's row, or None
  story,         \* acct.scope_decisions per ticket, oldest first
  scopeReq       \* what each request has seen and read

-----------------------------------------------------------------------------
(* Renewal                                                                 *)

renewalVars == <<engagement, engHolder, today, engReq, alerted, swept>>

NoticeBoundary == 0
Keys == Leads \cup {NoticeBoundary}
Horizon == Max(Leads)

NoEdit == [op |-> "idle", day |-> 0, version |-> 0, date |-> 0, notice |-> 0, status |-> None]

Days(date, day) == date - day

StatusFor(date, day) ==
  IF date = None THEN "active"
  ELSE IF Days(date, day) < 0 THEN "ended"
  ELSE IF Days(date, day) <= Horizon THEN "expiring" ELSE "active"

AlertsDue(e, day) ==
  IF Days(e.date, day) < 0 THEN {}
  ELSE {k \in Keys \ e.fired :
          IF k = NoticeBoundary THEN e.notice # None /\ Days(e.date, day) <= e.notice
          ELSE Days(e.date, day) <= k}

RenewalInit ==
  /\ \E date \in RenewalDates :
       engagement = [date |-> date, notice |-> None, status |-> StatusFor(date, 0), fired |-> {},
                     version |-> 1]
  /\ engHolder = None
  /\ today = 0
  /\ engReq = [t \in Requests |-> NoEdit]
  /\ alerted = [k \in Keys |-> 0]
  /\ swept = FALSE

Review(e, day) == e.date # None /\ e.status # "ended" /\ e.date <= day + Horizon

\* FOR UPDATE SKIP LOCKED; an engagement out of the horizon is not read.
DueForReview(t) ==
  /\ engReq[t] = NoEdit
  /\ Review(engagement, today)
  /\ engHolder = None
  /\ engHolder' = t
  /\ engReq' = [engReq EXCEPT ![t] = [NoEdit EXCEPT !.op = "sweep", !.day = today]]
  /\ UNCHANGED <<engagement, today, alerted, swept>>

\* Neither an engagement without a date nor an ended one is read.
NothingDue ==
  /\ ~Review(engagement, today)
  /\ swept' = TRUE
  /\ UNCHANGED <<engagement, engHolder, today, engReq, alerted>>

\* The alerts, the status and the ledger are one commit; nothing due stamps nothing.
Stamp(t) ==
  LET day == engReq[t].day
      due == AlertsDue(engagement, day)
      status == StatusFor(engagement.date, day)
  IN /\ engReq[t].op = "sweep"
     /\ engagement' = IF due = {} /\ status = engagement.status THEN engagement
                      ELSE [engagement EXCEPT !.fired = @ \cup due, !.status = status, !.version = @ + 1]
     /\ alerted' = [k \in Keys |-> alerted[k] + (IF k \in due THEN 1 ELSE 0)]
     /\ swept' = (day = today)
     /\ engHolder' = None
     /\ engReq' = [engReq EXCEPT ![t] = NoEdit]
     /\ UNCHANGED today

\* An edit of the date, the notice period (which needs a date) or the status.
ReadEngagement(t) ==
  /\ engReq[t] = NoEdit
  /\ engagement.version <= MaxEngagementPatches
  /\ \E date \in RenewalDates \cup {None}, notice \in NoticePeriods \cup {None},
        status \in {engagement.status, "active", "ended"} :
       /\ notice # None => date # None
       /\ engReq' = [engReq EXCEPT ![t] =
            [op |-> "patch", day |-> 0, version |-> engagement.version, date |-> date,
             notice |-> notice,
             status |-> IF status = engagement.status /\ date # engagement.date
                          THEN StatusFor(date, today) ELSE status]]
  /\ UNCHANGED <<engagement, engHolder, today, alerted, swept>>

\* Mutant: a moved renewal date keeps the ledger of the old one.
KeptLedger(moved) == engagement.fired
Ledger(moved) == IF moved THEN {} ELSE engagement.fired

PatchEngagement(t) ==
  LET r == engReq[t]
      moved == r.date # engagement.date
  IN /\ r.op = "patch"
     /\ engHolder = None
     /\ r.version = engagement.version
     /\ engagement' = [date |-> r.date, notice |-> r.notice, status |-> r.status,
                       fired |-> Ledger(moved), version |-> r.version + 1]
     /\ alerted' = IF moved THEN [k \in Keys |-> 0] ELSE alerted
     /\ swept' = FALSE
     /\ engReq' = [engReq EXCEPT ![t] = NoEdit]
     /\ UNCHANGED <<engHolder, today>>

NextToday ==
  /\ today < MaxToday
  /\ today' = today + 1
  /\ swept' = FALSE
  /\ UNCHANGED <<engagement, engHolder, engReq, alerted>>

AbortRenewal(t) ==
  /\ engReq[t] # NoEdit
  /\ engHolder' = IF engHolder = t THEN None ELSE engHolder
  /\ engReq' = [engReq EXCEPT ![t] = NoEdit]
  /\ UNCHANGED <<engagement, today, alerted, swept>>

RenewalNext ==
  \/ \E t \in Requests :
       DueForReview(t) \/ Stamp(t) \/ ReadEngagement(t) \/ PatchEngagement(t) \/ AbortRenewal(t)
  \/ NothingDue
  \/ NextToday

\* The leads have a widest one, none is the notice boundary, and no sweep is None.
RenewalConstants ==
  /\ None \notin Requests
  /\ Leads \subseteq Nat \ {NoticeBoundary}
  /\ \E widest \in Leads : \A k \in Leads : widest >= k
  /\ RenewalDates \subseteq Int /\ NoticePeriods \subseteq Nat /\ MaxToday \in Nat

RenewalSpec == RenewalInit /\ [][RenewalNext]_renewalVars

-----------------------------------------------------------------------------
RenewalTypeOK ==
  /\ engagement \in [date : RenewalDates \cup {None}, notice : NoticePeriods \cup {None},
                     status : {"active", "expiring", "ended"}, fired : SUBSET Keys, version : Nat]
  /\ engHolder \in Requests \cup {None}
  /\ today \in 0..MaxToday
  /\ alerted \in [Keys -> Nat]

\* The ledger holds the alerts sent for the present date, each sent once: a sweep
\* that read the old date never marks the new one as alerted.
AlertsOncePerDate ==
  \A k \in Keys : alerted[k] = (IF k \in engagement.fired THEN 1 ELSE 0)

LongNotice == engagement.notice # None /\ engagement.notice > Horizon

\* After a day's sweep nothing is owed any more and the status is that of the date.
\* A notice period longer than the widest lead is not looked at in time: the sweep
\* only reads engagements inside the lead.
SweptOwesNothing ==
  swept /\ engagement.date # None /\ engagement.status # "ended" =>
    /\ AlertsDue(engagement, today) \subseteq (IF LongNotice THEN {NoticeBoundary} ELSE {})
    /\ engagement.status = StatusFor(engagement.date, today)

-----------------------------------------------------------------------------
(* Out-of-scope work                                                       *)

scopeVars == <<flags, flagHolder, allowance, allowHolder, story, scopeReq>>

NoFlag == [op |-> "idle", at |-> "start", ticket |-> None, by |-> None, version |-> 0, seen |-> 0,
           minutes |-> 0, period |-> 0]

ScopeInit ==
  /\ flags = [k \in ScopeTickets |-> [scope |-> "none", by |-> None, version |-> 1,
                                      detected |-> FALSE, closed |-> FALSE]]
  /\ flagHolder = [k \in ScopeTickets |-> None]
  /\ allowance = [minutes |-> 0, version |-> 1]
  /\ allowHolder = None
  /\ story = [k \in ScopeTickets |-> <<>>]
  /\ scopeReq = [t \in Requests |-> NoFlag]

Told(k) == Len(story[k])
MoreToTell == FoldSet(LAMBDA k, n : n + Told(k), 0, ScopeTickets) < MaxScopeEvents

\* A person acts from a page: a flag, a withdrawal, a decision with an allowance.
SeeTicket(t) ==
  /\ scopeReq[t] = NoFlag
  /\ \E k \in ScopeTickets, by \in People, op \in {"flagged", "withdrawn", "approved", "declined"},
        minutes \in 0..1 :
       /\ minutes > 0 => op = "approved"
       /\ (op = "flagged") # (flags[k].scope = "flagged")
       /\ scopeReq' = [scopeReq EXCEPT ![t] =
            [NoFlag EXCEPT !.op = op, !.at = "seen", !.ticket = k, !.by = by,
                           !.version = flags[k].version, !.seen = Told(k), !.minutes = minutes]]
  /\ UNCHANGED <<flags, flagHolder, allowance, allowHolder, story>>

\* Under the lock a flag is raised where none is pending and the ticket is open,
\* withdrawn where one is, and decided by somebody who did not raise it.
MayAct(r, flag) ==
  CASE r.op = "flagged" -> flag.scope # "flagged" /\ ~flag.closed
    [] r.op = "withdrawn" -> flag.scope = "flagged" /\ ~flag.closed
    [] OTHER -> flag.scope = "flagged" /\ flag.by # r.by

LockTicket(t) ==
  LET r == scopeReq[t] IN
  /\ r.at = "seen"
  /\ flagHolder[r.ticket] = None
  /\ MayAct(r, flags[r.ticket])
  /\ flagHolder' = [flagHolder EXCEPT ![r.ticket] = t]
  /\ scopeReq' = [scopeReq EXCEPT ![t].at = IF r.minutes > 0 THEN "locked" ELSE "ready"]
  /\ UNCHANGED <<flags, allowance, allowHolder, story>>

ReadAllowance(t) ==
  /\ scopeReq[t].at = "locked"
  /\ scopeReq' = [scopeReq EXCEPT ![t].at = "period", ![t].period = allowance.version]
  /\ UNCHANGED <<flags, flagHolder, allowance, allowHolder, story>>

AddCarriedOverMinutes(t) ==
  /\ scopeReq[t].at = "period"
  /\ allowHolder = None
  /\ scopeReq[t].period = allowance.version
  /\ allowHolder' = t
  /\ scopeReq' = [scopeReq EXCEPT ![t].at = "ready"]
  /\ UNCHANGED <<flags, flagHolder, allowance, story>>

\* Mutant: the update of the ticket does not compare the page's version.
FreshAlways(r) == TRUE
Fresh(r) == r.version = flags[r.ticket].version

Answered(flag, r) ==
  [flag EXCEPT !.scope = IF r.op = "withdrawn" THEN "none" ELSE r.op, !.version = @ + 1,
               !.by = IF r.op = "flagged" THEN r.by ELSE @]

CommitScope(t) ==
  LET r == scopeReq[t]
      k == r.ticket
  IN /\ r.at = "ready"
     /\ Fresh(r)
     /\ MoreToTell
     /\ flags' = [flags EXCEPT ![k] = Answered(@, r)]
     /\ story' = [story EXCEPT ![k] = Append(@, [event |-> r.op, by |-> r.by, seen |-> r.seen,
                                                  minutes |-> r.minutes])]
     /\ allowance' = IF allowHolder = t
                       THEN [minutes |-> allowance.minutes + r.minutes, version |-> allowance.version + 1]
                       ELSE allowance
     /\ allowHolder' = IF allowHolder = t THEN None ELSE allowHolder
     /\ flagHolder' = [flagHolder EXCEPT ![k] = None]
     /\ scopeReq' = [scopeReq EXCEPT ![t] = NoFlag]

\* The sweep locks an open ticket past a threshold that nobody flagged or holds.
Candidate(k) ==
  /\ ~flags[k].detected /\ ~flags[k].closed /\ flags[k].scope = "none"
  /\ flagHolder[k] = None

Sweep(t) ==
  /\ scopeReq[t] = NoFlag
  /\ \E k \in ScopeTickets :
       /\ Candidate(k)
       /\ flagHolder' = [flagHolder EXCEPT ![k] = t]
       /\ scopeReq' = [scopeReq EXCEPT ![t] = [NoFlag EXCEPT !.op = "sweep", !.at = "swept",
                                                 !.ticket = k]]
  /\ UNCHANGED <<flags, allowance, allowHolder, story>>

Detected(flag) ==
  [flag EXCEPT !.scope = "flagged", !.by = "system", !.detected = TRUE, !.version = @ + 1]

Raise(t) ==
  LET k == scopeReq[t].ticket IN
  /\ scopeReq[t].at = "swept"
  /\ MoreToTell
  /\ flags' = [flags EXCEPT ![k] = Detected(@)]
  /\ story' = [story EXCEPT ![k] = Append(@, [event |-> "flagged", by |-> "system", seen |-> Told(k),
                                               minutes |-> 0])]
  /\ flagHolder' = [flagHolder EXCEPT ![k] = None]
  /\ scopeReq' = [scopeReq EXCEPT ![t] = NoFlag]
  /\ UNCHANGED <<allowance, allowHolder>>

\* The ticket is closed by its own life cycle.
CloseTicket ==
  /\ \E k \in ScopeTickets :
       /\ ~flags[k].closed
       /\ flagHolder[k] = None
       /\ flags' = [flags EXCEPT ![k].closed = TRUE, ![k].version = @ + 1]
  /\ UNCHANGED <<flagHolder, allowance, allowHolder, story, scopeReq>>

\* A conflict, a failed statement, a crash.
AbortScope(t) ==
  /\ scopeReq[t] # NoFlag
  /\ flagHolder' = [k \in ScopeTickets |-> IF flagHolder[k] = t THEN None ELSE flagHolder[k]]
  /\ allowHolder' = IF allowHolder = t THEN None ELSE allowHolder
  /\ scopeReq' = [scopeReq EXCEPT ![t] = NoFlag]
  /\ UNCHANGED <<flags, allowance, story>>

ScopeNext ==
  \/ \E t \in Requests :
       \/ SeeTicket(t) \/ LockTicket(t) \/ ReadAllowance(t) \/ AddCarriedOverMinutes(t)
       \/ CommitScope(t) \/ Sweep(t) \/ Raise(t) \/ AbortScope(t)
  \/ CloseTicket

\* Nobody who acts is the sweep itself, and no transaction is called None.
ScopeConstants == "system" \notin People /\ None \notin Requests

ScopeSpec == ScopeInit /\ [][ScopeNext]_scopeVars

-----------------------------------------------------------------------------
Decisions == {"approved", "declined"}

ScopeTypeOK ==
  /\ \A k \in ScopeTickets :
       /\ flags[k] \in [scope : {"none", "flagged"} \cup Decisions, by : People \cup {"system", None},
                        version : Nat, detected : BOOLEAN, closed : BOOLEAN]
       /\ story[k] \in Seq([event : {"flagged", "withdrawn"} \cup Decisions,
                            by : People \cup {"system"}, seen : Nat, minutes : 0..1])
  /\ allowance \in [minutes : Nat, version : Nat]

\* The append-only record is a story: a flag, then its withdrawal or a decision,
\* and the ticket's column is where the story stands.
RecordTellsStory ==
  \A k \in ScopeTickets :
    /\ \A i \in DOMAIN story[k] : (story[k][i].event = "flagged") = (i % 2 = 1)
    /\ flags[k].scope = IF Told(k) = 0 \/ story[k][Told(k)].event = "withdrawn" THEN "none"
                        ELSE story[k][Told(k)].event

\* A decision is on the flag its maker saw, raised by somebody else.
DecidedWhatWasSeen ==
  \A k \in ScopeTickets : \A i \in DOMAIN story[k] :
    /\ story[k][i].seen = i - 1
    /\ story[k][i].event \in Decisions => story[k][i].by # story[k][i - 1].by

\* The approvals of the record that granted an allowance.
Granted ==
  UNION {{<<k, i>> : i \in {j \in DOMAIN story[k] : story[k][j].minutes = 1}} : k \in ScopeTickets}

\* Each recorded approval added its allowance to the period exactly once.
AllowancesAddUp == allowance.minutes = Cardinality(Granted)

\* The sweep flags a ticket at most once in its life, whatever people decide.
DetectedOnce ==
  \A k \in ScopeTickets :
    Cardinality({i \in DOMAIN story[k] : story[k][i].by = "system"}) <= 1
=============================================================================
