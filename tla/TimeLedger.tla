----------------------------- MODULE TimeLedger -----------------------------
(***************************************************************************)
(* One person's time on one contract and everything that is read from it:  *)
(* the timesheet, the consumption of the contract periods, the finance     *)
(* lines, the margin and the comp-time report.                             *)
(*                                                                         *)
(* A day stands for a contract period and a billing period at once; the    *)
(* billing periods are closed by their approval (Billing has their races   *)
(* and those of the consumption).  Entries are never changed: what is      *)
(* wrong is corrected by an adjustment, dated on the entry's day or, when  *)
(* that is closed, on the current one.                                     *)
(***************************************************************************)
EXTENDS Integers, Sequences, FiniteSets, SequencesExt

CONSTANTS LastDay, OffDays, LedgerSizes, Corrections, Allotted, CarryCap, Cards, MaxLedger, None

VARIABLES
  terms,      \* the contract: rollover, after-hours handling; when the cost rate starts
  ledgerDay,  \* today
  approved,   \* days whose billing period is approved or later
  entries,    \* acct.time_entries, oldest first
  fixes,      \* acct.time_adjustments, oldest first
  carriedTo,  \* acct.contract_periods: the minutes carried into each, None where there is none
  crossedOn,  \* the periods whose threshold of 100% has fired
  frozen,     \* history: the lines of a day when it was approved
  spent,      \* history: periods that were charged after a later one was opened
  openedLate  \* history: periods that had lines when they were opened

ledgerVars == <<terms, ledgerDay, approved, entries, fixes, carriedTo, crossedOn, frozen, spent,
                openedLate>>

Days == 1..LastDay
Classes == {"billable", "internal"}
Consumes(class) == class = "billable"

LedgerInit ==
  /\ terms \in [rollover : {"carry_month", "cap"}, handling : {"premium_rate", "comp_time"},
                costFrom : {1, 2}]
  /\ ledgerDay = 1
  /\ approved = {}
  /\ entries = <<>>
  /\ fixes = <<>>
  /\ carriedTo = [d \in Days |-> IF d = 1 THEN 0 ELSE None]
  /\ crossedOn = {}
  /\ frozen = [d \in Days |-> <<>>]
  /\ spent = {}
  /\ openedLate = {}

-----------------------------------------------------------------------------
(* What is read from the rows.                                             *)

Total(numbers) == FoldSeq(LAMBDA x, y : x + y, 0, numbers)

Minutes(lines) == Total([i \in DOMAIN lines |-> lines[i].minutes])

\* The entries and adjustments dated in the given days, in that order.
LinesOf(days, es, fs) ==
  LET dated(r) == r.day \in days
      asLine(f) == [kind |-> "adjustment", of |-> f.entry, day |-> f.day, minutes |-> f.delta,
                    class |-> IF f.class = None THEN es[f.entry].class ELSE f.class,
                    rate |-> es[f.entry].rate]
      own(e) == [kind |-> "entry", of |-> e, day |-> es[e].day, minutes |-> es[e].minutes,
                 class |-> es[e].class, rate |-> es[e].rate]
  IN SelectSeq([e \in DOMAIN es |-> own(e)], dated)
     \o SelectSeq([f \in DOMAIN fs |-> asLine(fs[f])], dated)

FinanceLinesOf(days) == LinesOf(days, entries, fixes)

\* A period's consumption: the lines of classes that consume the contract.
ConsumedIn(d, es, fs) == Minutes(SelectSeq(LinesOf({d}, es, fs), LAMBDA l : Consumes(l.class)))

Adjusted(e, fs) ==
  entries[e].minutes
    + Total([f \in DOMAIN fs |-> IF fs[f].entry = e THEN fs[f].delta ELSE 0])

\* The timesheet shows an entry's adjusted minutes on the day it was performed.
Timesheet(d) ==
  Total([e \in DOMAIN entries |-> IF entries[e].day = d THEN Adjusted(e, fixes) ELSE 0])

\* The card in force is the contract's, else the account's, latest first.
RateFor(day) ==
  LET inForce == {c \in Cards : c.from <= day}
      scope == IF \E c \in inForce : c.own THEN {c \in inForce : c.own} ELSE inForce
  IN IF inForce = {} THEN None
     ELSE (CHOOSE c \in scope : \A o \in scope : o.from <= c.from).rate

\* Work is after hours on a day off, and on a working day when its person says so.
AfterHours(day, asserted) == day \in OffDays \/ asserted

\* The cost rate is looked up for people with an entry in the window.
CostKnown(line, days) ==
  /\ \E e \in DOMAIN entries : entries[e].day \in days
  /\ terms.costFrom <= line.day

WithoutCost(days) ==
  Minutes(SelectSeq(FinanceLinesOf(days), LAMBDA l : ~CostKnown(l, days)))

CompTime ==
  {e \in DOMAIN entries : entries[e].afterHours /\ entries[e].multiplier = 1
                          /\ terms.handling = "comp_time"}

Available(d) == Allotted + carriedTo[d]

\* The threshold is judged for a period that exists and has minutes to spend.
Crossings(d, es, fs) ==
  IF carriedTo[d] # None /\ Available(d) > 0 /\ ConsumedIn(d, es, fs) >= Available(d)
    THEN {d} ELSE {}

-----------------------------------------------------------------------------
ChargedLate(days) == {d \in days : \E n \in Days : n > d /\ carriedTo[n] # None}

\* Time is logged on a ticket or a bucket: not ahead, not into a closed period.
LogTime ==
  /\ Len(entries) + Len(fixes) < MaxLedger
  /\ \E day \in 1..ledgerDay, minutes \in LedgerSizes, class \in Classes, asserted \in BOOLEAN :
       LET afterHours == AfterHours(day, asserted)
           over == /\ carriedTo[day] # None
                   /\ Consumes(class)
                   /\ Available(day) > 0
                   /\ ConsumedIn(day, entries, fixes) + minutes > Available(day)
           entry == [day |-> day, minutes |-> minutes, class |-> class, rate |-> RateFor(day),
                     afterHours |-> afterHours, over |-> over,
                     multiplier |-> (IF afterHours /\ terms.handling = "premium_rate" THEN 2 ELSE 1)
                                      * (IF over THEN 3 ELSE 1)]
       IN /\ day \notin approved
          /\ entries' = Append(entries, entry)
          /\ crossedOn' = crossedOn \cup
               (IF Consumes(class) THEN Crossings(day, entries', fixes) ELSE {})
          /\ spent' = spent \cup ChargedLate({day})
  /\ UNCHANGED <<terms, ledgerDay, approved, fixes, carriedTo, frozen, openedLate>>

\* A correction is dated today when the entry's period is closed, and then
\* refused if today's is closed too; it changes the class of its own minutes.
Adjust ==
  /\ Len(entries) + Len(fixes) < MaxLedger
  /\ \E e \in DOMAIN entries, delta \in Corrections, class \in Classes \cup {None} :
       LET performed == entries[e].day
           dated == IF performed \in approved THEN ledgerDay ELSE performed
       IN /\ Adjusted(e, fixes) + delta >= 0
          /\ dated \notin approved
          /\ fixes' = Append(fixes, [entry |-> e, day |-> dated, delta |-> delta, class |-> class])
          /\ crossedOn' = crossedOn \cup Crossings(performed, entries, fixes')
          /\ spent' = spent \cup ChargedLate({dated})
  /\ UNCHANGED <<terms, ledgerDay, approved, entries, carriedTo, frozen, openedLate>>

\* carry_month carries what is left of the contracted minutes, cap all that is
\* left up to the cap.
CarryOver(previous) ==
  LET left == Allotted - ConsumedIn(previous, entries, fixes)
      most(a, b) == IF a > b THEN a ELSE b
      all == most(left + carriedTo[previous], 0)
  IN IF terms.rollover = "carry_month" THEN most(left, 0)
     ELSE IF all > CarryCap THEN CarryCap ELSE all

OpenPeriod(d) ==
  /\ d - 1 \in Days /\ carriedTo[d - 1] # None
  /\ carriedTo[d] = None
  /\ carriedTo' = [carriedTo EXCEPT ![d] = CarryOver(d - 1)]
  /\ openedLate' = IF FinanceLinesOf({d}) = <<>> THEN openedLate ELSE openedLate \cup {d}
  /\ UNCHANGED <<terms, ledgerDay, approved, entries, fixes, crossedOn, frozen, spent>>

ApproveDay(d) ==
  /\ d \notin approved
  /\ approved' = approved \cup {d}
  /\ frozen' = [frozen EXCEPT ![d] = FinanceLinesOf({d})]
  /\ UNCHANGED <<terms, ledgerDay, entries, fixes, carriedTo, crossedOn, spent, openedLate>>

LedgerDayPasses ==
  /\ ledgerDay < LastDay
  /\ ledgerDay' = ledgerDay + 1
  /\ UNCHANGED <<terms, approved, entries, fixes, carriedTo, crossedOn, frozen, spent, openedLate>>

LedgerNext ==
  \/ LogTime
  \/ Adjust
  \/ \E d \in Days : OpenPeriod(d) \/ ApproveDay(d)
  \/ LedgerDayPasses

LedgerSpec == LedgerInit /\ [][LedgerNext]_ledgerVars

-----------------------------------------------------------------------------
LedgerTypeOK ==
  /\ ledgerDay \in Days
  /\ approved \subseteq Days
  /\ \A e \in DOMAIN entries : entries[e].day \in Days /\ entries[e].minutes \in LedgerSizes
  /\ \A f \in DOMAIN fixes : fixes[f].entry \in DOMAIN entries /\ fixes[f].day \in Days
  /\ carriedTo \in [Days -> Nat \cup {None}]
  /\ crossedOn \subseteq Days /\ spent \subseteq Days /\ openedLate \subseteq Days

\* Adjustments dated in one set of days that correct entries of other days.
Moved(days) ==
  {f \in DOMAIN fixes : (fixes[f].day \in days) # (entries[fixes[f].entry].day \in days)}

\* An approved day's lines are those it was approved with, whatever is corrected.
ApprovedDaysKeepTheirLines == \A d \in approved : FinanceLinesOf({d}) = frozen[d]

\* The timesheet and the finance lines of a day agree, but for corrections that
\* had to be dated elsewhere; over all days they agree always.
TimesheetsAgree ==
  /\ \A d \in Days : Moved({d}) = {} => Timesheet(d) = Minutes(FinanceLinesOf({d}))
  /\ Total([d \in Days |-> Timesheet(d)]) = Minutes(FinanceLinesOf(Days))

\* A period whose minutes are gone has alerted, unless it was opened over lines
\* or the minutes of another period's entries were dated into it.
SpentPeriodsAlert ==
  \A d \in Days :
    Crossings(d, entries, fixes) \subseteq crossedOn \cup openedLate \/ Moved({d}) # {}

\* No more is carried on than was left, unless the period was charged again.
CarriedWasLeft ==
  \A d \in Days \ {1} :
    carriedTo[d] # None /\ d - 1 \notin spent => carriedTo[d] = CarryOver(d - 1)

\* Minutes reported as of unknown cost are those from before the cost rate
\* starts, but for a window that holds only corrections of older entries.
UnknownCostIsUnknown ==
  \A d \in Days :
    Moved({d}) = {} => WithoutCost({d}) = (IF d < terms.costFrom THEN Minutes(FinanceLinesOf({d}))
                                           ELSE 0)

\* After-hours work is paid a premium or counted for comp time, unless it was
\* also over the budget of a comp-time contract.
AfterHoursCounted ==
  \A e \in DOMAIN entries :
    entries[e].afterHours => entries[e].multiplier > 1 \/ e \in CompTime

LedgerHolds ==
  /\ ApprovedDaysKeepTheirLines
  /\ TimesheetsAgree
  /\ SpentPeriodsAlert
  /\ CarriedWasLeft
  /\ UnknownCostIsUnknown
  /\ AfterHoursCounted
=============================================================================
