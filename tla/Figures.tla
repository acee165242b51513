------------------------------ MODULE Figures ------------------------------
(***************************************************************************)
(* The figures of one account: computeMeasures of                          *)
(* src/src/domain/reporting/measures.ts over the rows it is given, as the  *)
(* weekly and the quarterly pack freeze them (generateWsr, buildWsr and    *)
(* buildQbr of src/src/modules/reporting/reporting.service.ts) and the     *)
(* nightly snapshot keeps them (reporting.module.ts).                      *)
(*                                                                         *)
(* Nothing is stored when a ticket moves: every figure is computed from    *)
(* the rows as they are when it is asked for.  A figure is modelled by the *)
(* set of tickets or lines it counts, instants are days, and a period is   *)
(* PeriodDays days, the weeks of one kind of pack and the quarters of the  *)
(* other.                                                                  *)
(*                                                                         *)
(* The health score of an account: computeHealth of                        *)
(* src/src/domain/reporting/health.ts.  A behaviour takes one account and  *)
(* changes one of the facts the score is computed from.  Scores are in     *)
(* tenths of a point, which is how finely the code rounds them.            *)
(***************************************************************************)
EXTENDS Integers, Sequences, FiniteSets, FiniteSetsExt

CONSTANTS
  None,
  Reported,     \* tickets of the account
  PeriodDays,
  LastReportDay,
  MaxMade,      \* bounds: packs and snapshots together; lines and reopenings together
  MaxUnsettled

VARIABLES
  today,
  facts,      \* acct.tickets: days opened, resolved and last updated, and whether closed
  logged,     \* acct.time_entries in the order logged: the day the work was done
  packs,      \* acct.report_packs in the order made: period and frozen figures
  snapshots,  \* rpt.daily_snapshots by day
  reopened,   \* history: the tickets that were reopened, the day, and the number of packs before
  account,    \* the facts the score is computed from
  was         \* the score's facts before the change, or None

-----------------------------------------------------------------------------
(* Packs and snapshots                                                     *)

figuresVars == <<today, facts, logged, packs, snapshots, reopened>>

ReportDays == 0 .. LastReportDay
NoFacts == [opened |-> None, resolved |-> None, closed |-> FALSE, touched |-> None]

FiguresTypeOK ==
  /\ today \in ReportDays
  /\ \A k \in Reported : facts[k] = NoFacts \/
       /\ facts[k].opened \in ReportDays /\ facts[k].touched \in ReportDays
       /\ facts[k].resolved \in ReportDays \cup {None} /\ facts[k].closed \in BOOLEAN
  /\ logged \in Seq(ReportDays) /\ Len(logged) <= MaxUnsettled
  /\ Len(packs) <= MaxMade
  /\ \A n \in DOMAIN packs : packs[n].kind \in {"wsr", "qbr"} /\ packs[n].start \in ReportDays
  /\ \A d \in ReportDays : snapshots[d] = None \/ snapshots[d].resolved \subseteq Reported
  /\ \A r \in reopened : r.of \in Reported /\ r.on \in ReportDays /\ r.after \in 0 .. MaxMade

FiguresInit ==
  /\ today = 0
  /\ facts = [k \in Reported |-> NoFacts]
  /\ logged = <<>> /\ packs = <<>>
  /\ snapshots = [d \in ReportDays |-> None]
  /\ reopened = {}

\* ticketFacts: what is still worked on, and what was touched since.
FactsSince(since) ==
  {k \in Reported : facts[k] # NoFacts /\ (~facts[k].closed \/ facts[k].touched >= since)}

InPeriod(d, start, end) == d # None /\ start <= d /\ d < end

\* computeMeasures over the rows read since a day and the lines it is given.
Measures(since, start, end, lines) ==
  [created  |-> {k \in FactsSince(since) : InPeriod(facts[k].opened, start, end)},
   resolved |-> {k \in FactsSince(since) : InPeriod(facts[k].resolved, start, end)},
   lines    |-> lines]

\* timeFacts reads both ends; the quarterly pack cuts its reading at the
\* exclusive end again.
LinesBetween(first, last) == {n \in DOMAIN logged : first <= logged[n] /\ logged[n] <= last}
LinesWithin(start, end) == {n \in LinesBetween(start, end) : InPeriod(logged[n], start, end)}

\* previousWeek and previousQuarter.
PreviousPeriod == PeriodDays * ((today \div PeriodDays) - 1)

WeeklyFigures(start) ==
  Measures(start, start, start + PeriodDays, LinesBetween(start, start + PeriodDays))

\* Both quarters are measured from the rows read since the earlier one.
QuarterlyFigures(start) ==
  LET earlier == start - PeriodDays IN
  [now    |-> Measures(earlier, start, start + PeriodDays, LinesWithin(start, start + PeriodDays)),
   before |-> Measures(earlier, earlier, start, LinesWithin(earlier, start)),
   roster |-> LinesBetween(start, start + PeriodDays - 1)]

\* Nothing to compare with where nothing was opened, resolved or logged.
Comparison(f) == IF f.created = {} /\ f.resolved = {} /\ f.lines = {} THEN None ELSE f

Made == Len(packs) + Cardinality({d \in ReportDays : snapshots[d] # None})
Unsettled == Len(logged) + Cardinality(reopened)

MakeWeekly ==
  /\ Made < MaxMade /\ PreviousPeriod >= 0
  /\ packs' = Append(packs, [kind |-> "wsr", start |-> PreviousPeriod,
                             figures |-> WeeklyFigures(PreviousPeriod)])
  /\ UNCHANGED <<today, facts, logged, snapshots, reopened>>

MakeQuarterly ==
  /\ Made < MaxMade /\ PreviousPeriod >= 0
  /\ LET q == QuarterlyFigures(PreviousPeriod) IN
     packs' = Append(packs, [kind |-> "qbr", start |-> PreviousPeriod,
                             figures |-> q.now, before |-> Comparison(q.before),
                             roster |-> q.roster])
  /\ UNCHANGED <<today, facts, logged, snapshots, reopened>>

\* One row a day and measure, of yesterday, unless there is one already; a
\* day on which the job did not run is never made up for.
TakeSnapshot ==
  /\ Made < MaxMade /\ today > 0
  /\ \A d \in ReportDays : d >= today - 1 => snapshots[d] = None
  /\ snapshots' = [snapshots EXCEPT ![today - 1] =
                     Measures(today - 1, today - 1, today, LinesBetween(today - 1, today - 1))]
  /\ UNCHANGED <<today, facts, logged, packs, reopened>>

\* The moves of a ticket that a figure can tell apart.
MoveTicket(k) ==
  LET f == facts[k] IN
  /\ \/ /\ f = NoFacts
        /\ facts' = [facts EXCEPT ![k] = [NoFacts EXCEPT !.opened = today, !.touched = today]]
     \/ /\ f # NoFacts /\ ~f.closed /\ f.resolved = None
        /\ \E ends \in {"resolved", "cancelled"} :
             facts' = [facts EXCEPT ![k] = [f EXCEPT !.touched = today,
                         !.resolved = IF ends = "resolved" THEN today ELSE None,
                         !.closed = ends = "cancelled"]]
     \/ /\ f.resolved # None /\ ~f.closed
        /\ facts' = [facts EXCEPT ![k] = [f EXCEPT !.touched = today, !.closed = TRUE]]
  /\ UNCHANGED <<today, logged, packs, snapshots, reopened>>

\* A reopened ticket loses its resolved_at.
ReopenTicket(k) ==
  /\ facts[k].resolved # None /\ ~facts[k].closed
  /\ Unsettled < MaxUnsettled
  /\ facts' = [facts EXCEPT ![k].resolved = None, ![k].touched = today]
  /\ reopened' = reopened \cup {[of |-> k, on |-> today, after |-> Len(packs)]}
  /\ UNCHANGED <<today, logged, packs, snapshots>>

LogLine(d) ==
  /\ d <= today /\ Unsettled < MaxUnsettled
  /\ logged' = Append(logged, d)
  /\ UNCHANGED <<today, facts, packs, snapshots, reopened>>

PassDay ==
  /\ today < LastReportDay /\ today' = today + 1
  /\ UNCHANGED <<facts, logged, packs, snapshots, reopened>>

FiguresNext ==
  \/ MakeWeekly \/ MakeQuarterly \/ TakeSnapshot \/ PassDay
  \/ \E k \in Reported : MoveTicket(k) \/ ReopenTicket(k)
  \/ \E d \in ReportDays : LogLine(d)

\* None is neither a day nor what a pack compares with.
FiguresConstants ==
  /\ PeriodDays \in Nat \ {0} /\ LastReportDay \in Nat /\ MaxUnsettled \in Nat
  /\ None \notin ReportDays
  /\ \A c, r \in SUBSET Reported, l \in SUBSET (1 .. MaxUnsettled) :
       None # [created |-> c, resolved |-> r, lines |-> l]

FiguresSpec == FiguresInit /\ [][FiguresNext]_figuresVars

\* A line of time is reported in one quarterly pack only, and in two weekly
\* ones only when it is of the first day of the later week, which both count.
\* Inside a pack the roster shows the very lines the total counts.
LinesReportedOnce ==
  \A m, n \in DOMAIN packs :
    LET p == packs[m]
        q == packs[n]
    IN  /\ p.kind = "qbr" => p.roster = p.figures.lines
        /\ p.kind = q.kind /\ p.start < q.start =>
             \A i \in p.figures.lines \cap q.figures.lines :
               p.kind = "wsr" /\ logged[i] = q.start

\* The later of two quarterly packs compares with the figures the earlier one
\* gave, unless a ticket was reopened or time was logged between the two.
ComparisonAgrees ==
  \A m, n \in DOMAIN packs :
    LET p == packs[m]
        q == packs[n]
    IN  p.kind = "qbr" /\ q.kind = "qbr" /\ m < n /\ q.start = p.start + PeriodDays =>
          LET base == IF q.before = None THEN [created |-> {}, resolved |-> {}, lines |-> {}]
                                         ELSE q.before
          IN  /\ base.created = p.figures.created
              /\ \A k \in Reported :
                   (k \in base.resolved) # (k \in p.figures.resolved) =>
                     \E r \in reopened : r.of = k /\ r.after \in m .. n - 1
              /\ p.figures.lines \subseteq base.lines
              /\ \A i \in base.lines \ p.figures.lines : InPeriod(logged[i], p.start, q.start)

\* A week's pack says resolved of the tickets its days' snapshots say it of,
\* unless one was reopened after its snapshot was taken.
SnapshotsAddUp ==
  \A n \in DOMAIN packs :
    LET p == packs[n]
        days == p.start .. p.start + PeriodDays - 1
        shown == UNION {snapshots[d].resolved : d \in {e \in days : snapshots[e] # None}}
    IN  (\A d \in days : snapshots[d] # None) =>
          \A k \in Reported :
            (k \in p.figures.resolved) # (k \in shown) =>
              \E r \in reopened : r.of = k /\ r.on > p.start
-----------------------------------------------------------------------------
(* The health score                                                        *)
accountVars == <<account, was>>

Factors == {"sla", "csat", "budget", "reopened", "engagement"}
HealthWeight == [sla |-> 30, csat |-> 25, budget |-> 20, reopened |-> 15, engagement |-> 10]

Ratios == {<<0, 0>>, <<0, 1>>, <<2, 3>>}
NoBudget == [available |-> 0, consumed |-> 0, days |-> 1, passed |-> 0]

\* Means are in tenths of the one to five scale; the window is a week.
Accounts ==
  [met : Ratios, reopened : Ratios, csat : {None, 10, 50},
   position : {NoBudget} \cup [available : {4}, consumed : {0, 6}, days : {4}, passed : {1, 3}],
   portal : BOOLEAN, signins : {0, 2}, answered : {<<0, 0>>, <<1, 2>>}]

Clamp(n) == IF n < 0 THEN 0 ELSE IF n > 1000 THEN 1000 ELSE n
\* Math.round of n / d, for what is not negative.
RoundedShare(n, d) == (2 * n + d) \div (2 * d)
Percentage(r) == RoundedShare(1000 * r[1], r[2])

\* percentElapsed counts the day that runs.
Elapsed(p) == LET passed == p.passed + 1 IN
  (1000 * (IF passed > p.days THEN p.days ELSE passed)) \div p.days
Ahead(p) == (1000 * p.consumed) \div p.available - Elapsed(p)

Signins(x) == IF x.signins > 1 THEN 1 ELSE x.signins

\* The score of a factor, or None where the account holds nothing to judge.
FactorScore(x) ==
  [sla |-> IF x.met[2] = 0 THEN None ELSE Clamp(Percentage(x.met)),
   csat |-> IF x.csat = None THEN None ELSE Clamp(25 * (x.csat - 10)),
   budget |-> IF x.position.available = 0 THEN None
              ELSE IF Ahead(x.position) < 0 THEN 1000 ELSE Clamp(1000 - 2 * Ahead(x.position)),
   reopened |-> IF x.reopened[2] = 0 THEN None ELSE Clamp(1000 - 4 * Percentage(x.reopened)),
   engagement |->
     IF x.answered[2] = 0 THEN IF x.portal THEN 1000 * Signins(x) ELSE None
     ELSE LET answers == (1000 * x.answered[1]) \div x.answered[2]
          IN  IF x.portal THEN (1000 * Signins(x) + answers) \div 2 ELSE answers]

Measured(x) == {f \in Factors : FactorScore(x)[f] # None}
MeasuredWeight(x) == FoldSet(LAMBDA f, sum : sum + HealthWeight[f], 0, Measured(x))

\* The weighted mean of what was measured, in whole points.
HealthOf(x) ==
  LET scores == FactorScore(x)
      total  == FoldSet(LAMBDA f, sum : sum + scores[f] * HealthWeight[f], 0, Measured(x))
  IN  IF Measured(x) = {} THEN None ELSE RoundedShare(total, 10 * MeasuredWeight(x))

HealthBand(x) ==
  IF HealthOf(x) = None THEN "unrated"
  ELSE IF HealthOf(x) >= 80 THEN "green" ELSE IF HealthOf(x) >= 60 THEN "amber" ELSE "red"

AccountTypeOK ==
  /\ account.met \in Ratios /\ account.reopened \in Ratios /\ account.csat \in {None} \cup 10 .. 50
  /\ was = None \/ was \in Accounts
AccountInit == account \in Accounts /\ was = None

\* One fact changes between two readings of the score.
FactChanges ==
  /\ was = None /\ was' = account
  /\ \/ \E r \in Ratios : account' = [account EXCEPT !.met = r]
     \/ \E r \in Ratios : account' = [account EXCEPT !.reopened = r]
     \/ \E mean \in {10, 50} : account' = [account EXCEPT !.csat = mean]
     \/ \E n \in {0, 3, 6} : account.position # NoBudget /\ account' = [account EXCEPT !.position.consumed = n]
     \/ account' = [account EXCEPT !.portal = ~@]
     \/ \E r \in {<<0, 0>>, <<0, 2>>, <<1, 2>>} : account' = [account EXCEPT !.answered = r]

AccountNext == FactChanges

\* None is no score and no account.
HealthConstants == None \notin Accounts /\ None \notin 0 .. 1000

\* A factor that does better never lowers the score of the account, one that
\* does worse never raises it; a factor that begins to be measured draws the
\* score towards its own, by no more than its weight allows.
ScoreFollowsFactors ==
  was # None /\ HealthOf(was) # None =>
    LET scores == FactorScore(account)
        past   == FactorScore(was)
        before == HealthOf(was)
        after  == HealthOf(account)
    IN  \A f \in Factors :
      LET old == past[f]
          new == scores[f]
      IN  old # new =>
          /\ old # None /\ new # None => (new > old => after >= before) /\ (new < old => after <= before)
          /\ old = None => (new > 10 * before + 5 => after >= before)
                           /\ (new + 5 < 10 * before => after <= before)

\* The score lies between those of its worst and its best factor, and an
\* account is unrated only where there is nothing at all to judge.
ScoreIsAMean ==
  LET scores == {FactorScore(account)[f] : f \in Measured(account)} IN
  IF scores = {} THEN HealthBand(account) = "unrated" /\ MeasuredWeight(account) = 0
  ELSE /\ \E s \in scores : s <= 10 * HealthOf(account) + 5
       /\ \E s \in scores : s >= 10 * HealthOf(account) - 5
       /\ MeasuredWeight(account) \in 10 .. 100
=============================================================================
