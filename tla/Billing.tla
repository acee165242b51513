------------------------------- MODULE Billing ------------------------------
(***************************************************************************)
(* One billing period of an account: the entries and adjustments dated in  *)
(* it, its way through open, submitted, approved, locked and exported, the *)
(* files produced from it and their delivery to finance.                   *)
(*                                                                         *)
(* Every request is one READ COMMITTED transaction.  What it reads is what *)
(* was committed at that statement, and only the period's version is       *)
(* compared at the write; periodHolder is the holder of the period's row   *)
(* lock, taken by FOR UPDATE or by an uncommitted update.  Lines of the    *)
(* period are numbered in the order they are inserted.                     *)
(*                                                                         *)
(* The budget of one contract period: entries and adjustments that consume *)
(* it, the overage rule, the threshold alerts, and the allowances that     *)
(* approved out-of-scope work adds to it.                                  *)
(*                                                                         *)
(* An entry is judged against the consumption committed when its request   *)
(* read it, and nothing is locked meanwhile.  A threshold event is unique  *)
(* per period and percent, so a second request that inserts the same one   *)
(* waits for the first to commit.                                          *)
(***************************************************************************)
EXTENDS Integers, Sequences, FiniteSets

CONSTANTS
  Requests, None, MaxLines, MaxPeriodVersion, MaxDeliveries, Contracted, Percents,
  EntrySizes, MaxEntries, MaxEntryMinutes, MaxCarried

VARIABLES
  period,        \* acct.billing_periods: status, version, summary, checksum
  periodHolder,  \* the request that holds the row lock, or None
  inserted,      \* how many lines of the period were ever inserted
  lines,         \* the committed lines
  billReq,       \* what each request does and has read
  lockEvents,    \* billing_period.locked rows in the outbox
  handed,        \* the files the destination has received
  deliveries,    \* acct.finance_deliveries, oldest first
  racing,         \* history: lines inserted before the lock, not in its summary
  budget,       \* acct.contract_periods and its contract: rule, carried, fired
  entryMinutes, \* the committed minutes of each entry, its adjustments included
  logged,       \* how many entries are committed
  alerts,       \* threshold events per percent
  budgetReq,    \* what each request has read
  enlarged,     \* history: minutes added by adjustments
  contended     \* history: minutes were committed while another request held older ones

-----------------------------------------------------------------------------
(* The billing period                                                      *)

billingVars == <<period, periodHolder, inserted, lines, billReq, lockEvents, handed, deliveries,
                 racing>>

Writable == {"open", "submitted"}
Final == {"locked", "exported"}

\* The statuses in which the insert trigger of a kind of line raises.
Closed(kind) == IF kind = "entry" THEN {"approved"} \cup Final ELSE Final

Moves == [submit  |-> [from |-> {"open"}, to |-> "submitted"],
          reopen  |-> [from |-> {"submitted"}, to |-> "open"],
          approve |-> [from |-> {"submitted"}, to |-> "approved"],
          lock    |-> [from |-> {"open", "submitted", "approved"}, to |-> "locked"]]

Summarising == {"submit", "lock"}

Idle == [op |-> "idle", at |-> "start", version |-> 0, row |-> 0, file |-> {}]

BillingInit ==
  /\ period = [status |-> "open", version |-> 1, summary |-> {}, checksum |-> None]
  /\ periodHolder = None
  /\ inserted = 0
  /\ lines = {}
  /\ billReq = [t \in Requests |-> Idle]
  /\ lockEvents = 0
  /\ handed = {}
  /\ deliveries = <<>>
  /\ racing = {}

\* What a statement that reads the period's lines returns.
FinanceLines == lines

At(t, ops, at) == billReq[t].op \in ops /\ billReq[t].at = at

Begin(t, op) == billReq' = [billReq EXCEPT ![t].op = op, ![t].at = "read",
                                           ![t].version = period.version]

Done(t) == billReq' = [billReq EXCEPT ![t] = Idle]

-----------------------------------------------------------------------------
(* Lines.  The service looks at the period, the trigger looks again at the *)
(* insert, and the line is seen by others when the transaction commits.    *)

CheckPeriod(t) ==
  /\ billReq[t] = Idle /\ inserted < MaxLines
  /\ period.status \in Writable
  /\ \E kind \in {"entry", "adjustment"} : Begin(t, kind)
  /\ UNCHANGED <<period, periodHolder, inserted, lines, lockEvents, handed, deliveries, racing>>

InsertLine(t) ==
  /\ At(t, {"entry", "adjustment"}, "read")
  /\ period.status \notin Closed(billReq[t].op)
  /\ inserted < MaxLines
  /\ inserted' = inserted + 1
  /\ billReq' = [billReq EXCEPT ![t].at = "inserted", ![t].row = inserted + 1]
  /\ UNCHANGED <<period, periodHolder, lines, lockEvents, handed, deliveries, racing>>

CommitLine(t) ==
  /\ At(t, {"entry", "adjustment"}, "inserted")
  /\ lines' = lines \cup {billReq[t].row}
  /\ Done(t)
  /\ UNCHANGED <<period, periodHolder, inserted, lockEvents, handed, deliveries, racing>>

-----------------------------------------------------------------------------
(* Transitions: a finance user's request, or the auto-lock job.            *)

ReadPeriod(t) ==
  /\ billReq[t] = Idle /\ period.version < MaxPeriodVersion
  /\ \E action \in DOMAIN Moves : period.status \in Moves[action].from /\ Begin(t, action)
  /\ UNCHANGED <<period, periodHolder, inserted, lines, lockEvents, handed, deliveries, racing>>

\* FOR UPDATE SKIP LOCKED on an approved period whose auto_lock_at has passed.
TakeDue(t) ==
  /\ billReq[t] = Idle
  /\ period.status = "approved"
  /\ periodHolder = None
  /\ periodHolder' = t
  /\ Begin(t, "lock")
  /\ UNCHANGED <<period, inserted, lines, lockEvents, handed, deliveries, racing>>

ReadSummary(t) ==
  /\ At(t, Summarising, "read")
  /\ billReq' = [billReq EXCEPT ![t].at = "summarised", ![t].file = FinanceLines]
  /\ UNCHANGED <<period, periodHolder, inserted, lines, lockEvents, handed, deliveries, racing>>

\* Mutant: a write that does not compare the version.
CanWriteUnversioned(t) == periodHolder \in {None, t} /\ period.version < MaxPeriodVersion

\* The versioned update; an update of a locked row waits for its holder.
CanWrite(t) ==
  /\ periodHolder \in {None, t}
  /\ period.version = billReq[t].version
  /\ period.version < MaxPeriodVersion

WriteMove(t) ==
  LET action == billReq[t].op IN
  /\ \/ At(t, Summarising, "summarised")
     \/ At(t, DOMAIN Moves \ Summarising, "read")
  /\ CanWrite(t)
  /\ period' = [period EXCEPT !.status = Moves[action].to, !.version = @ + 1,
                  !.summary = IF action \in Summarising THEN billReq[t].file ELSE @]
  /\ periodHolder' = None
  /\ lockEvents' = lockEvents + (IF action = "lock" THEN 1 ELSE 0)
  /\ racing' = IF action = "lock"
                 THEN (lines \ billReq[t].file) \cup
                      {billReq[u].row : u \in {u \in Requests : billReq[u].at = "inserted"}}
                 ELSE racing
  /\ Done(t)
  /\ UNCHANGED <<inserted, lines, handed, deliveries>>

-----------------------------------------------------------------------------
(* Files.  An export or a delivery reads the lines, rewrites checksum and  *)
(* summary under the period's version, and holds the row until it commits; *)
(* a delivery calls the destination meanwhile.                             *)

StartFile(t) ==
  /\ billReq[t] = Idle
  /\ \/ period.status \in Final /\ \E op \in {"export", "deliver"} : Begin(t, op)
     \/ period.status = "locked" /\ lockEvents > 0 /\ Begin(t, "deliver")
  /\ UNCHANGED <<period, periodHolder, inserted, lines, lockEvents, handed, deliveries, racing>>

ReadLines(t) ==
  /\ At(t, {"export", "deliver"}, "read")
  /\ billReq' = [billReq EXCEPT ![t].at = "produced", ![t].file = FinanceLines]
  /\ UNCHANGED <<period, periodHolder, inserted, lines, lockEvents, handed, deliveries, racing>>

ReadFresh(t) ==
  /\ At(t, {"export", "deliver"}, "produced")
  /\ billReq' = [billReq EXCEPT ![t].at = "fresh", ![t].version = period.version]
  /\ UNCHANGED <<period, periodHolder, inserted, lines, lockEvents, handed, deliveries, racing>>

HoldPeriod(t) ==
  /\ At(t, {"export", "deliver"}, "fresh")
  /\ CanWrite(t)
  /\ periodHolder' = t
  /\ billReq' = [billReq EXCEPT ![t].at = "held"]
  /\ UNCHANGED <<period, inserted, lines, lockEvents, handed, deliveries, racing>>

\* A destination that answers 2xx has the file; one that does not may have it.
HandOver(t) ==
  /\ At(t, {"deliver"}, "held")
  /\ Len(deliveries) < MaxDeliveries
  /\ \E answer \in {"delivered", "failed"} :
       /\ billReq' = [billReq EXCEPT ![t].at = answer]
       /\ \/ handed' = handed \cup {billReq[t].file}
          \/ answer = "failed" /\ handed' = handed
  /\ UNCHANGED <<period, periodHolder, inserted, lines, lockEvents, deliveries, racing>>

Superseded(rows) == [i \in DOMAIN rows |-> [rows[i] EXCEPT !.status = "superseded"]]

CommitFile(t) ==
  LET outcome == billReq[t].at
      file == billReq[t].file
  IN /\ \/ At(t, {"export"}, "held")
        \/ billReq[t].op = "deliver" /\ outcome \in {"delivered", "failed"}
     /\ period' = [period EXCEPT
                     !.status = IF outcome = "delivered" THEN "exported" ELSE @,
                     !.version = @ + (IF outcome = "delivered" /\ period.status = "locked"
                                        THEN 2 ELSE 1),
                     !.summary = file, !.checksum = file]
     /\ deliveries' = IF billReq[t].op = "export" THEN deliveries
                      ELSE Append(Superseded(deliveries), [status |-> outcome, file |-> file])
     /\ periodHolder' = None
     /\ Done(t)
     /\ UNCHANGED <<inserted, lines, lockEvents, handed, racing>>

-----------------------------------------------------------------------------
(* Finance acknowledges a delivery: read without a lock, written by id.    *)

ReadDelivery(t) ==
  /\ billReq[t] = Idle
  /\ \E d \in DOMAIN deliveries :
       /\ deliveries[d].status = "delivered"
       /\ billReq' = [billReq EXCEPT ![t].op = "ack", ![t].at = "read", ![t].row = d]
  /\ UNCHANGED <<period, periodHolder, inserted, lines, lockEvents, handed, deliveries, racing>>

Acknowledge(t) ==
  /\ At(t, {"ack"}, "read")
  /\ deliveries' = [deliveries EXCEPT ![billReq[t].row].status = "acknowledged"]
  /\ Done(t)
  /\ UNCHANGED <<period, periodHolder, inserted, lines, lockEvents, handed, racing>>

\* A refusal of a trigger or of a stale version, a failed statement, a crash.
AbortBilling(t) ==
  /\ billReq[t] # Idle
  /\ Done(t)
  /\ periodHolder' = IF periodHolder = t THEN None ELSE periodHolder
  /\ UNCHANGED <<period, inserted, lines, lockEvents, handed, deliveries, racing>>

BillingNext == \E t \in Requests :
  \/ CheckPeriod(t) \/ InsertLine(t) \/ CommitLine(t)
  \/ ReadPeriod(t) \/ TakeDue(t) \/ ReadSummary(t) \/ WriteMove(t)
  \/ StartFile(t) \/ ReadLines(t) \/ ReadFresh(t) \/ HoldPeriod(t) \/ HandOver(t) \/ CommitFile(t)
  \/ ReadDelivery(t) \/ Acknowledge(t) \/ AbortBilling(t)

\* None stands for no request.
BillingConstants == None \notin Requests

BillingSpec == BillingInit /\ [][BillingNext]_billingVars

-----------------------------------------------------------------------------
BillingTypeOK ==
  /\ period \in [status : Writable \cup {"approved"} \cup Final, version : Nat,
                 summary : SUBSET (1..inserted), checksum : (SUBSET (1..inserted)) \cup {None}]
  /\ periodHolder \in Requests \cup {None}
  /\ inserted \in Nat
  /\ lines \in SUBSET (1..inserted)
  /\ lockEvents \in Nat
  /\ handed \in SUBSET SUBSET (1..inserted)
  /\ \A d \in DOMAIN deliveries :
       deliveries[d].status \in {"delivered", "failed", "acknowledged", "superseded"}

\* A line of a locked period that its summary, or a later delivered file, does
\* not hold was inserted before the lock and committed after the lines were read.
MissingLinesRaced ==
  period.status \in Final =>
    /\ lines \ period.summary \subseteq racing
    /\ \A i, j \in DOMAIN deliveries :
         i < j => deliveries[i].file \ deliveries[j].file \subseteq racing

\* Once a file was produced the period's summary is the summary of that file,
\* and a checksum belongs to a locked period.
ChecksumMatchesSummary ==
  period.checksum # None => period.status \in Final /\ period.checksum = period.summary

\* The lock writes one event for the finance connector, however many clerks and
\* auto-lock jobs lock at once.
LockAnnouncedOnce == lockEvents = (IF period.status \in Final THEN 1 ELSE 0)

\* Of the deliveries of a period that are not superseded at most one is
\* unacknowledged (an acknowledgement that races a re-delivery opens the old row
\* again).
OneOpenDelivery ==
  Cardinality({d \in DOMAIN deliveries : deliveries[d].status \in {"delivered", "failed"}}) <= 1

\* An exported period, and a delivery recorded as delivered, reached finance.
ExportedWasHandedOver ==
  /\ period.status = "exported" => handed # {}
  /\ \A d \in DOMAIN deliveries :
       deliveries[d].status \in {"delivered", "acknowledged"} => deliveries[d].file \in handed

BillingSafe ==
  /\ MissingLinesRaced
  /\ ChecksumMatchesSummary
  /\ LockAnnouncedOnce
  /\ OneOpenDelivery
  /\ ExportedWasHandedOver

-----------------------------------------------------------------------------
(* The budget                                                              *)

budgetVars == <<budget, entryMinutes, logged, alerts, budgetReq, enlarged, contended>>

NoRequest == [op |-> "idle", at |-> "start", entry |-> 0, delta |-> 0, consumed |-> 0,
              available |-> 0, fired |-> {}, firing |-> {}]

BudgetInit ==
  /\ \E rule \in {"block", "allow"} :
       budget = [rule |-> rule, carried |-> 0, fired |-> {}]
  /\ entryMinutes = [e \in 1..MaxEntries |-> 0]
  /\ logged = 0
  /\ alerts = [p \in Percents |-> 0]
  /\ budgetReq = [t \in Requests |-> NoRequest]
  /\ enlarged = FALSE
  /\ contended = FALSE

\* The sum of the first n entries.
Minutes(entries, n) ==
  LET total[i \in 0..n] == IF i = 0 THEN 0 ELSE total[i - 1] + entries[i]
  IN  total[n]

Consumed == Minutes(entryMinutes, MaxEntries)
Available == Contracted + budget.carried

Blocked(minutes) ==
  /\ Available > 0
  /\ Consumed + minutes > Available
  /\ budget.rule = "block"

Judged(op, entry, minutes) ==
  [op |-> op, at |-> "judged", entry |-> entry, delta |-> minutes, consumed |-> Consumed + minutes,
   available |-> Available, fired |-> budget.fired, firing |-> {}]

\* Logging an entry: the period, its consumption and the overage rule.
JudgeEntry(t) ==
  /\ budgetReq[t] = NoRequest
  /\ logged < MaxEntries
  /\ \E minutes \in EntrySizes :
       /\ ~Blocked(minutes)
       /\ budgetReq' = [budgetReq EXCEPT ![t] = Judged("entry", 0, minutes)]
  /\ UNCHANGED <<budget, entryMinutes, logged, alerts, enlarged, contended>>

\* Correcting an entry: its adjusted minutes may not go below zero.
CheckAdjustment(t) ==
  /\ budgetReq[t] = NoRequest
  /\ \E e \in 1..logged, delta \in EntrySizes \cup {-m : m \in EntrySizes} :
       /\ entryMinutes[e] + delta \in 0..MaxEntryMinutes
       /\ budgetReq' = [budgetReq EXCEPT ![t] = [NoRequest EXCEPT !.op = "adjust", !.at = "checked",
                                                   !.entry = e, !.delta = delta]]
  /\ UNCHANGED <<budget, entryMinutes, logged, alerts, enlarged, contended>>

\* After the insert, which the request itself sees.
JudgeAdjustment(t) ==
  /\ budgetReq[t].at = "checked"
  /\ budgetReq' = [budgetReq EXCEPT ![t] = Judged("adjust", @.entry, @.delta)]
  /\ UNCHANGED <<budget, entryMinutes, logged, alerts, enlarged, contended>>

\* Mutant: the percentages are kept as fractions.
ThresholdFractions(r) == {p \div 100 : p \in {p \in Percents : r.consumed * 100 >= r.available * p}}

ThresholdsToFire(r) ==
  IF r.available <= 0 THEN {}
  ELSE {p \in Percents \ r.fired : r.consumed * 100 >= r.available * p}

\* Inserts the events that are not there yet; one request at a time.
FireThresholds(t) ==
  LET r == budgetReq[t]
      new == ThresholdsToFire(r) \ budget.fired
  IN
  /\ r.at = "judged"
  /\ new # {} => \A u \in Requests : budgetReq[u].firing = {}
  /\ budgetReq' = [budgetReq EXCEPT ![t] =
       [NoRequest EXCEPT !.op = r.op, !.at = "evaluated", !.entry = r.entry, !.delta = r.delta,
                         !.firing = new]]
  /\ UNCHANGED <<budget, entryMinutes, logged, alerts, enlarged, contended>>

\* Other requests that read the minutes before this one's commit.
Reading == {"checked", "judged", "evaluated"}
ReadBefore(t) == {u \in Requests \ {t} : budgetReq[u].at \in Reading}

CommitMinutes(t) ==
  LET r == budgetReq[t]
      e == IF r.op = "entry" THEN logged + 1 ELSE r.entry
  IN /\ r.at = "evaluated"
     /\ e <= MaxEntries
     /\ entryMinutes' = [entryMinutes EXCEPT ![e] = @ + r.delta]
     /\ logged' = IF r.op = "entry" THEN e ELSE logged
     /\ budget' = [budget EXCEPT !.fired = @ \cup r.firing]
     /\ alerts' = [p \in Percents |-> alerts[p] + (IF p \in r.firing THEN 1 ELSE 0)]
     /\ enlarged' = (enlarged \/ (r.op = "adjust" /\ r.delta > 0))
     /\ contended' = (contended \/ ReadBefore(t) # {})
     /\ budgetReq' = [budgetReq EXCEPT ![t] = NoRequest]

\* The approval of out-of-scope work adds its allowance to the period (Scope);
\* the update waits for a request that holds the row with a fired threshold.
GrantAllowance ==
  /\ \A u \in Requests : budgetReq[u].firing = {}
  /\ budget.carried < MaxCarried
  /\ budget' = [budget EXCEPT !.carried = @ + 1]
  /\ UNCHANGED <<entryMinutes, logged, alerts, budgetReq, enlarged, contended>>

\* A stale version, a failed statement, a crash.
AbortBudget(t) ==
  /\ budgetReq[t] # NoRequest
  /\ budgetReq' = [budgetReq EXCEPT ![t] = NoRequest]
  /\ UNCHANGED <<budget, entryMinutes, logged, alerts, enlarged, contended>>

BudgetNext ==
  \/ \E t \in Requests :
       \/ JudgeEntry(t) \/ CheckAdjustment(t) \/ JudgeAdjustment(t)
       \/ FireThresholds(t) \/ CommitMinutes(t) \/ AbortBudget(t)
  \/ GrantAllowance

\* A contract has a budget, entries have minutes, percentages are positive.
BudgetConstants ==
  /\ Contracted \in Nat \ {0}
  /\ MaxEntries \in Nat /\ MaxEntryMinutes \in Nat
  /\ EntrySizes \subseteq Nat
  /\ Percents \subseteq Nat \ {0}

BudgetSpec == BudgetInit /\ [][BudgetNext]_budgetVars

-----------------------------------------------------------------------------
BudgetTypeOK ==
  /\ budget \in [rule : {"block", "allow"}, carried : Nat, fired : SUBSET Percents]
  /\ entryMinutes \in [1..MaxEntries -> Int]
  /\ logged \in 0..MaxEntries
  /\ alerts \in [Percents -> Nat]

\* The rule `block` keeps the consumption within the budget, but for minutes an
\* adjustment adds (it asks no overage rule) and for requests that overlapped.
BlockHolds ==
  budget.rule = "block" /\ ~contended /\ ~enlarged => Consumed <= Available

\* No entry is corrected below zero, unless two corrections overlapped.
NotBelowZero == ~contended => \A e \in 1..logged : entryMinutes[e] >= 0

\* Each percentage alerts once per period, however many requests cross it.
AlertsFireOnce == \A p \in Percents : alerts[p] = (IF p \in budget.fired THEN 1 ELSE 0)

\* A percentage that the committed minutes have crossed has alerted, unless the
\* minutes that cross it were logged in requests that overlapped.
CrossedHasAlerted ==
  ~contended => \A p \in Percents : Consumed * 100 >= Available * p => p \in budget.fired
=============================================================================
