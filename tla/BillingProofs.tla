---------------------------- MODULE BillingProofs ---------------------------
(***************************************************************************)
(* Proofs about the billing period and the budget of Billing, for every    *)
(* set of requests and every bound.  The assumptions, which TLC evaluates  *)
(* with the run of MCDesk, are that None names no request                  *)
(* (BillingConstants), that a contract has a budget, and that minutes and  *)
(* percentages are what they are called (BudgetConstants).                 *)
(*                                                                         *)
(* The argument about the period has two halves.  The version that a write *)
(* compares says that nothing moved since it was read, so a transition is  *)
(* written from one of its own source statuses and a locked period never   *)
(* leaves its final statuses.  From the lock on no line is inserted, so    *)
(* whatever is committed afterwards was inserted before it: the lines      *)
(* outside racing are the same ones in every statement that reads them.    *)
(***************************************************************************)
EXTENDS Billing, TLAPS, FiniteSetTheorems

Line == {"entry", "adjustment"}
Filing == {"export", "deliver"}
Holding == {"held", "delivered", "failed"}

Ops == {"idle", "ack"} \cup Line \cup Filing \cup {"submit", "reopen", "approve", "lock"}
Places == {"start", "read", "inserted", "summarised", "produced", "fresh"} \cup Holding

BillingRequest == [op : Ops, at : Places, version : Nat, row : Nat, file : SUBSET Nat]
Delivery == [status : {"delivered", "failed", "acknowledged", "superseded"},
             file : SUBSET Nat]
Statuses == Writable \cup {"approved"} \cup Final

(* Types, and what the lines of summaries, checksums and files can be.     *)
BillingShape ==
  /\ period \in [status : Statuses, version : Nat, summary : SUBSET Nat,
                 checksum : (SUBSET Nat) \cup {None}]
  /\ periodHolder \in Requests \cup {None}
  /\ inserted \in Nat /\ lines \subseteq 1 .. inserted
  /\ lockEvents \in Nat
  /\ deliveries \in Seq(Delivery)
  /\ billReq \in [Requests -> BillingRequest]
  /\ period.summary \subseteq 1 .. inserted
  /\ period.checksum # None => period.checksum \subseteq 1 .. inserted
  /\ \A f \in handed : f \subseteq 1 .. inserted

(* From the lock on, a line that a reading lacks was inserted before it.   *)
Complete(file) == lines \ file \subseteq racing

(* Deliveries belong to locked periods, hold committed lines and all of    *)
(* them that did not race the lock; only the newest is open, and what is   *)
(* called delivered reached finance.                                       *)
DeliveriesFit ==
  /\ deliveries # <<>> => period.status \in Final
  /\ period.status = "exported" => handed # {}
  /\ \A d \in DOMAIN deliveries :
       /\ deliveries[d].file \subseteq lines /\ Complete(deliveries[d].file)
       /\ deliveries[d].status \in {"delivered", "failed"} => d = Len(deliveries)
       /\ deliveries[d].status \in {"delivered", "acknowledged"} =>
            deliveries[d].file \in handed

SummaryFits == period.status \in Final => Complete(period.summary)

(* A request stands only where its kind can, and one that commits a file   *)
(* holds the row.                                                          *)
PlaceFits(t, r) ==
  /\ r.file \subseteq 1 .. inserted
  /\ r.at = "inserted" => r.op \in Line /\ r.row \in 1 .. inserted
  /\ r.at = "summarised" => r.op \in Summarising
  /\ r.at \in Holding => r.op \in Filing /\ periodHolder = t

(* The version read is the version of the status read.                     *)
VersionFits(r) ==
  /\ r.version <= period.version
  /\ r.op \in DOMAIN Moves /\ r.version = period.version =>
       period.status \in Moves[r.op].from

(* A file is produced from a locked period, from committed lines, and      *)
(* lacks only lines that raced the lock; once the destination said so it   *)
(* was handed over.                                                        *)
FileFits(r) ==
  /\ r.op \in Filing => period.status \in Final
  /\ r.op \in Filing /\ r.at # "read" => r.file \subseteq lines /\ Complete(r.file)
  /\ r.at = "delivered" => r.file \in handed

(* An acknowledgement names a delivery that reached finance.               *)
AckFits(r) ==
  r.op = "ack" => r.row \in DOMAIN deliveries /\ deliveries[r.row].file \in handed

(* A line not yet committed when the period was locked raced the lock.     *)
LineFits(r) == r.at = "inserted" /\ period.status \in Final => r.row \in racing

RequestFits(t, r) ==
  PlaceFits(t, r) /\ VersionFits(r) /\ FileFits(r) /\ AckFits(r) /\ LineFits(r)

BillingInv ==
  /\ BillingShape /\ DeliveriesFit /\ SummaryFits
  /\ ChecksumMatchesSummary /\ LockAnnouncedOnce
  /\ \A t \in Requests : RequestFits(t, billReq[t])

-----------------------------------------------------------------------------
(* Facts about the tables of the module.                                   *)

LEMMA MovesFacts ==
  /\ DOMAIN Moves = {"submit", "reopen", "approve", "lock"}
  /\ \A op \in DOMAIN Moves :
       /\ Moves[op].from \subseteq Statuses \ Final
       /\ Moves[op].to \in Statuses
       /\ Moves[op].to \in Final <=> op = "lock"
       /\ Moves[op].to # "exported"
       /\ op \notin Filing /\ op \notin Line /\ op # "ack" /\ op # "idle"
BY DEF Moves, Statuses, Writable, Final, Filing, Line

LEMMA IdleFits ==
  ASSUME BillingShape, NEW t
  PROVE  RequestFits(t, Idle) /\ Idle \in BillingRequest
<1>1. Idle \in BillingRequest /\ Idle.op = "idle" /\ Idle.at = "start"
      /\ Idle.version = 0 /\ Idle.file = {}
  BY DEF Idle, BillingRequest, Ops, Places
<1>2. period.version \in Nat
  BY DEF BillingShape
<1>3. Idle.op \notin DOMAIN Moves
  BY <1>1, MovesFacts
<1> QED
  BY <1>1, <1>2, <1>3
  DEF RequestFits, PlaceFits, VersionFits, FileFits, AckFits, LineFits, Holding, Filing

(* The row is taken when it is free, or given back by its holder.          *)
HolderMoves(t) ==
  periodHolder' = periodHolder \/ (periodHolder \in {None, t} /\ periodHolder' \in {None, t})

(* A step that changes nothing but what one request does and has read, and *)
(* perhaps takes or releases the row for it.                               *)
LEMMA RequestSteps ==
  ASSUME BillingConstants, BillingInv, NEW t \in Requests, NEW r \in BillingRequest,
         PlaceFits(t, r)', VersionFits(r), FileFits(r), AckFits(r), LineFits(r),
         billReq' = [billReq EXCEPT ![t] = r],
         HolderMoves(t),
         UNCHANGED <<period, inserted, lines, lockEvents, handed, deliveries, racing>>
  PROVE  BillingInv'
<1>1. billReq \in [Requests -> BillingRequest] /\ billReq' \in [Requests -> BillingRequest]
  BY DEF BillingInv, BillingShape
<1>2. BillingShape'
  BY <1>1 DEF HolderMoves, BillingInv, BillingShape
<1>3. DeliveriesFit' /\ SummaryFits' /\ ChecksumMatchesSummary' /\ LockAnnouncedOnce'
  BY DEF BillingInv, DeliveriesFit, SummaryFits, ChecksumMatchesSummary, LockAnnouncedOnce,
         Complete
<1>4. RequestFits(t, billReq[t])'
  <2>1. billReq'[t] = r
    BY <1>1
  <2>2. VersionFits(r)' /\ FileFits(r)' /\ AckFits(r)' /\ LineFits(r)'
    BY DEF VersionFits, FileFits, AckFits, LineFits, Complete
  <2> QED
    BY <2>1, <2>2
    DEF RequestFits, PlaceFits, VersionFits, FileFits, AckFits, LineFits, Complete
<1>5. ASSUME NEW u \in Requests, u # t PROVE RequestFits(u, billReq[u])'
  <2>1. billReq'[u] = billReq[u]
    BY <1>1, <1>5
  <2>2. RequestFits(u, billReq[u])
    BY DEF BillingInv
  <2>3. billReq[u].at \in Holding => periodHolder' = u
    BY <1>5, <2>2 DEF HolderMoves, BillingConstants, RequestFits, PlaceFits
  <2>4. PlaceFits(u, billReq[u])'
    BY <2>1, <2>2, <2>3 DEF RequestFits, PlaceFits
  <2>5. VersionFits(billReq[u])' /\ AckFits(billReq[u])' /\ LineFits(billReq[u])'
    BY <2>1, <2>2 DEF RequestFits, VersionFits, AckFits, LineFits
  <2>6. FileFits(billReq[u])'
    BY <2>1, <2>2 DEF RequestFits, FileFits, Complete
  <2> QED
    BY <2>4, <2>5, <2>6 DEF RequestFits
<1> QED
  BY <1>2, <1>3, <1>4, <1>5 DEF BillingInv

(* A request reads the period's status and version and goes on from there. *)
LEMMA BeginKeeps ==
  ASSUME BillingConstants, BillingInv, NEW t \in Requests, NEW op \in Ops \ {"ack"},
         billReq[t] = Idle, Begin(t, op),
         op \in DOMAIN Moves => period.status \in Moves[op].from,
         op \in Filing => period.status \in Final,
         HolderMoves(t),
         UNCHANGED <<period, inserted, lines, lockEvents, handed, deliveries, racing>>
  PROVE  BillingInv'
<1>1. period.version \in Nat /\ periodHolder \in Requests \cup {None}
      /\ billReq \in [Requests -> BillingRequest]
  BY DEF BillingInv, BillingShape
<1>2. PICK r \in BillingRequest :
        r = [Idle EXCEPT !.op = op, !.at = "read", !.version = period.version]
  BY <1>1 DEF Idle, BillingRequest, Ops, Places
<1>3. billReq' = [billReq EXCEPT ![t] = r]
  BY <1>1, <1>2 DEF Begin
<1>4. r.op = op /\ r.at = "read" /\ r.version = period.version /\ r.file = {}
  BY <1>2 DEF Idle
<1>5. PlaceFits(t, r)'
  BY <1>4 DEF PlaceFits, Holding
<1>6. VersionFits(r)
  BY <1>1, <1>4 DEF VersionFits
<1>7. FileFits(r) /\ AckFits(r) /\ LineFits(r)
  BY <1>4 DEF FileFits, AckFits, LineFits
<1> QED
  BY <1>2, <1>3, <1>5, <1>6, <1>7, RequestSteps

LEMMA CheckPeriodKeeps ==
  ASSUME BillingConstants, BillingInv, NEW t \in Requests, CheckPeriod(t)
  PROVE  BillingInv'
<1>1. PICK kind \in {"entry", "adjustment"} : Begin(t, kind)
  BY DEF CheckPeriod
<1>2. kind \in Ops \ {"ack"} /\ kind \notin DOMAIN Moves /\ kind \notin Filing
  BY MovesFacts DEF Ops, Line, Filing
<1>3. billReq[t] = Idle /\ HolderMoves(t)
      /\ UNCHANGED <<period, inserted, lines, lockEvents, handed, deliveries, racing>>
  BY DEF CheckPeriod, HolderMoves
<1> QED
  BY <1>1, <1>2, <1>3, BeginKeeps

LEMMA ReadPeriodKeeps ==
  ASSUME BillingConstants, BillingInv, NEW t \in Requests, ReadPeriod(t)
  PROVE  BillingInv'
<1>1. PICK action \in DOMAIN Moves : period.status \in Moves[action].from /\ Begin(t, action)
  BY DEF ReadPeriod
<1>2. action \in Ops \ {"ack"} /\ action \notin Filing
  BY MovesFacts DEF Ops
<1>3. billReq[t] = Idle /\ HolderMoves(t)
      /\ UNCHANGED <<period, inserted, lines, lockEvents, handed, deliveries, racing>>
  BY DEF ReadPeriod, HolderMoves
<1> QED
  BY <1>1, <1>2, <1>3, BeginKeeps

LEMMA TakeDueKeeps ==
  ASSUME BillingConstants, BillingInv, NEW t \in Requests, TakeDue(t)
  PROVE  BillingInv'
<1>1. "lock" \in Ops \ {"ack"} /\ "lock" \notin Filing /\ "lock" \in DOMAIN Moves
      /\ "approved" \in Moves["lock"].from
  BY MovesFacts DEF Ops, Filing, Moves
<1>2. billReq[t] = Idle /\ HolderMoves(t)
      /\ UNCHANGED <<period, inserted, lines, lockEvents, handed, deliveries, racing>>
  BY DEF TakeDue, HolderMoves
<1>3. Begin(t, "lock") /\ period.status = "approved"
  BY DEF TakeDue
<1> QED
  BY <1>1, <1>2, <1>3, BeginKeeps

LEMMA StartFileKeeps ==
  ASSUME BillingConstants, BillingInv, NEW t \in Requests, StartFile(t)
  PROVE  BillingInv'
<1>1. PICK op \in Filing : Begin(t, op)
  BY DEF StartFile, Filing
<1>2. period.status \in Final
  BY DEF StartFile, Final
<1>3. op \in Ops \ {"ack"} /\ op \notin DOMAIN Moves
  BY MovesFacts DEF Ops, Filing
<1>4. billReq[t] = Idle /\ HolderMoves(t)
      /\ UNCHANGED <<period, inserted, lines, lockEvents, handed, deliveries, racing>>
  BY DEF StartFile, HolderMoves
<1> QED
  BY <1>1, <1>2, <1>3, <1>4, BeginKeeps

(* What a request holds, spelled out.                                      *)
LEMMA Requested ==
  ASSUME BillingInv, NEW t \in Requests
  PROVE  /\ billReq[t] \in BillingRequest
         /\ PlaceFits(t, billReq[t]) /\ VersionFits(billReq[t]) /\ FileFits(billReq[t])
         /\ AckFits(billReq[t]) /\ LineFits(billReq[t])
         /\ period.version \in Nat /\ lines \subseteq 1 .. inserted /\ inserted \in Nat
         /\ lines \in SUBSET Nat
<1>1. inserted \in Nat /\ lines \subseteq 1 .. inserted
  BY DEF BillingInv, BillingShape
<1>2. lines \in SUBSET Nat
  BY <1>1
<1> QED
  BY <1>1, <1>2 DEF BillingInv, BillingShape, RequestFits

LEMMA ReadSummaryKeeps ==
  ASSUME BillingConstants, BillingInv, NEW t \in Requests, ReadSummary(t)
  PROVE  BillingInv'
<1>1. PICK r \in BillingRequest : r = [billReq[t] EXCEPT !.at = "summarised", !.file = lines]
  BY Requested DEF BillingRequest, Places
<1>2. /\ r.op = billReq[t].op /\ r.op \in Summarising
      /\ r.at = "summarised" /\ r.file = lines /\ r.version = billReq[t].version
  BY <1>1, Requested DEF ReadSummary, At, BillingRequest
<1>3. r.op \notin Filing /\ r.op # "ack"
  BY <1>2 DEF Summarising, Filing
<1>4. PlaceFits(t, r)'
  BY <1>2, Requested DEF ReadSummary, PlaceFits, Holding
<1>5. VersionFits(r)
  BY <1>2, Requested DEF VersionFits
<1>6. FileFits(r) /\ AckFits(r) /\ LineFits(r)
  BY <1>2, <1>3 DEF FileFits, AckFits, LineFits
<1>7. /\ billReq' = [billReq EXCEPT ![t] = r] /\ HolderMoves(t)
      /\ UNCHANGED <<period, inserted, lines, lockEvents, handed, deliveries, racing>>
  BY <1>1 DEF ReadSummary, FinanceLines, HolderMoves, BillingInv, BillingShape
<1> QED
  BY <1>4, <1>5, <1>6, <1>7, RequestSteps

LEMMA ReadLinesKeeps ==
  ASSUME BillingConstants, BillingInv, NEW t \in Requests, ReadLines(t)
  PROVE  BillingInv'
<1>1. PICK r \in BillingRequest : r = [billReq[t] EXCEPT !.at = "produced", !.file = lines]
  BY Requested DEF BillingRequest, Places
<1>2. /\ r.op = billReq[t].op /\ r.op \in Filing
      /\ r.at = "produced" /\ r.file = lines /\ r.version = billReq[t].version
  BY <1>1, Requested DEF ReadLines, At, BillingRequest, Filing
<1>3. PlaceFits(t, r)'
  BY <1>2, Requested DEF ReadLines, PlaceFits, Holding
<1>4. VersionFits(r)
  BY <1>2, Requested DEF VersionFits
<1>5. FileFits(r) /\ AckFits(r) /\ LineFits(r)
  BY <1>2, Requested DEF FileFits, AckFits, LineFits, Complete, Filing
<1>6. /\ billReq' = [billReq EXCEPT ![t] = r] /\ HolderMoves(t)
      /\ UNCHANGED <<period, inserted, lines, lockEvents, handed, deliveries, racing>>
  BY <1>1 DEF ReadLines, FinanceLines, HolderMoves, BillingInv, BillingShape
<1> QED
  BY <1>3, <1>4, <1>5, <1>6, RequestSteps

LEMMA ReadFreshKeeps ==
  ASSUME BillingConstants, BillingInv, NEW t \in Requests, ReadFresh(t)
  PROVE  BillingInv'
<1>1. PICK r \in BillingRequest :
        r = [billReq[t] EXCEPT !.at = "fresh", !.version = period.version]
  BY Requested DEF BillingRequest, Places
<1>2. /\ r.op = billReq[t].op /\ r.op \in Filing /\ billReq[t].at = "produced"
      /\ r.at = "fresh" /\ r.file = billReq[t].file /\ r.version = period.version
  BY <1>1, Requested DEF ReadFresh, At, BillingRequest, Filing
<1>3. PlaceFits(t, r)'
  BY <1>2, Requested DEF ReadFresh, PlaceFits, Holding
<1>4. VersionFits(r)
  BY <1>2, Requested, MovesFacts DEF VersionFits
<1>5. FileFits(r) /\ AckFits(r) /\ LineFits(r)
  BY <1>2, Requested DEF FileFits, AckFits, LineFits, Filing
<1>6. /\ billReq' = [billReq EXCEPT ![t] = r] /\ HolderMoves(t)
      /\ UNCHANGED <<period, inserted, lines, lockEvents, handed, deliveries, racing>>
  BY <1>1 DEF ReadFresh, HolderMoves, BillingInv, BillingShape
<1> QED
  BY <1>3, <1>4, <1>5, <1>6, RequestSteps

LEMMA HoldPeriodKeeps ==
  ASSUME BillingConstants, BillingInv, NEW t \in Requests, HoldPeriod(t)
  PROVE  BillingInv'
<1>1. PICK r \in BillingRequest : r = [billReq[t] EXCEPT !.at = "held"]
  BY Requested DEF BillingRequest, Places, Holding
<1>2. /\ r.op = billReq[t].op /\ r.op \in Filing /\ billReq[t].at = "fresh"
      /\ r.at = "held" /\ r.file = billReq[t].file /\ r.version = billReq[t].version
  BY <1>1, Requested DEF HoldPeriod, At, BillingRequest, Filing
<1>3. PlaceFits(t, r)'
  BY <1>2, Requested DEF HoldPeriod, PlaceFits, Holding
<1>4. VersionFits(r)
  BY <1>2, Requested DEF VersionFits
<1>5. FileFits(r) /\ AckFits(r) /\ LineFits(r)
  BY <1>2, Requested DEF FileFits, AckFits, LineFits, Filing
<1>6. /\ billReq' = [billReq EXCEPT ![t] = r] /\ HolderMoves(t)
      /\ UNCHANGED <<period, inserted, lines, lockEvents, handed, deliveries, racing>>
  BY <1>1 DEF HoldPeriod, CanWrite, HolderMoves, BillingInv, BillingShape
<1> QED
  BY <1>3, <1>4, <1>5, <1>6, RequestSteps

LEMMA ReadDeliveryKeeps ==
  ASSUME BillingConstants, BillingInv, NEW t \in Requests, ReadDelivery(t)
  PROVE  BillingInv'
<1>1. PICK d \in DOMAIN deliveries :
        /\ deliveries[d].status = "delivered"
        /\ billReq' = [billReq EXCEPT ![t].op = "ack", ![t].at = "read", ![t].row = d]
  BY DEF ReadDelivery
<1>2. d \in Nat
  BY <1>1 DEF BillingInv, BillingShape
<1>3. PICK r \in BillingRequest :
        r = [billReq[t] EXCEPT !.op = "ack", !.at = "read", !.row = d]
  BY <1>2, Requested DEF BillingRequest, Places, Ops
<1>4. /\ r.op = "ack" /\ r.at = "read" /\ r.row = d
      /\ r.file = billReq[t].file /\ r.version = billReq[t].version
  BY <1>3, Requested DEF BillingRequest
<1>5. PlaceFits(t, r)'
  BY <1>4, Requested DEF ReadDelivery, PlaceFits, Holding
<1>6. VersionFits(r)
  BY <1>4, Requested, MovesFacts DEF VersionFits
<1>7. FileFits(r) /\ LineFits(r)
  BY <1>4 DEF FileFits, LineFits, Filing
<1>8. AckFits(r)
  BY <1>1, <1>4 DEF AckFits, BillingInv, DeliveriesFit
<1>9. /\ billReq' = [billReq EXCEPT ![t] = r] /\ HolderMoves(t)
      /\ UNCHANGED <<period, inserted, lines, lockEvents, handed, deliveries, racing>>
  BY <1>1, <1>3 DEF ReadDelivery, HolderMoves, BillingInv, BillingShape
<1> QED
  BY <1>5, <1>6, <1>7, <1>8, <1>9, RequestSteps

LEMMA AbortKeeps ==
  ASSUME BillingConstants, BillingInv, NEW t \in Requests, AbortBilling(t)
  PROVE  BillingInv'
<1>1. PICK r \in BillingRequest : r = Idle
  BY IdleFits DEF BillingInv
<1>2. r.op = "idle" /\ r.at = "start" /\ r.file = {}
  BY <1>1 DEF Idle
<1>3. PlaceFits(t, r)'
  BY <1>2 DEF PlaceFits, Holding
<1>4. VersionFits(r) /\ FileFits(r) /\ AckFits(r) /\ LineFits(r)
  BY <1>1, IdleFits DEF RequestFits, BillingInv
<1>5. /\ billReq' = [billReq EXCEPT ![t] = r] /\ HolderMoves(t)
      /\ UNCHANGED <<period, inserted, lines, lockEvents, handed, deliveries, racing>>
  BY <1>1 DEF AbortBilling, Done, HolderMoves
<1> QED
  BY <1>3, <1>4, <1>5, RequestSteps

-----------------------------------------------------------------------------
(* Steps that others can see: each keeps what every other request holds.   *)

LEMMA InsertLineKeeps ==
  ASSUME BillingInv, NEW t \in Requests, InsertLine(t)
  PROVE  BillingInv'
<1>1. /\ billReq \in [Requests -> BillingRequest] /\ inserted \in Nat
      /\ billReq[t].op \in Line /\ inserted' = inserted + 1
      /\ 1 .. inserted \subseteq 1 .. inserted'
  BY DEF InsertLine, At, Line, BillingInv, BillingShape
<1>2. period.status \notin Final
  BY <1>1 DEF InsertLine, Closed, Line
<1>3. billReq[t] \in BillingRequest /\ inserted' \in Nat
  BY <1>1
<1>4. PICK r \in BillingRequest : r = [billReq[t] EXCEPT !.at = "inserted", !.row = inserted']
  BY <1>1, <1>3 DEF BillingRequest, Places
<1>5. /\ r.op = billReq[t].op /\ r.at = "inserted" /\ r.row = inserted + 1
      /\ r.file = billReq[t].file /\ r.version = billReq[t].version
  BY <1>1, <1>3, <1>4 DEF BillingRequest
<1>6. billReq' = [billReq EXCEPT ![t] = r]
  BY <1>4 DEF InsertLine
<1>7. UNCHANGED <<period, periodHolder, lines, lockEvents, handed, deliveries, racing>>
  BY DEF InsertLine
<1>8. BillingShape'
  <2>1. billReq' \in [Requests -> BillingRequest]
    BY <1>1, <1>6
  <2> QED
    BY <1>1, <1>7, <2>1 DEF BillingInv, BillingShape
<1>9. DeliveriesFit' /\ SummaryFits' /\ ChecksumMatchesSummary' /\ LockAnnouncedOnce'
  BY <1>7 DEF BillingInv, DeliveriesFit, SummaryFits, ChecksumMatchesSummary,
              LockAnnouncedOnce, Complete
<1>10. RequestFits(t, billReq[t])'
  <2>1. billReq'[t] = r
    BY <1>1, <1>6
  <2>2. PlaceFits(t, r)'
    BY <1>1, <1>5, Requested DEF PlaceFits, Holding
  <2>3. VersionFits(r)'
    BY <1>1, <1>5, <1>7, Requested, MovesFacts DEF VersionFits
  <2>4. FileFits(r)' /\ AckFits(r)' /\ LineFits(r)'
    BY <1>1, <1>2, <1>5, <1>7 DEF FileFits, AckFits, LineFits, Line, Filing
  <2> QED
    BY <2>1, <2>2, <2>3, <2>4
    DEF RequestFits, PlaceFits, VersionFits, FileFits, AckFits, LineFits, Complete
<1>11. ASSUME NEW u \in Requests, u # t PROVE RequestFits(u, billReq[u])'
  <2>1. billReq'[u] = billReq[u]
    BY <1>1, <1>6, <1>11
  <2>2. PlaceFits(u, billReq[u])'
    BY <1>1, <1>7, <2>1, Requested DEF PlaceFits
  <2>3. VersionFits(billReq[u])' /\ FileFits(billReq[u])'
    BY <1>7, <2>1, Requested DEF VersionFits, FileFits, Complete
  <2>4. AckFits(billReq[u])' /\ LineFits(billReq[u])'
    BY <1>7, <2>1, Requested DEF AckFits, LineFits
  <2> QED
    BY <2>2, <2>3, <2>4 DEF RequestFits
<1> QED
  BY <1>8, <1>9, <1>10, <1>11 DEF BillingInv

LEMMA CommitLineKeeps ==
  ASSUME BillingInv, NEW t \in Requests, CommitLine(t)
  PROVE  BillingInv'
<1>1. /\ billReq \in [Requests -> BillingRequest] /\ billReq' = [billReq EXCEPT ![t] = Idle]
      /\ lines' = lines \cup {billReq[t].row}
      /\ UNCHANGED <<period, periodHolder, inserted, lockEvents, handed, deliveries, racing>>
  BY DEF CommitLine, Done, BillingInv, BillingShape
<1>2. /\ billReq[t].row \in 1 .. inserted
      /\ period.status \in Final => billReq[t].row \in racing
  BY Requested DEF CommitLine, At, PlaceFits, LineFits
<1>3. BillingShape'
  <2>1. billReq' \in [Requests -> BillingRequest]
    BY <1>1, IdleFits DEF BillingInv
  <2> QED
    BY <1>1, <1>2, <2>1 DEF BillingInv, BillingShape
<1>4. ASSUME NEW file, period.status \in Final, Complete(file) PROVE Complete(file)'
  BY <1>1, <1>2, <1>4 DEF Complete
<1>5. DeliveriesFit'
  BY <1>1, <1>2 DEF BillingInv, DeliveriesFit, Complete
<1>6. SummaryFits' /\ ChecksumMatchesSummary' /\ LockAnnouncedOnce'
  BY <1>1, <1>2 DEF BillingInv, SummaryFits, ChecksumMatchesSummary, LockAnnouncedOnce, Complete
<1>7. RequestFits(t, billReq[t])'
  <2>1. billReq'[t] = Idle
    BY <1>1
  <2>2. BillingShape' => RequestFits(t, Idle)'
    BY IdleFits, PTL
  <2> QED
    BY <1>3, <2>1, <2>2
    DEF RequestFits, PlaceFits, VersionFits, FileFits, AckFits, LineFits, Complete
<1>8. ASSUME NEW u \in Requests, u # t PROVE RequestFits(u, billReq[u])'
  <2>1. billReq'[u] = billReq[u]
    BY <1>1, <1>8
  <2>2. PlaceFits(u, billReq[u])' /\ VersionFits(billReq[u])'
    BY <1>1, <2>1, Requested DEF PlaceFits, VersionFits
  <2>3. FileFits(billReq[u])'
    BY <1>1, <1>2, <2>1, Requested DEF FileFits, Complete
  <2>4. AckFits(billReq[u])' /\ LineFits(billReq[u])'
    BY <1>1, <2>1, Requested DEF AckFits, LineFits
  <2> QED
    BY <2>2, <2>3, <2>4 DEF RequestFits
<1> QED
  BY <1>3, <1>5, <1>6, <1>7, <1>8 DEF BillingInv

LEMMA HandOverKeeps ==
  ASSUME BillingInv, NEW t \in Requests, HandOver(t)
  PROVE  BillingInv'
<1>1. PICK answer \in {"delivered", "failed"} :
        /\ billReq' = [billReq EXCEPT ![t].at = answer]
        /\ \/ handed' = handed \cup {billReq[t].file}
           \/ answer = "failed" /\ handed' = handed
  BY DEF HandOver
<1>2. /\ billReq \in [Requests -> BillingRequest] /\ billReq[t] \in BillingRequest
      /\ billReq[t].op = "deliver" /\ billReq[t].at = "held"
      /\ UNCHANGED <<period, periodHolder, inserted, lines, lockEvents, deliveries, racing>>
  BY DEF HandOver, At, BillingInv, BillingShape
<1>3. PICK r \in BillingRequest : r = [billReq[t] EXCEPT !.at = answer]
  BY <1>2 DEF BillingRequest, Places, Holding
<1>4. /\ r.op = "deliver" /\ r.at = answer
      /\ r.file = billReq[t].file /\ r.version = billReq[t].version
  BY <1>2, <1>3 DEF BillingRequest
<1>5. /\ handed \subseteq handed' /\ handed' \subseteq handed \cup {billReq[t].file}
      /\ answer = "delivered" => billReq[t].file \in handed'
  BY <1>1
<1>6. billReq' = [billReq EXCEPT ![t] = r]
  BY <1>1, <1>3
<1>7. BillingShape'
  <2>1. billReq' \in [Requests -> BillingRequest]
    BY <1>2, <1>6
  <2>2. billReq[t].file \subseteq 1 .. inserted
    BY Requested DEF PlaceFits
  <2> QED
    BY <1>2, <1>5, <2>1, <2>2 DEF BillingInv, BillingShape
<1>8. DeliveriesFit'
  BY <1>2, <1>5 DEF BillingInv, DeliveriesFit, Complete
<1>9. SummaryFits' /\ ChecksumMatchesSummary' /\ LockAnnouncedOnce'
  BY <1>2 DEF BillingInv, SummaryFits, ChecksumMatchesSummary, LockAnnouncedOnce, Complete
<1>10. RequestFits(t, billReq[t])'
  <2>1. billReq'[t] = r
    BY <1>2, <1>6
  <2>2. PlaceFits(t, r)' /\ VersionFits(r)'
    BY <1>2, <1>4, Requested DEF PlaceFits, VersionFits, Holding, Filing
  <2>3. FileFits(r)'
    BY <1>2, <1>4, <1>5, Requested DEF FileFits, Filing, Complete
  <2>4. AckFits(r)' /\ LineFits(r)'
    BY <1>4 DEF AckFits, LineFits
  <2> QED
    BY <2>1, <2>2, <2>3, <2>4
    DEF RequestFits, PlaceFits, VersionFits, FileFits, AckFits, LineFits, Complete
<1>11. ASSUME NEW u \in Requests, u # t PROVE RequestFits(u, billReq[u])'
  <2>1. billReq'[u] = billReq[u]
    BY <1>2, <1>6, <1>11
  <2>2. PlaceFits(u, billReq[u])' /\ VersionFits(billReq[u])'
    BY <1>2, <2>1, Requested DEF PlaceFits, VersionFits
  <2>3. FileFits(billReq[u])'
    BY <1>2, <1>5, <2>1, Requested DEF FileFits, Complete
  <2>4. AckFits(billReq[u])' /\ LineFits(billReq[u])'
    BY <1>2, <1>5, <2>1, Requested DEF AckFits, LineFits
  <2> QED
    BY <2>2, <2>3, <2>4 DEF RequestFits
<1> QED
  BY <1>7, <1>8, <1>9, <1>10, <1>11 DEF BillingInv

LEMMA AcknowledgeKeeps ==
  ASSUME BillingInv, NEW t \in Requests, Acknowledge(t)
  PROVE  BillingInv'
<1>1. /\ billReq \in [Requests -> BillingRequest] /\ billReq' = [billReq EXCEPT ![t] = Idle]
      /\ deliveries \in Seq(Delivery)
      /\ UNCHANGED <<period, periodHolder, inserted, lines, lockEvents, handed, racing>>
  BY DEF Acknowledge, Done, BillingInv, BillingShape
<1>2. PICK row \in DOMAIN deliveries : row = billReq[t].row /\ deliveries[row].file \in handed
  BY Requested DEF Acknowledge, At, AckFits
<1>3. deliveries' = [deliveries EXCEPT ![row].status = "acknowledged"]
  BY <1>2 DEF Acknowledge
<1>4. PICK acked \in Delivery : acked = [deliveries[row] EXCEPT !.status = "acknowledged"]
  <2>1. deliveries[row] \in Delivery
    BY <1>1, <1>2
  <2> QED
    BY <2>1 DEF Delivery
<1>5. /\ DOMAIN deliveries' = DOMAIN deliveries /\ Len(deliveries') = Len(deliveries)
      /\ deliveries' \in Seq(Delivery)
      /\ deliveries'[row] = acked
      /\ \A d \in DOMAIN deliveries : d # row => deliveries'[d] = deliveries[d]
  BY <1>1, <1>3, <1>4
<1>6. acked.status = "acknowledged" /\ acked.file = deliveries[row].file
  BY <1>1, <1>2, <1>4 DEF Delivery
<1>7. \A d \in DOMAIN deliveries : deliveries'[d].file = deliveries[d].file
  BY <1>5, <1>6
<1>8. BillingShape'
  <2>1. billReq' \in [Requests -> BillingRequest]
    BY <1>1, IdleFits DEF BillingInv
  <2> QED
    BY <1>1, <1>5, <2>1 DEF BillingInv, BillingShape
<1>9. DeliveriesFit'
  <2>1. period.status \in Final
    BY <1>1, <1>2 DEF BillingInv, DeliveriesFit
  <2>2. ASSUME NEW d \in DOMAIN deliveries'
        PROVE  /\ deliveries'[d].file \subseteq lines /\ Complete(deliveries'[d].file)
               /\ deliveries'[d].status \in {"delivered", "failed"} => d = Len(deliveries)
               /\ deliveries'[d].status \in {"delivered", "acknowledged"} =>
                    deliveries'[d].file \in handed
    BY <1>2, <1>5, <1>6 DEF BillingInv, DeliveriesFit
  <2> QED
    BY <1>1, <1>5, <2>1, <2>2 DEF BillingInv, DeliveriesFit, Complete
<1>10. SummaryFits' /\ ChecksumMatchesSummary' /\ LockAnnouncedOnce'
  BY <1>1 DEF BillingInv, SummaryFits, ChecksumMatchesSummary, LockAnnouncedOnce, Complete
<1>11. RequestFits(t, billReq[t])'
  <2>1. billReq'[t] = Idle
    BY <1>1
  <2>2. BillingShape' => RequestFits(t, Idle)'
    BY IdleFits, PTL
  <2> QED
    BY <1>8, <2>1, <2>2
    DEF RequestFits, PlaceFits, VersionFits, FileFits, AckFits, LineFits, Complete
<1>12. ASSUME NEW u \in Requests, u # t PROVE RequestFits(u, billReq[u])'
  <2>1. billReq'[u] = billReq[u]
    BY <1>1, <1>12
  <2>2. PlaceFits(u, billReq[u])' /\ VersionFits(billReq[u])' /\ LineFits(billReq[u])'
    BY <1>1, <2>1, Requested DEF PlaceFits, VersionFits, LineFits
  <2>3. FileFits(billReq[u])'
    BY <1>1, <2>1, Requested DEF FileFits, Complete
  <2>4. AckFits(billReq[u])'
    BY <1>1, <1>5, <1>7, <2>1, Requested DEF AckFits
  <2> QED
    BY <2>2, <2>3, <2>4 DEF RequestFits
<1> QED
  BY <1>8, <1>9, <1>10, <1>11, <1>12 DEF BillingInv

(* A transition leaves the statuses in which lines are written: nothing    *)
(* was produced from the period yet.                                       *)
LEMMA WriteMoveKeeps ==
  ASSUME BillingInv, NEW t \in Requests, WriteMove(t)
  PROVE  BillingInv'
<1>1. PICK action \in DOMAIN Moves : action = billReq[t].op
  <2>1. Summarising \subseteq DOMAIN Moves
    BY MovesFacts DEF Summarising
  <2> QED
    BY <2>1 DEF WriteMove, At
<1>2. /\ billReq \in [Requests -> BillingRequest] /\ billReq' = [billReq EXCEPT ![t] = Idle]
      /\ period \in [status : Statuses, version : Nat, summary : SUBSET Nat,
                     checksum : (SUBSET Nat) \cup {None}]
      /\ lockEvents \in Nat
      /\ UNCHANGED <<inserted, lines, handed, deliveries>>
  BY DEF WriteMove, Done, BillingInv, BillingShape
<1>3. /\ period.status \in Moves[action].from
      /\ period.status \notin Final
      /\ Moves[action].to \in Statuses /\ Moves[action].to # "exported"
      /\ Moves[action].to \in Final <=> action = "lock"
  BY <1>1, Requested, MovesFacts DEF WriteMove, CanWrite, VersionFits
<1>4. /\ billReq[t].file \subseteq 1 .. inserted /\ billReq[t].file \in SUBSET Nat
  BY <1>2, Requested DEF PlaceFits, BillingRequest
<1>5. /\ period'.status = Moves[action].to /\ period'.version = period.version + 1
      /\ period'.checksum = period.checksum
      /\ period'.summary \in {period.summary, billReq[t].file}
      /\ action = "lock" => period'.summary = billReq[t].file
      /\ period' \in [status : Statuses, version : Nat, summary : SUBSET Nat,
                      checksum : (SUBSET Nat) \cup {None}]
  <2>1. period' = [period EXCEPT !.status = Moves[action].to, !.version = @ + 1,
                     !.summary = IF action \in Summarising THEN billReq[t].file ELSE @]
    BY <1>1 DEF WriteMove
  <2>2. PICK summary \in SUBSET Nat :
          /\ summary = IF action \in Summarising THEN billReq[t].file ELSE period.summary
          /\ action = "lock" => summary = billReq[t].file
    BY <1>2, <1>4 DEF Summarising
  <2>3. PICK to \in Statuses : to = Moves[action].to
    BY <1>3
  <2>4. period' = [period EXCEPT !.status = to, !.version = period.version + 1,
                     !.summary = summary]
    BY <1>2, <2>1, <2>2, <2>3
  <2>5. PICK version \in Nat : version = period.version + 1
    BY <1>2
  <2>6. period' = [period EXCEPT !.status = to, !.version = version, !.summary = summary]
    BY <2>4, <2>5
  <2>7. /\ period'.status = to /\ period'.version = version
        /\ period'.checksum = period.checksum /\ period'.summary = summary
    BY <1>2, <2>6
  <2>8. period' \in [status : Statuses, version : Nat, summary : SUBSET Nat,
                    checksum : (SUBSET Nat) \cup {None}]
    BY <1>2, <2>6
  <2> QED
    BY <2>2, <2>3, <2>5, <2>7, <2>8
<1>6. /\ period.checksum = None /\ lockEvents = 0 /\ deliveries = <<>>
      /\ \A u \in Requests : billReq[u].op \notin Filing
  BY <1>3, Requested DEF BillingInv, ChecksumMatchesSummary, LockAnnouncedOnce,
                         DeliveriesFit, FileFits
<1>7. periodHolder' = None /\ lockEvents' = IF action = "lock" THEN 1 ELSE 0
  BY <1>1, <1>6 DEF WriteMove
<1>8. action = "lock" =>
        /\ lines \ billReq[t].file \subseteq racing'
        /\ \A u \in Requests : billReq[u].at = "inserted" => billReq[u].row \in racing'
  BY <1>1 DEF WriteMove
<1>9. BillingShape'
  <2>1. billReq' \in [Requests -> BillingRequest]
    BY <1>2, IdleFits DEF BillingInv
  <2>2. period'.summary \subseteq 1 .. inserted
    BY <1>4, <1>5 DEF BillingInv, BillingShape
  <2> QED
    BY <1>2, <1>5, <1>6, <1>7, <2>1, <2>2 DEF BillingInv, BillingShape
<1>10. DeliveriesFit'
  BY <1>2, <1>3, <1>5, <1>6 DEF DeliveriesFit
<1>11. SummaryFits'
  BY <1>2, <1>3, <1>5, <1>8 DEF SummaryFits, Complete
<1>12. ChecksumMatchesSummary' /\ LockAnnouncedOnce'
  BY <1>3, <1>5, <1>6, <1>7 DEF ChecksumMatchesSummary, LockAnnouncedOnce
<1>13. RequestFits(t, billReq[t])'
  <2>1. billReq'[t] = Idle
    BY <1>2
  <2>2. BillingShape' => RequestFits(t, Idle)'
    BY IdleFits, PTL
  <2> QED
    BY <1>9, <2>1, <2>2
    DEF RequestFits, PlaceFits, VersionFits, FileFits, AckFits, LineFits, Complete
<1>14. ASSUME NEW u \in Requests, u # t PROVE RequestFits(u, billReq[u])'
  <2>1. billReq'[u] = billReq[u] /\ billReq[u] \in BillingRequest
    BY <1>2, <1>14
  <2>2. PlaceFits(u, billReq[u])'
    BY <1>2, <1>6, <2>1, Requested DEF PlaceFits
  <2>3. VersionFits(billReq[u])'
    <3>1. billReq[u].version \in Nat /\ period.version \in Nat
          /\ billReq[u].version <= period.version
      BY <2>1, Requested DEF BillingRequest, VersionFits
    <3>2. billReq'[u].version < period'.version
      BY <1>5, <2>1, <3>1
    <3> QED
      BY <1>5, <2>1, <3>1, <3>2 DEF VersionFits
  <2>4. FileFits(billReq[u])'
    <3>1. billReq[u].op \notin Filing /\ billReq[u].at # "delivered"
      BY <1>6, Requested DEF PlaceFits, Holding
    <3> QED
      BY <2>1, <3>1 DEF FileFits
  <2>5. AckFits(billReq[u])'
    BY <1>2, <2>1, Requested DEF AckFits
  <2>6. LineFits(billReq[u])'
    BY <1>3, <1>5, <1>8, <2>1 DEF LineFits
  <2> QED
    BY <2>2, <2>3, <2>4, <2>5, <2>6 DEF RequestFits
<1> QED
  BY <1>9, <1>10, <1>11, <1>12, <1>13, <1>14 DEF BillingInv

LEMMA SupersededFacts ==
  ASSUME NEW rows \in Seq(Delivery)
  PROVE  /\ Superseded(rows) \in Seq(Delivery) /\ Len(Superseded(rows)) = Len(rows)
         /\ \A d \in DOMAIN rows : /\ Superseded(rows)[d].status = "superseded"
                                  /\ Superseded(rows)[d].file = rows[d].file
<1>1. Len(rows) \in Nat /\ DOMAIN rows = 1 .. Len(rows)
      /\ \A d \in 1 .. Len(rows) : rows[d] \in Delivery
  OBVIOUS
<1>2. \A d \in 1 .. Len(rows) : /\ [rows[d] EXCEPT !.status = "superseded"] \in Delivery
                               /\ [rows[d] EXCEPT !.status = "superseded"].status = "superseded"
                               /\ [rows[d] EXCEPT !.status = "superseded"].file = rows[d].file
  BY <1>1 DEF Delivery
<1>3. /\ Superseded(rows) \in [1 .. Len(rows) -> Delivery]
      /\ \A d \in 1 .. Len(rows) :
           Superseded(rows)[d] = [rows[d] EXCEPT !.status = "superseded"]
  BY <1>1, <1>2 DEF Superseded
<1>4. Superseded(rows) \in Seq(Delivery) /\ Len(Superseded(rows)) = Len(rows)
  BY <1>1, <1>3
<1> QED
  BY <1>1, <1>2, <1>3, <1>4

(* The deliveries after a delivery: the older ones superseded, one more.   *)
LEMMA Delivered ==
  ASSUME deliveries \in Seq(Delivery), NEW one \in Delivery,
         deliveries' = Append(Superseded(deliveries), one)
  PROVE  /\ deliveries' \in Seq(Delivery)
         /\ DOMAIN deliveries \subseteq DOMAIN deliveries'
         /\ \A d \in DOMAIN deliveries' :
              \/ /\ d \in DOMAIN deliveries
                 /\ deliveries'[d].status = "superseded"
                 /\ deliveries'[d].file = deliveries[d].file
              \/ d = Len(deliveries') /\ d \notin DOMAIN deliveries /\ deliveries'[d] = one
<1>1. /\ Superseded(deliveries) \in Seq(Delivery)
      /\ Len(Superseded(deliveries)) = Len(deliveries)
      /\ Len(deliveries) \in Nat /\ DOMAIN deliveries = 1 .. Len(deliveries)
  BY SupersededFacts
<1>2. /\ deliveries' \in Seq(Delivery) /\ Len(deliveries') = Len(deliveries) + 1
      /\ DOMAIN deliveries' = 1 .. Len(deliveries) + 1
  BY <1>1
<1>3. /\ \A d \in 1 .. Len(deliveries) : deliveries'[d] = Superseded(deliveries)[d]
      /\ deliveries'[Len(deliveries) + 1] = one
  BY <1>1
<1>4. \A d \in 1 .. Len(deliveries) + 1 : d \in 1 .. Len(deliveries) \/ d = Len(deliveries) + 1
  BY <1>1
<1>5. Len(deliveries) + 1 \notin 1 .. Len(deliveries)
      /\ 1 .. Len(deliveries) \subseteq 1 .. Len(deliveries) + 1
  BY <1>1
<1> QED
  BY <1>1, <1>2, <1>3, <1>4, <1>5, SupersededFacts

(* One more delivery, of this file, and the older ones superseded.         *)
Redelivery(one, file) ==
  /\ deliveries' = Append(Superseded(deliveries), one)
  /\ one.file = file
  /\ one.status \in {"delivered", "failed"}
  /\ one.status = "delivered" => one.file \in handed

Redelivers(file) == \E one \in Delivery : Redelivery(one, file)

(* What the commit of a file does to the period and its deliveries.        *)
LEMMA CommitFileFacts ==
  ASSUME BillingInv, NEW t \in Requests, CommitFile(t)
  PROVE  /\ billReq[t].op \in Filing /\ billReq[t].at \in Holding
         /\ billReq[t].file \subseteq lines /\ Complete(billReq[t].file)
         /\ period.status \in Final /\ periodHolder = t
         /\ period' \in [status : Final, version : Nat, summary : SUBSET Nat,
                         checksum : (SUBSET Nat) \cup {None}]
         /\ period.version < period'.version
         /\ period'.summary = billReq[t].file /\ period'.checksum = billReq[t].file
         /\ period'.status = "exported" => handed # {}
         /\ deliveries' = deliveries \/ Redelivers(billReq[t].file)
<1>1. /\ billReq[t] \in BillingRequest /\ PlaceFits(t, billReq[t]) /\ FileFits(billReq[t])
      /\ period \in [status : Statuses, version : Nat, summary : SUBSET Nat,
                     checksum : (SUBSET Nat) \cup {None}]
  BY Requested DEF BillingInv, BillingShape
<1>2. billReq[t].at \in Holding
  BY DEF CommitFile, At, Holding
<1>3. billReq[t].op \in Filing /\ periodHolder = t /\ billReq[t].at # "read"
  BY <1>1, <1>2 DEF PlaceFits, Holding
<1>4. /\ billReq[t].file \subseteq lines /\ Complete(billReq[t].file)
      /\ period.status \in Final
      /\ billReq[t].at = "delivered" => billReq[t].file \in handed
  BY <1>1, <1>3 DEF FileFits
<1>5. PICK file \in SUBSET Nat : file = billReq[t].file
  BY <1>1 DEF BillingRequest
<1>6. PICK status \in Final :
        /\ status = IF billReq[t].at = "delivered" THEN "exported" ELSE period.status
  BY <1>4 DEF Final
<1>7. PICK n \in {1, 2} :
        n = IF billReq[t].at = "delivered" /\ period.status = "locked" THEN 2 ELSE 1
  OBVIOUS
<1>8. PICK version \in Nat : version = period.version + n /\ period.version < version
  BY <1>1
<1>9. period' = [period EXCEPT !.status = status, !.version = version,
                    !.summary = file, !.checksum = file]
  BY <1>1, <1>5, <1>6, <1>7, <1>8 DEF CommitFile
<1>10. /\ period'.status = status /\ period'.version = version
       /\ period'.summary = file /\ period'.checksum = file
  BY <1>1, <1>9
<1>11. period' \in [status : Final, version : Nat, summary : SUBSET Nat,
                    checksum : (SUBSET Nat) \cup {None}]
  BY <1>1, <1>9
<1>12. status = "exported" => handed # {}
  BY <1>4, <1>6 DEF BillingInv, DeliveriesFit
<1>13. deliveries' = deliveries \/ Redelivers(billReq[t].file)
  <2>1. CASE billReq[t].op = "export"
    BY <2>1 DEF CommitFile
  <2>2. CASE billReq[t].op = "deliver"
    <3>1. billReq[t].at \in {"delivered", "failed"}
      BY <2>2 DEF CommitFile, At
    <3>2. PICK one \in Delivery : one = [status |-> billReq[t].at, file |-> file]
      BY <3>1 DEF Delivery
    <3>3. deliveries' = Append(Superseded(deliveries), one)
      BY <1>5, <2>2, <3>2 DEF CommitFile
    <3>4. one.file = billReq[t].file /\ one.status = billReq[t].at
      BY <1>5, <3>2
    <3> QED
      BY <1>4, <3>1, <3>3, <3>4 DEF Redelivers, Redelivery
  <2> QED
    BY <1>3, <2>1, <2>2 DEF Filing
<1> QED
  BY <1>2, <1>3, <1>4, <1>5, <1>8, <1>10, <1>11, <1>12, <1>13

LEMMA CommitFileKeeps ==
  ASSUME BillingConstants, BillingInv, NEW t \in Requests, CommitFile(t)
  PROVE  BillingInv'
<1>1. /\ billReq \in [Requests -> BillingRequest] /\ billReq' = [billReq EXCEPT ![t] = Idle]
      /\ periodHolder' = None /\ deliveries \in Seq(Delivery)
      /\ UNCHANGED <<inserted, lines, lockEvents, handed, racing>>
  BY DEF CommitFile, Done, BillingInv, BillingShape
<1>2. /\ period.status \in Final /\ period'.status \in Final /\ periodHolder = t
      /\ period.version < period'.version
      /\ period'.summary = billReq[t].file /\ period'.checksum = billReq[t].file
      /\ period'.status = "exported" => handed # {}
      /\ billReq[t].file \subseteq lines /\ Complete(billReq[t].file)
  BY CommitFileFacts
<1>3. /\ deliveries' \in Seq(Delivery) /\ DOMAIN deliveries \subseteq DOMAIN deliveries'
      /\ \A d \in DOMAIN deliveries : deliveries'[d].file = deliveries[d].file
      /\ \A d \in DOMAIN deliveries' :
           /\ deliveries'[d].file \subseteq lines /\ Complete(deliveries'[d].file)
           /\ deliveries'[d].status \in {"delivered", "failed"} => d = Len(deliveries')
           /\ deliveries'[d].status \in {"delivered", "acknowledged"} =>
                deliveries'[d].file \in handed
  <2>1. CASE deliveries' = deliveries
    BY <1>1, <2>1 DEF BillingInv, DeliveriesFit
  <2>2. CASE Redelivers(billReq[t].file)
    <3>1. PICK one \in Delivery : Redelivery(one, billReq[t].file)
      BY <2>2 DEF Redelivers
    <3>2. /\ deliveries' \in Seq(Delivery) /\ DOMAIN deliveries \subseteq DOMAIN deliveries'
          /\ \A d \in DOMAIN deliveries' :
               \/ /\ d \in DOMAIN deliveries
                  /\ deliveries'[d].status = "superseded"
                  /\ deliveries'[d].file = deliveries[d].file
               \/ d = Len(deliveries') /\ d \notin DOMAIN deliveries /\ deliveries'[d] = one
      BY <1>1, <3>1, Delivered DEF Redelivery
    <3>3. \A d \in DOMAIN deliveries :
            deliveries[d].file \subseteq lines /\ Complete(deliveries[d].file)
      BY DEF BillingInv, DeliveriesFit
    <3> QED
      BY <1>2, <3>1, <3>2, <3>3 DEF Redelivery
  <2> QED
    BY <2>1, <2>2, CommitFileFacts
<1>4. BillingShape'
  <2>1. billReq' \in [Requests -> BillingRequest]
    BY <1>1, IdleFits DEF BillingInv
  <2>2. period' \in [status : Final, version : Nat, summary : SUBSET Nat,
                    checksum : (SUBSET Nat) \cup {None}]
    BY CommitFileFacts
  <2>3. period' \in [status : Statuses, version : Nat, summary : SUBSET Nat,
                    checksum : (SUBSET Nat) \cup {None}]
    BY <2>2 DEF Statuses
  <2>4. billReq[t].file \subseteq 1 .. inserted
    BY Requested DEF PlaceFits
  <2> QED
    BY <1>1, <1>2, <1>3, <2>1, <2>3, <2>4 DEF BillingInv, BillingShape
<1>5. DeliveriesFit'
  BY <1>1, <1>2, <1>3 DEF DeliveriesFit, Complete
<1>6. SummaryFits' /\ ChecksumMatchesSummary'
  BY <1>1, <1>2 DEF SummaryFits, ChecksumMatchesSummary, Complete
<1>7. LockAnnouncedOnce'
  BY <1>1, <1>2 DEF BillingInv, LockAnnouncedOnce
<1>8. RequestFits(t, billReq[t])'
  <2>1. billReq'[t] = Idle
    BY <1>1
  <2>2. BillingShape' => RequestFits(t, Idle)'
    BY IdleFits, PTL
  <2> QED
    BY <1>4, <2>1, <2>2
    DEF RequestFits, PlaceFits, VersionFits, FileFits, AckFits, LineFits, Complete
<1>9. ASSUME NEW u \in Requests, u # t PROVE RequestFits(u, billReq[u])'
  <2>1. billReq'[u] = billReq[u] /\ billReq[u] \in BillingRequest
    BY <1>1, <1>9
  <2>2. PlaceFits(u, billReq[u])'
    BY <1>1, <1>2, <1>9, <2>1, Requested DEF PlaceFits
  <2>3. VersionFits(billReq[u])'
    <3>1. /\ billReq[u].version \in Nat /\ period.version \in Nat /\ period'.version \in Nat
          /\ billReq[u].version <= period.version
      BY <1>4, <2>1, Requested DEF BillingRequest, VersionFits, BillingShape
    <3>2. billReq'[u].version < period'.version
      BY <1>2, <2>1, <3>1
    <3> QED
      BY <2>1, <3>1, <3>2 DEF VersionFits
  <2>4. FileFits(billReq[u])'
    BY <1>1, <1>2, <2>1, Requested DEF FileFits, Complete
  <2>5. AckFits(billReq[u])'
    BY <1>1, <1>3, <2>1, Requested DEF AckFits
  <2>6. LineFits(billReq[u])'
    BY <1>1, <1>2, <2>1, Requested DEF LineFits
  <2> QED
    BY <2>2, <2>3, <2>4, <2>5, <2>6 DEF RequestFits
<1> QED
  BY <1>4, <1>5, <1>6, <1>7, <1>8, <1>9 DEF BillingInv

LEMMA BillingStarts ==
  BillingInit => BillingInv
<1> SUFFICES ASSUME BillingInit PROVE BillingInv
  OBVIOUS
<1>1. /\ period = [status |-> "open", version |-> 1, summary |-> {}, checksum |-> None]
      /\ periodHolder = None /\ inserted = 0 /\ lines = {} /\ lockEvents = 0 /\ handed = {}
      /\ deliveries = <<>> /\ billReq = [t \in Requests |-> Idle]
  BY DEF BillingInit
<1>2. period.status = "open" /\ "open" \notin Final /\ "open" \in Statuses
  BY <1>1 DEF Final, Statuses, Writable
<1>3. BillingShape
  <2>1. Idle \in BillingRequest
    BY DEF Idle, BillingRequest, Ops, Places
  <2>2. billReq \in [Requests -> BillingRequest]
    BY <1>1, <2>1
  <2>3. period \in [status : Statuses, version : Nat, summary : SUBSET Nat,
                   checksum : (SUBSET Nat) \cup {None}]
    BY <1>1, <1>2
  <2>4. deliveries \in Seq(Delivery) /\ period.summary = {} /\ period.checksum = None
    BY <1>1
  <2> QED
    BY <1>1, <2>2, <2>3, <2>4 DEF BillingShape
<1>4. DeliveriesFit /\ SummaryFits /\ ChecksumMatchesSummary /\ LockAnnouncedOnce
  BY <1>1, <1>2 DEF DeliveriesFit, SummaryFits, ChecksumMatchesSummary, LockAnnouncedOnce
<1>5. \A t \in Requests : RequestFits(t, billReq[t])
  BY <1>1, <1>3, IdleFits
<1> QED
  BY <1>3, <1>4, <1>5 DEF BillingInv

LEMMA BillingStutters ==
  ASSUME BillingInv, UNCHANGED billingVars
  PROVE  BillingInv'
BY DEF billingVars, BillingInv, BillingShape, DeliveriesFit, SummaryFits, Complete,
       ChecksumMatchesSummary, LockAnnouncedOnce,
       RequestFits, PlaceFits, VersionFits, FileFits, AckFits, LineFits

LEMMA BillingSteps ==
  ASSUME BillingConstants, BillingInv, [BillingNext]_billingVars
  PROVE  BillingInv'
<1>1. CASE UNCHANGED billingVars
  BY <1>1, BillingStutters
<1>2. ASSUME NEW t \in Requests,
             CheckPeriod(t) \/ ReadPeriod(t) \/ TakeDue(t) \/ StartFile(t) \/ ReadDelivery(t)
      PROVE  BillingInv'
  BY <1>2, CheckPeriodKeeps, ReadPeriodKeeps, TakeDueKeeps, StartFileKeeps, ReadDeliveryKeeps
<1>3. ASSUME NEW t \in Requests,
             \/ ReadSummary(t) \/ ReadLines(t) \/ ReadFresh(t) \/ HoldPeriod(t)
             \/ AbortBilling(t)
      PROVE  BillingInv'
  BY <1>3, ReadSummaryKeeps, ReadLinesKeeps, ReadFreshKeeps, HoldPeriodKeeps, AbortKeeps
<1>4. ASSUME NEW t \in Requests, InsertLine(t) \/ CommitLine(t) \/ WriteMove(t)
      PROVE  BillingInv'
  BY <1>4, InsertLineKeeps, CommitLineKeeps, WriteMoveKeeps
<1>5. ASSUME NEW t \in Requests, HandOver(t) \/ CommitFile(t) \/ Acknowledge(t)
      PROVE  BillingInv'
  BY <1>5, HandOverKeeps, CommitFileKeeps, AcknowledgeKeeps
<1> QED
  BY <1>1, <1>2, <1>3, <1>4, <1>5 DEF BillingNext

-----------------------------------------------------------------------------
(* The invariant gives every part of BillingSafe.                          *)

LEMMA OneIsOpen ==
  ASSUME BillingInv
  PROVE  OneOpenDelivery
<1> DEFINE open == {d \in DOMAIN deliveries : deliveries[d].status \in {"delivered", "failed"}}
<1>1. open \subseteq {Len(deliveries)}
  BY DEF BillingInv, DeliveriesFit
<1>2. IsFiniteSet({Len(deliveries)}) /\ Cardinality({Len(deliveries)}) = 1
  BY FS_Singleton
<1>3. IsFiniteSet(open) /\ Cardinality(open) \in Nat
  BY <1>1, <1>2, FS_Subset, FS_CardinalityType
<1>4. Cardinality(open) <= Cardinality({Len(deliveries)})
  BY <1>1, <1>2, FS_Subset
<1>5. Cardinality(open) <= 1
  BY <1>2, <1>4
<1> QED
  BY <1>5 DEF OneOpenDelivery

LEMMA MissingRaced ==
  ASSUME BillingInv
  PROVE  MissingLinesRaced
BY DEF BillingInv, DeliveriesFit, SummaryFits, MissingLinesRaced, Complete

(* The invariant is inductive, whatever requests overlap.                  *)
THEOREM BillingInvariant ==
  ASSUME BillingConstants
  PROVE  BillingSpec => []BillingInv
<1>1. BillingInv /\ [BillingNext]_billingVars => BillingInv'
  BY BillingSteps
<1> QED
  BY <1>1, BillingStarts, PTL DEF BillingSpec

(* A locked period's summary and every file that was delivered lack only   *)
(* lines that raced the lock, the checksum is the summary's, the lock is   *)
(* announced once, at most one delivery is open, and what is called        *)
(* exported or delivered reached finance (time.module.ts, finance.module.ts). *)
THEOREM BillingIsSafe ==
  ASSUME BillingConstants
  PROVE  BillingSpec => []BillingSafe
<1>1. BillingInv => BillingSafe
  BY OneIsOpen, MissingRaced
  DEF BillingSafe, BillingInv, DeliveriesFit, ExportedWasHandedOver
<1> QED
  BY <1>1, BillingInvariant, PTL

-----------------------------------------------------------------------------
(* The budget.  Consumption is a sum over the entries; that adding to one  *)
(* entry adds to the sum is proved by taking the least index at which it   *)
(* would not (LeastNumber).  The rest is about what a request has in hand: *)
(* until somebody else commits, the minutes it was judged by are the       *)
(* committed ones (Undisturbed), and a commit while another has read sets  *)
(* contended, after which nothing is promised but single alerts.           *)

(* Every set of numbers has a least one: induction without an operator     *)
(* parameter, on the least number that is not as claimed.                  *)
LEMMA LeastNumber ==
  ASSUME NEW T, T \subseteq Nat, T # {}
  PROVE  \E x \in T : \A y \in T : x <= y
<1>1. PICK R : R = OpToRel(<, Nat)
  OBVIOUS
<1>2. \A x, y \in Nat : <<x, y>> \in R <=> x < y
  BY <1>1 DEF OpToRel
<1>3. \E x \in T : \A y \in T : ~(<<y, x>> \in R)
  BY <1>1, NatLessThanWellFounded, WFMin
<1> HIDE <1>1
<1> QED 
  <2>1. PICK x \in T : \A y \in T : ~(<<y, x>> \in R)
    BY <1>3
  <2>2. \A y \in T : ~(y < x)
    BY <1>2, <2>1
  <2> QED BY <2>1, <2>2

(* s sums entries up to each index, up to n.                               *)
Sums(s, entries, n) == s = [i \in 0..n |-> IF i = 0 THEN 0 ELSE s[i - 1] + entries[i]]

(* There is such a function, so the recursive definition has a value.      *)
LEMMA SumsExist ==
  ASSUME NEW N \in Nat, NEW f \in [1..N -> Int]
  PROVE  \E s \in [0..N -> Int] : Sums(s, f, N)
<1> DEFINE T == {n \in 0..N : ~\E s \in [0..n -> Int] : Sums(s, f, n)}
<1>1. SUFFICES T = {}
  <2>1. N \in 0..N
    OBVIOUS
  <2> QED BY <2>1
<1>2. SUFFICES ASSUME T # {} PROVE FALSE
  OBVIOUS
<1>3. PICK n \in T : \A m \in T : n <= m
  <2>1. T \subseteq Nat
    OBVIOUS
  <2> HIDE DEF T
  <2> QED BY <1>2, <2>1, LeastNumber
<1>4. n # 0
  <2>1. Sums([i \in 0..0 |-> 0], f, 0) /\ [i \in 0..0 |-> 0] \in [0..0 -> Int]
    BY DEF Sums
  <2> QED BY <2>1
<1>5. n - 1 \in 0..N /\ n - 1 \notin T
  BY <1>3, <1>4
<1>6. PICK s \in [0..(n - 1) -> Int] : Sums(s, f, n - 1)
  BY <1>5
<1> DEFINE t == [i \in 0..n |-> IF i = n THEN s[n - 1] + f[n] ELSE s[i]]
<1>7. t \in [0..n -> Int]
  BY <1>3, <1>4
<1>8. Sums(t, f, n)
  <2>1. ASSUME NEW i \in 0..n PROVE t[i] = IF i = 0 THEN 0 ELSE t[i - 1] + f[i]
    <3>1. CASE i = n
      BY <1>3, <1>4, <3>1
    <3>2. CASE i # n
      <4>1. i \in 0..(n - 1) /\ t[i] = s[i]
        BY <1>3, <3>2
      <4>2. s[i] = IF i = 0 THEN 0 ELSE s[i - 1] + f[i]
        BY <1>6, <4>1 DEF Sums
      <4>3. i # 0 => t[i - 1] = s[i - 1]
        BY <1>3, <4>1
      <4> QED BY <4>1, <4>2, <4>3
    <3> QED BY <3>1, <3>2
  <2> QED BY <2>1 DEF Sums
<1> QED BY <1>3, <1>7, <1>8

(* There is only one.                                                      *)
LEMMA SumsAreUnique ==
  ASSUME NEW N \in Nat, NEW f, NEW s, NEW t, Sums(s, f, N), Sums(t, f, N)
  PROVE  s[N] = t[N]
<1> DEFINE T == {n \in 0..N : s[n] # t[n]}
<1>1. SUFFICES ASSUME T # {} PROVE FALSE
  <2>1. N \in 0..N
    OBVIOUS
  <2> QED BY <2>1
<1>2. PICK n \in T : \A m \in T : n <= m
  <2>1. T \subseteq Nat
    OBVIOUS
  <2> HIDE DEF T
  <2> QED BY <1>1, <2>1, LeastNumber
<1>3. /\ s[n] = IF n = 0 THEN 0 ELSE s[n - 1] + f[n]
      /\ t[n] = IF n = 0 THEN 0 ELSE t[n - 1] + f[n]
  BY <1>2 DEF Sums
<1>4. n # 0
  BY <1>2, <1>3
<1>5. s[n - 1] = t[n - 1]
  BY <1>2, <1>4
<1> QED BY <1>2, <1>3, <1>4, <1>5

(* What the consumption of the first N entries is.                         *)
LEMMA MinutesAreSum ==
  ASSUME NEW N \in Nat, NEW f \in [1..N -> Int], NEW s, Sums(s, f, N)
  PROVE  Minutes(f, N) = s[N]
<1> DEFINE total == CHOOSE t : t = [i \in 0..N |-> IF i = 0 THEN 0 ELSE t[i - 1] + f[i]]
<1>1. Minutes(f, N) = total[N]
  BY DEF Minutes
<1>2. Sums(total, f, N)
  BY DEF Sums
<1> HIDE DEF total
<1> QED BY <1>1, <1>2, SumsAreUnique

(* The consumption is a number.                                            *)
LEMMA MinutesAreInt ==
  ASSUME NEW N \in Nat, NEW f \in [1..N -> Int]
  PROVE  Minutes(f, N) \in Int
<1>1. PICK s \in [0..N -> Int] : Sums(s, f, N)
  BY SumsExist
<1> QED BY <1>1, MinutesAreSum

(* Minutes added to one entry are added to the sum.                        *)
LEMMA MinutesAdded ==
  ASSUME NEW N \in Nat, NEW f \in [1..N -> Int], NEW e \in 1..N, NEW d \in Int
  PROVE  Minutes([f EXCEPT ![e] = @ + d], N) = Minutes(f, N) + d
<1>1. PICK s \in [0..N -> Int] : Sums(s, f, N)
  BY SumsExist
<1> DEFINE g == [f EXCEPT ![e] = @ + d]
           t == [i \in 0..N |-> IF i < e THEN s[i] ELSE s[i] + d]
<1>2. g \in [1..N -> Int]
  OBVIOUS
<1>3. Sums(t, g, N)
  <2>1. ASSUME NEW i \in 0..N PROVE t[i] = IF i = 0 THEN 0 ELSE t[i - 1] + g[i]
    <3>1. s[i] = IF i = 0 THEN 0 ELSE s[i - 1] + f[i]
      BY <1>1 DEF Sums
    <3> QED BY <3>1, SMTT(30)
  <2> QED BY <2>1 DEF Sums
<1>4. Minutes(f, N) = s[N]
  BY <1>1, MinutesAreSum
<1>5. t[N] = s[N] + d
  OBVIOUS
<1> HIDE DEF g, t
<1>6. Minutes(g, N) = t[N]
  BY <1>2, <1>3, MinutesAreSum
<1> QED BY <1>1, <1>4, <1>5, <1>6 DEF g

BudgetRequest == [op : {"idle", "entry", "adjust"}, at : {"start"} \cup Reading, entry : Nat,
                  delta : Int, consumed : Int, available : Int,
                  fired : SUBSET Percents, firing : SUBSET Percents]

BudgetShape ==
  /\ BudgetTypeOK
  /\ budgetReq \in [Requests -> BudgetRequest]
  /\ enlarged \in BOOLEAN /\ contended \in BOOLEAN
  /\ \A e \in 1..MaxEntries : e > logged => entryMinutes[e] = 0

(* What holds of a request whatever the others do.                         *)
BudgetRequestFits(r) ==
  /\ r.at \in Reading => r.op # "idle"
  /\ r.at = "checked" => r.op = "adjust"
  /\ r.op = "entry" => r.delta >= 0
  /\ r.op = "adjust" => r.entry \in 1..logged
  /\ r.firing # {} => r.at = "evaluated"
  /\ r.firing \cap budget.fired = {}
  /\ r.at = "judged" => r.available \in 1..Available /\ r.fired \subseteq budget.fired

(* What it found still holds as long as nobody committed meanwhile.        *)
Undisturbed(r) ==
  /\ r.op = "adjust" => entryMinutes[r.entry] + r.delta >= 0
  /\ r.op = "entry" /\ budget.rule = "block" => Consumed + r.delta <= Available
  /\ r.at = "judged" => r.consumed = Consumed + r.delta
  /\ r.at = "evaluated" =>
       \A p \in Percents : (Consumed + r.delta) * 100 >= Available * p => p \in budget.fired \cup r.firing

OneFires == \A t, u \in Requests : budgetReq[t].firing # {} /\ budgetReq[u].firing # {} => t = u

BudgetSafe == BlockHolds /\ NotBelowZero /\ AlertsFireOnce /\ CrossedHasAlerted

BudgetInv ==
  /\ BudgetShape
  /\ \A t \in Requests : BudgetRequestFits(budgetReq[t])
  /\ ~contended => \A t \in Requests : budgetReq[t].at \in Reading => Undisturbed(budgetReq[t])
  /\ OneFires
  /\ BudgetSafe

(* The consumption and the budget of a contract.                           *)
LEMMA ConsumedFacts ==
  ASSUME BudgetConstants, BudgetTypeOK
  PROVE  /\ Consumed \in Int /\ Available \in Nat /\ Available >= Contracted /\ Available > 0
         /\ \A e \in 1..MaxEntries, d \in Int :
              Minutes([entryMinutes EXCEPT ![e] = @ + d], MaxEntries) = Consumed + d
<1>1. MaxEntries \in Nat /\ entryMinutes \in [1..MaxEntries -> Int]
  BY DEF BudgetConstants, BudgetTypeOK
<1>2. Consumed \in Int
  BY <1>1, MinutesAreInt DEF Consumed
<1>3. ASSUME NEW e \in 1..MaxEntries, NEW d \in Int
      PROVE  Minutes([entryMinutes EXCEPT ![e] = @ + d], MaxEntries) = Consumed + d
  BY <1>1, MinutesAdded DEF Consumed
<1>4. Available \in Nat /\ Available >= Contracted /\ Available > 0
  BY DEF BudgetConstants, BudgetTypeOK, Available
<1> QED BY <1>2, <1>3, <1>4

(* No request under way fits every state.                                  *)
LEMMA IdleBudgetRequest ==
  ASSUME NEW fired
  PROVE  /\ NoRequest \in BudgetRequest
         /\ NoRequest.at \notin Reading /\ NoRequest.firing = {} /\ NoRequest.op = "idle"
         /\ BudgetRequestFits(NoRequest)
BY DEF NoRequest, BudgetRequest, Reading, BudgetRequestFits

(* Nothing is consumed of a period that opens.                             *)
LEMMA BudgetStarts ==
  ASSUME BudgetConstants, BudgetInit
  PROVE  BudgetInv
<1>1. PICK rule \in {"block", "allow"} : budget = [rule |-> rule, carried |-> 0, fired |-> {}]
  BY DEF BudgetInit
<1>2. /\ entryMinutes = [e \in 1..MaxEntries |-> 0] /\ logged = 0 /\ alerts = [p \in Percents |-> 0]
      /\ budgetReq = [t \in Requests |-> NoRequest] /\ enlarged = FALSE /\ contended = FALSE
  BY DEF BudgetInit
<1>3. MaxEntries \in Nat /\ entryMinutes \in [1..MaxEntries -> Int]
  BY <1>2 DEF BudgetConstants
<1>4. BudgetTypeOK
  BY <1>1, <1>2, <1>3 DEF BudgetTypeOK
<1>5. Consumed = 0
  <2>1. Sums([i \in 0..MaxEntries |-> 0], entryMinutes, MaxEntries)
    BY <1>2, <1>3 DEF Sums
  <2> QED BY <1>3, <2>1, MinutesAreSum DEF Consumed
<1>6. Available \in Nat /\ Available > 0
  BY <1>4, ConsumedFacts
<1>7. BudgetShape
  BY <1>2, <1>4, IdleBudgetRequest DEF BudgetShape
<1>8. BudgetSafe
  <2>1. ASSUME NEW p \in Percents PROVE Consumed * 100 < Available * p
    <3>1. p \in Nat /\ p > 0 /\ Available * p > 0
      BY <1>6 DEF BudgetConstants
    <3> QED BY <1>5, <3>1
  <2>2. Available * 100 \in Nat
    BY <1>6
  <2>3. CrossedHasAlerted
    <3>1. ASSUME NEW p \in Percents PROVE Available * p \in Nat
      BY <1>6 DEF BudgetConstants
    <3> QED BY <1>5, <2>1, <3>1 DEF CrossedHasAlerted
  <2> QED BY <1>1, <1>2, <1>5, <1>6, <2>3 DEF BudgetSafe, BlockHolds, NotBelowZero, AlertsFireOnce
<1> QED BY <1>2, <1>7, <1>8, IdleBudgetRequest DEF BudgetInv, OneFires

(* A request that moves on, with what it has in hand fitting, disturbs     *)
(* nothing.                                                                *)
LEMMA BudgetRequestMoves ==
  ASSUME BudgetInv, NEW t \in Requests, NEW r \in BudgetRequest,
         budgetReq' = [budgetReq EXCEPT ![t] = r],
         UNCHANGED <<budget, entryMinutes, logged, alerts, enlarged, contended>>,
         BudgetRequestFits(r), ~contended /\ r.at \in Reading => Undisturbed(r),
         r.firing # {} => \A u \in Requests \ {t} : budgetReq[u].firing = {}
  PROVE  BudgetInv'
<1>1. budgetReq' \in [Requests -> BudgetRequest]
  BY DEF BudgetInv, BudgetShape
<1>2. ASSUME NEW u \in Requests PROVE budgetReq'[u] = IF u = t THEN r ELSE budgetReq[u]
  BY DEF BudgetInv, BudgetShape
<1>3. ASSUME NEW x PROVE (BudgetRequestFits(x)' <=> BudgetRequestFits(x)) /\ (Undisturbed(x)' <=> Undisturbed(x))
  BY DEF BudgetRequestFits, Undisturbed, Consumed, Available
<1>4. BudgetShape'
  BY <1>1 DEF BudgetInv, BudgetShape, BudgetTypeOK
<1>5. BudgetSafe'
  BY DEF BudgetInv, BudgetSafe, BlockHolds, NotBelowZero, AlertsFireOnce, CrossedHasAlerted, Consumed, Available
<1>6. ASSUME NEW u \in Requests
      PROVE  /\ BudgetRequestFits(budgetReq[u])'
             /\ ~contended' /\ budgetReq'[u].at \in Reading => Undisturbed(budgetReq[u])'
  <2>1. PICK x : x = budgetReq'[u]
    OBVIOUS
  <2>2. x = IF u = t THEN r ELSE budgetReq[u]
    BY <1>2, <2>1
  <2>3. BudgetRequestFits(x) /\ (~contended /\ x.at \in Reading => Undisturbed(x))
    BY <2>2 DEF BudgetInv
  <2>4. BudgetRequestFits(x)' /\ (~contended' /\ x.at \in Reading => Undisturbed(x)')
    BY <1>3, <2>3
  <2> QED BY <2>1, <2>4 DEF BudgetRequestFits, Undisturbed
<1>7. OneFires'
  BY <1>2 DEF BudgetInv, OneFires
<1> QED BY <1>4, <1>5, <1>6, <1>7 DEF BudgetInv

(* What a judged request has in hand.                                      *)
LEMMA JudgedFits ==
  ASSUME BudgetConstants, BudgetShape, NEW op \in {"entry", "adjust"}, NEW e \in Nat, NEW m \in Int,
         op = "entry" => m >= 0, op = "adjust" => e \in 1..logged
  PROVE  /\ Judged(op, e, m) \in BudgetRequest /\ BudgetRequestFits(Judged(op, e, m))
         /\ Judged(op, e, m).firing = {} /\ Judged(op, e, m).at = "judged" /\ Judged(op, e, m).op = op
         /\ Judged(op, e, m).entry = e /\ Judged(op, e, m).delta = m
         /\ Judged(op, e, m).consumed = Consumed + m
<1>1. Consumed \in Int /\ Available \in Nat /\ Available > 0
  BY ConsumedFacts DEF BudgetShape
<1>2. budget.fired \subseteq Percents
  BY DEF BudgetShape, BudgetTypeOK
<1>3. PICK r : r = Judged(op, e, m)
  OBVIOUS
<1>4. r = [op |-> op, at |-> "judged", entry |-> e, delta |-> m, consumed |-> Consumed + m,
           available |-> Available, fired |-> budget.fired, firing |-> {}]
  BY <1>3 DEF Judged
<1>5. r \in BudgetRequest
  BY <1>1, <1>2, <1>4 DEF BudgetRequest, Reading
<1>6. BudgetRequestFits(r)
  BY <1>1, <1>4 DEF BudgetRequestFits
<1> QED BY <1>3, <1>4, <1>5, <1>6

(* An entry is let through only if it fits the budget it was judged by.    *)
LEMMA JudgeEntryKeeps ==
  ASSUME BudgetConstants, BudgetInv, NEW t \in Requests, JudgeEntry(t)
  PROVE  BudgetInv'
<1>1. PICK m \in EntrySizes : ~Blocked(m) /\ budgetReq' = [budgetReq EXCEPT ![t] = Judged("entry", 0, m)]
  BY DEF JudgeEntry
<1>2. m \in Nat /\ BudgetShape
  BY DEF BudgetConstants, BudgetInv
<1>3. PICK r : r = Judged("entry", 0, m)
  OBVIOUS
<1>4. /\ r \in BudgetRequest /\ BudgetRequestFits(r) /\ r.firing = {} /\ r.at = "judged" /\ r.op = "entry"
      /\ r.delta = m /\ r.consumed = Consumed + m
  BY <1>2, <1>3, JudgedFits
<1>5. Undisturbed(r)
  BY <1>1, <1>2, <1>4, ConsumedFacts DEF Undisturbed, Blocked, BudgetShape
<1>6. budgetReq' = [budgetReq EXCEPT ![t] = r]
  BY <1>1, <1>3
<1>7. UNCHANGED <<budget, entryMinutes, logged, alerts, enlarged, contended>>
  BY DEF JudgeEntry
<1> QED BY <1>4, <1>5, <1>6, <1>7, BudgetRequestMoves

(* An adjustment is checked against the minutes of its entry.              *)
LEMMA CheckAdjustmentKeeps ==
  ASSUME BudgetConstants, BudgetInv, NEW t \in Requests, CheckAdjustment(t)
  PROVE  BudgetInv'
<1>1. PICK e \in 1..logged, delta \in EntrySizes \cup {-m : m \in EntrySizes} :
         /\ entryMinutes[e] + delta \in 0..MaxEntryMinutes
         /\ budgetReq' = [budgetReq EXCEPT ![t] = [NoRequest EXCEPT !.op = "adjust", !.at = "checked",
                                                      !.entry = e, !.delta = delta]]
  BY DEF CheckAdjustment
<1>2. PICK r : r = [NoRequest EXCEPT !.op = "adjust", !.at = "checked", !.entry = e, !.delta = delta]
  OBVIOUS
<1>3. delta \in Int /\ logged \in Nat /\ MaxEntryMinutes \in Nat
  <2>1. EntrySizes \subseteq Int
    BY DEF BudgetConstants
  <2>2. delta \in Int
    BY <2>1
  <2> QED BY <2>2 DEF BudgetConstants, BudgetInv, BudgetShape, BudgetTypeOK
<1>4. r \in BudgetRequest /\ BudgetRequestFits(r) /\ r.firing = {}
  <2>1. r = [op |-> "adjust", at |-> "checked", entry |-> e, delta |-> delta, consumed |-> 0,
             available |-> 0, fired |-> {}, firing |-> {}]
    BY <1>2 DEF NoRequest
  <2>2. e \in Nat
    BY <1>3
  <2>3. r \in BudgetRequest
    BY <1>3, <2>1, <2>2 DEF BudgetRequest, Reading
  <2> QED BY <1>3, <2>1, <2>3 DEF BudgetRequestFits
<1>5. Undisturbed(r)
  <2>1. r.op = "adjust" /\ r.at = "checked" /\ r.entry = e /\ r.delta = delta
    BY <1>2 DEF NoRequest
  <2>2. entryMinutes[e] + delta >= 0
    BY <1>1, <1>3
  <2> QED BY <2>1, <2>2 DEF Undisturbed
<1>6. budgetReq' = [budgetReq EXCEPT ![t] = r]
  BY <1>1, <1>2
<1>7. UNCHANGED <<budget, entryMinutes, logged, alerts, enlarged, contended>>
  BY DEF CheckAdjustment
<1> QED BY <1>4, <1>5, <1>6, <1>7, BudgetRequestMoves

(* Judging an adjustment reads what the check left alone.                  *)
LEMMA JudgeAdjustmentKeeps ==
  ASSUME BudgetConstants, BudgetInv, NEW t \in Requests, JudgeAdjustment(t)
  PROVE  BudgetInv'
<1>1. PICK q, r : q = budgetReq[t] /\ r = Judged("adjust", q.entry, q.delta)
  OBVIOUS
<1>2. q \in BudgetRequest /\ BudgetRequestFits(q) /\ q.at = "checked"
  BY <1>1 DEF BudgetInv, BudgetShape, JudgeAdjustment
<1>3. /\ q.op = "adjust" /\ q.entry \in Nat /\ q.delta \in Int /\ q.entry \in 1..logged
      /\ BudgetShape
  BY <1>2 DEF BudgetRequest, BudgetRequestFits, BudgetInv
<1>4. /\ r \in BudgetRequest /\ BudgetRequestFits(r) /\ r.firing = {} /\ r.at = "judged" /\ r.op = q.op
      /\ r.entry = q.entry /\ r.delta = q.delta /\ r.consumed = Consumed + q.delta
  BY <1>1, <1>3, JudgedFits
<1>5. ~contended => Undisturbed(r)
  <2>1. ~contended => Undisturbed(q)
    BY <1>1, <1>2 DEF BudgetInv, Reading
  <2> QED BY <1>2, <1>4, <2>1 DEF Undisturbed
<1>6. budgetReq' = [budgetReq EXCEPT ![t] = r]
  BY <1>1 DEF JudgeAdjustment
<1>7. UNCHANGED <<budget, entryMinutes, logged, alerts, enlarged, contended>>
  BY DEF JudgeAdjustment
<1> QED BY <1>4, <1>5, <1>6, <1>7, BudgetRequestMoves

(* A larger budget has larger thresholds.                                  *)
LEMMA Larger ==
  ASSUME NEW a \in Nat, NEW b \in Nat, NEW p \in Nat, a <= b
  PROVE  a * p <= b * p /\ a * p \in Nat /\ b * p \in Nat
OBVIOUS

(* The thresholds fired are all that the judged minutes cross and that     *)
(* have not fired.                                                         *)
LEMMA FireThresholdsKeeps ==
  ASSUME BudgetConstants, BudgetInv, NEW t \in Requests, FireThresholds(t)
  PROVE  BudgetInv'
<1>1. PICK q, new, r : /\ q = budgetReq[t] /\ new = ThresholdsToFire(q) \ budget.fired
                       /\ r = [NoRequest EXCEPT !.op = q.op, !.at = "evaluated", !.entry = q.entry,
                                                !.delta = q.delta, !.firing = new]
  OBVIOUS
<1>2. /\ q \in BudgetRequest /\ BudgetRequestFits(q) /\ q.at = "judged"
      /\ new # {} => \A u \in Requests : budgetReq[u].firing = {}
  BY <1>1 DEF BudgetInv, BudgetShape, FireThresholds
<1>3. new \subseteq Percents
  BY <1>1 DEF ThresholdsToFire
<1>4. r \in BudgetRequest /\ r.firing = new /\ r.at = "evaluated" /\ r.op = q.op /\ r.delta = q.delta /\ r.entry = q.entry
  <2>1. r = [op |-> q.op, at |-> "evaluated", entry |-> q.entry, delta |-> q.delta, consumed |-> 0,
             available |-> 0, fired |-> {}, firing |-> new]
    BY <1>1 DEF NoRequest
  <2> QED BY <1>2, <1>3, <2>1 DEF BudgetRequest, Reading
<1>5. new \cap budget.fired = {}
  BY <1>1
<1>6. BudgetRequestFits(r)
  BY <1>2, <1>4, <1>5 DEF BudgetRequestFits, Reading
<1>7. ASSUME ~contended PROVE Undisturbed(r)
  <2>1. Undisturbed(q) /\ q.consumed = Consumed + q.delta
    BY <1>1, <1>2, <1>7 DEF BudgetInv, Undisturbed, Reading
  <2>2. q.available \in 1..Available /\ q.fired \subseteq budget.fired
    BY <1>2 DEF BudgetRequestFits
  <2>3. Available \in Nat /\ Consumed \in Int
    BY ConsumedFacts DEF BudgetInv, BudgetShape
  <2>4. ASSUME NEW p \in Percents, (Consumed + q.delta) * 100 >= Available * p
        PROVE  p \in budget.fired \cup new
    <3>1. p \in Nat
      BY DEF BudgetConstants
    <3>2. q.available \in Nat /\ q.available <= Available /\ q.available > 0
      BY <2>2, <2>3
    <3>3. q.available * p <= Available * p /\ q.available * p \in Nat /\ Available * p \in Nat
      BY <2>3, <3>1, <3>2, Larger
    <3>4. q.consumed \in Int /\ q.consumed * 100 >= q.available * p
      BY <1>2, <2>1, <2>4, <3>3 DEF BudgetRequest
    <3> QED BY <1>1, <2>2, <3>2, <3>4 DEF ThresholdsToFire
  <2> QED BY <1>2, <1>4, <2>1, <2>4 DEF Undisturbed
<1>8. budgetReq' = [budgetReq EXCEPT ![t] = r]
  BY <1>1 DEF FireThresholds
<1>9. UNCHANGED <<budget, entryMinutes, logged, alerts, enlarged, contended>>
  BY DEF FireThresholds
<1> QED BY <1>2, <1>4, <1>6, <1>7, <1>8, <1>9, BudgetRequestMoves

(* Giving up leaves nothing behind.                                        *)
LEMMA AbortBudgetKeeps ==
  ASSUME BudgetInv, NEW t \in Requests, AbortBudget(t)
  PROVE  BudgetInv'
<1>1. /\ budgetReq' = [budgetReq EXCEPT ![t] = NoRequest]
      /\ UNCHANGED <<budget, entryMinutes, logged, alerts, enlarged, contended>>
  BY DEF AbortBudget
<1> QED BY <1>1, IdleBudgetRequest, BudgetRequestMoves

(* The commit adds the judged minutes to one entry.  Whoever else has read *)
(* by then makes it contended.                                             *)
LEMMA CommitMinutesKeeps ==
  ASSUME BudgetConstants, BudgetInv, NEW t \in Requests, CommitMinutes(t)
  PROVE  BudgetInv'
<1>1. PICK r : r = budgetReq[t]
  OBVIOUS
<1>2. PICK e : e = IF r.op = "entry" THEN logged + 1 ELSE r.entry
  OBVIOUS
<1>3. /\ r.at = "evaluated" /\ e <= MaxEntries
      /\ entryMinutes' = [entryMinutes EXCEPT ![e] = @ + r.delta]
      /\ logged' = IF r.op = "entry" THEN e ELSE logged
      /\ budget' = [budget EXCEPT !.fired = @ \cup r.firing]
      /\ alerts' = [p \in Percents |-> alerts[p] + (IF p \in r.firing THEN 1 ELSE 0)]
      /\ enlarged' = (enlarged \/ (r.op = "adjust" /\ r.delta > 0))
      /\ contended' = (contended \/ ReadBefore(t) # {})
      /\ budgetReq' = [budgetReq EXCEPT ![t] = NoRequest]
  BY <1>1, <1>2 DEF CommitMinutes
<1>4. /\ BudgetShape /\ r \in BudgetRequest /\ BudgetRequestFits(r) /\ r.op \in {"entry", "adjust"}
      /\ ~contended => Undisturbed(r)
  BY <1>1, <1>3 DEF BudgetInv, BudgetShape, BudgetRequest, BudgetRequestFits, Reading
<1>5. /\ MaxEntries \in Nat /\ logged \in 0..MaxEntries /\ entryMinutes \in [1..MaxEntries -> Int]
      /\ r.delta \in Int /\ r.firing \subseteq Percents
  BY <1>4 DEF BudgetConstants, BudgetShape, BudgetTypeOK, BudgetRequest
<1>6. e \in 1..MaxEntries /\ (r.op = "adjust" => e \in 1..logged) /\ (r.op = "entry" => e = logged + 1)
  BY <1>2, <1>3, <1>4, <1>5 DEF BudgetRequestFits
<1>7. /\ entryMinutes' \in [1..MaxEntries -> Int]
      /\ \A i \in 1..MaxEntries : entryMinutes'[i] = IF i = e THEN entryMinutes[e] + r.delta ELSE entryMinutes[i]
  BY <1>3, <1>5, <1>6
<1>8. logged' \in 0..MaxEntries /\ logged <= logged' /\ e \in 1..logged' /\ (r.op = "adjust" => logged' = logged)
      /\ (r.op = "entry" => logged' = logged + 1)
  BY <1>3, <1>4, <1>5, <1>6
<1>9. Consumed' = Consumed + r.delta /\ Consumed \in Int
  BY <1>3, <1>4, <1>5, <1>6, ConsumedFacts DEF Consumed, BudgetShape
<1>10. /\ budget'.rule = budget.rule /\ budget'.carried = budget.carried /\ budget'.fired = budget.fired \cup r.firing
       /\ Available' = Available /\ Available \in Nat
  BY <1>3, <1>4, ConsumedFacts DEF Available, BudgetShape, BudgetTypeOK
<1>11. ASSUME NEW u \in Requests PROVE budgetReq'[u] = IF u = t THEN NoRequest ELSE budgetReq[u]
  BY <1>3, <1>4 DEF BudgetShape
<1>12. /\ r.firing \cap budget.fired = {}
       /\ \A p \in Percents : alerts'[p] = alerts[p] + (IF p \in r.firing THEN 1 ELSE 0)
  BY <1>3, <1>4 DEF BudgetRequestFits
<1>13. AlertsFireOnce'
  <2>1. ASSUME NEW p \in Percents PROVE alerts'[p] = IF p \in budget'.fired THEN 1 ELSE 0
    BY <1>10, <1>12 DEF BudgetInv, BudgetSafe, AlertsFireOnce
  <2> QED BY <2>1 DEF AlertsFireOnce
<1>14. NotBelowZero'
  <2>1. ASSUME ~contended', NEW i \in 1..logged' PROVE entryMinutes'[i] >= 0
    <3>1. ~contended /\ Undisturbed(r) /\ NotBelowZero
      BY <1>3, <1>4, <2>1 DEF BudgetInv, BudgetSafe
    <3>2. i \in 1..MaxEntries
      BY <1>5, <1>8
    <3>3. CASE i # e
      <4>1. i \in 1..logged
        BY <1>4, <1>5, <1>6, <1>8, <3>3
      <4> QED BY <1>7, <3>1, <3>2, <3>3, <4>1 DEF NotBelowZero
    <3>4. CASE i = e /\ r.op = "adjust"
      <4>1. e = r.entry
        BY <1>2, <3>4
      <4>2. entryMinutes[e] + r.delta >= 0
        BY <3>1, <3>4, <4>1 DEF Undisturbed
      <4> QED BY <1>5, <1>6, <1>7, <3>2, <3>4, <4>2
    <3>5. CASE i = e /\ r.op = "entry"
      <4>1. r.delta >= 0 /\ entryMinutes[e] = 0
        BY <1>4, <1>5, <1>6, <3>5 DEF BudgetRequestFits, BudgetShape
      <4> QED BY <1>5, <1>7, <3>2, <3>5, <4>1
    <3> QED BY <1>4, <3>3, <3>4, <3>5
  <2> QED BY <2>1 DEF NotBelowZero
<1>15. BlockHolds'
  <2>1. ASSUME budget'.rule = "block", ~contended', ~enlarged' PROVE Consumed' <= Available'
    <3>1. ~contended /\ ~enlarged /\ Undisturbed(r) /\ Consumed <= Available
      BY <1>3, <1>4, <1>10, <2>1 DEF BudgetInv, BudgetSafe, BlockHolds
    <3>2. CASE r.op = "entry"
      BY <1>9, <1>10, <2>1, <3>1, <3>2 DEF Undisturbed
    <3>3. CASE r.op = "adjust"
      <4>1. ~(r.delta > 0)
        BY <1>3, <2>1, <3>3
      <4> QED BY <1>5, <1>9, <1>10, <3>1, <4>1
    <3> QED BY <1>4, <3>2, <3>3
  <2> QED BY <2>1 DEF BlockHolds
<1>16. CrossedHasAlerted'
  <2>1. ASSUME ~contended', NEW p \in Percents, Consumed' * 100 >= Available' * p
        PROVE  p \in budget'.fired
    <3>1. Undisturbed(r)
      BY <1>3, <1>4, <2>1
    <3>2. (Consumed + r.delta) * 100 >= Available * p
      BY <1>9, <1>10, <2>1
    <3> QED BY <1>3, <1>10, <3>1, <3>2 DEF Undisturbed
  <2> QED BY <2>1 DEF CrossedHasAlerted
<1>17. BudgetShape'
  <2>1. budget' \in [rule : {"block", "allow"}, carried : Nat, fired : SUBSET Percents]
    BY <1>3, <1>4, <1>5 DEF BudgetShape, BudgetTypeOK
  <2>2. alerts' \in [Percents -> Nat]
    BY <1>3, <1>4 DEF BudgetShape, BudgetTypeOK
  <2>3. budgetReq' \in [Requests -> BudgetRequest]
    BY <1>3, <1>4, IdleBudgetRequest DEF BudgetShape
  <2>4. enlarged' \in BOOLEAN /\ contended' \in BOOLEAN
    BY <1>3, <1>4 DEF BudgetShape
  <2>5. ASSUME NEW i \in 1..MaxEntries, i > logged' PROVE entryMinutes'[i] = 0
    BY <1>4, <1>5, <1>7, <1>8, <2>5 DEF BudgetShape
  <2> QED BY <1>7, <1>8, <2>1, <2>2, <2>3, <2>4, <2>5 DEF BudgetShape, BudgetTypeOK
<1>18. OneFires'
  BY <1>11, IdleBudgetRequest DEF BudgetInv, OneFires
<1>19. ASSUME NEW u \in Requests
       PROVE  /\ BudgetRequestFits(budgetReq[u])'
              /\ ~contended' => budgetReq'[u].at \notin Reading
  <2>1. PICK x : x = budgetReq'[u]
    OBVIOUS
  <2>2. CASE u = t
    <3>1. x = NoRequest
      BY <1>11, <2>1, <2>2
    <3>2. BudgetRequestFits(x)'
      BY <3>1, IdleBudgetRequest DEF BudgetRequestFits, NoRequest, Reading
    <3> QED BY <2>1, <3>1, <3>2, IdleBudgetRequest DEF BudgetRequestFits
  <2>3. CASE u # t
    <3>1. x = budgetReq[u] /\ BudgetRequestFits(x)
      BY <1>11, <2>1, <2>3 DEF BudgetInv
    <3>2. x.firing # {} => r.firing = {}
      BY <1>1, <2>3, <3>1 DEF BudgetInv, OneFires
    <3>3. x.op = "adjust" => x.entry \in 1..logged'
      BY <1>5, <1>8, <3>1 DEF BudgetRequestFits
    <3>4. BudgetRequestFits(x)'
      BY <1>10, <3>1, <3>2, <3>3 DEF BudgetRequestFits
    <3>5. ~contended' => x.at \notin Reading
      BY <1>3, <2>3, <3>1 DEF ReadBefore
    <3> QED BY <2>1, <3>4, <3>5 DEF BudgetRequestFits
  <2> QED BY <2>2, <2>3
<1> QED BY <1>13, <1>14, <1>15, <1>16, <1>17, <1>18, <1>19 DEF BudgetInv, BudgetSafe

(* More room leaves everything that was found true.                        *)
LEMMA GrantAllowanceKeeps ==
  ASSUME BudgetConstants, BudgetInv, GrantAllowance
  PROVE  BudgetInv'
<1>1. /\ budget' = [budget EXCEPT !.carried = @ + 1]
      /\ UNCHANGED <<entryMinutes, logged, alerts, budgetReq, enlarged, contended>>
  BY DEF GrantAllowance
<1>2. BudgetShape /\ Consumed \in Int /\ Available \in Nat
  BY ConsumedFacts DEF BudgetInv, BudgetShape
<1>3. /\ budget'.rule = budget.rule /\ budget'.fired = budget.fired /\ budget'.carried = budget.carried + 1
      /\ budget' \in [rule : {"block", "allow"}, carried : Nat, fired : SUBSET Percents]
  BY <1>1, <1>2, SMTT(30) DEF BudgetShape, BudgetTypeOK
<1>4. Consumed' = Consumed /\ Available' = Available + 1
  BY <1>1, <1>2, <1>3 DEF Consumed, Available, BudgetShape, BudgetTypeOK, BudgetConstants
<1>5. BudgetShape'
  BY <1>1, <1>2, <1>3 DEF BudgetShape, BudgetTypeOK
<1>6. ASSUME NEW c \in Int, NEW p \in Percents, c * 100 >= Available' * p
      PROVE  c * 100 >= Available * p
  <2>1. p \in Nat /\ Available' \in Nat /\ Available <= Available'
    BY <1>2, <1>4 DEF BudgetConstants
  <2>2. Available * p <= Available' * p /\ Available * p \in Nat /\ Available' * p \in Nat
    BY <1>2, <2>1, Larger
  <2> QED BY <1>6, <2>2
<1>7. BudgetSafe'
  <2>1. BlockHolds'
    BY <1>1, <1>2, <1>3, <1>4 DEF BudgetInv, BudgetSafe, BlockHolds
  <2>2. CrossedHasAlerted'
    <3>1. ASSUME ~contended, NEW p \in Percents, Consumed * 100 >= Available' * p
          PROVE  p \in budget.fired
      BY <1>2, <1>6, <3>1 DEF BudgetInv, BudgetSafe, CrossedHasAlerted
    <3> QED BY <1>1, <1>3, <1>4, <3>1 DEF CrossedHasAlerted
  <2> QED BY <1>1, <1>3, <2>1, <2>2 DEF BudgetInv, BudgetSafe, NotBelowZero, AlertsFireOnce
<1>8. ASSUME NEW u \in Requests
      PROVE  /\ BudgetRequestFits(budgetReq[u])'
             /\ ~contended' /\ budgetReq'[u].at \in Reading => Undisturbed(budgetReq[u])'
  <2>1. PICK x : x = budgetReq[u] /\ x = budgetReq'[u]
    BY <1>1
  <2>2. x \in BudgetRequest /\ BudgetRequestFits(x)
    BY <1>2, <2>1 DEF BudgetInv, BudgetShape
  <2>3. BudgetRequestFits(x)'
    BY <1>1, <1>2, <1>3, <1>4, <2>2 DEF BudgetRequestFits
  <2>4. ASSUME ~contended, x.at \in Reading PROVE Undisturbed(x)'
    <3>1. Undisturbed(x) /\ x.delta \in Int
      BY <2>1, <2>2, <2>4 DEF BudgetInv, BudgetRequest
    <3>2. ASSUME NEW p \in Percents, x.at = "evaluated", (Consumed + x.delta) * 100 >= Available' * p
          PROVE  p \in budget.fired \cup x.firing
      <4>0. PICK c \in Int : c = Consumed + x.delta
        BY <1>2, <3>1
      <4>1. (Consumed + x.delta) * 100 >= Available * p
        BY <1>6, <3>2, <4>0
      <4> QED BY <3>1, <3>2, <4>1 DEF Undisturbed
    <3>3. x.op = "entry" /\ budget.rule = "block" => Consumed + x.delta <= Available'
      BY <1>2, <1>4, <3>1 DEF Undisturbed
    <3> QED BY <1>1, <1>3, <1>4, <3>1, <3>2, <3>3 DEF Undisturbed
  <2> QED BY <1>1, <2>1, <2>3, <2>4 DEF BudgetRequestFits, Undisturbed
<1>9. OneFires'
  BY <1>1 DEF BudgetInv, OneFires
<1> QED BY <1>5, <1>7, <1>8, <1>9 DEF BudgetInv

(* No step of the budget leaves the invariant.                             *)
LEMMA BudgetStep ==
  ASSUME BudgetConstants, BudgetInv, [BudgetNext]_budgetVars
  PROVE  BudgetInv'
<1>1. CASE UNCHANGED budgetVars
  BY <1>1 DEF budgetVars, BudgetInv, BudgetShape, BudgetTypeOK, BudgetRequestFits, Undisturbed, OneFires,
              BudgetSafe, BlockHolds, NotBelowZero, AlertsFireOnce, CrossedHasAlerted, Consumed, Available
<1>2. ASSUME NEW t \in Requests,
             \/ JudgeEntry(t) \/ CheckAdjustment(t) \/ JudgeAdjustment(t)
             \/ FireThresholds(t) \/ CommitMinutes(t) \/ AbortBudget(t)
      PROVE  BudgetInv'
  BY <1>2, JudgeEntryKeeps, CheckAdjustmentKeeps, JudgeAdjustmentKeeps, FireThresholdsKeeps,
     CommitMinutesKeeps, AbortBudgetKeeps
<1> QED BY <1>1, <1>2, GrantAllowanceKeeps DEF BudgetNext

(* The invariant of the budget is inductive, whatever requests overlap.    *)
THEOREM BudgetInvariant ==
  ASSUME BudgetConstants
  PROVE  BudgetSpec => []BudgetInv
<1>1. BudgetInv /\ [BudgetNext]_budgetVars => BudgetInv'
  BY BudgetStep
<1> QED BY <1>1, BudgetStarts, PTL DEF BudgetSpec

(* The rule `block` keeps the consumption in the budget unless requests    *)
(* overlapped or an adjustment enlarged it, no entry goes below zero and   *)
(* every crossed percentage has alerted unless requests overlapped, and a  *)
(* percentage alerts once in any case (time.module.ts insertEntry, adjust; *)
(* budget.ts overageDecision, thresholdsToFire).                           *)
THEOREM BudgetIsKept ==
  ASSUME BudgetConstants
  PROVE  BudgetSpec => [](BlockHolds /\ NotBelowZero /\ AlertsFireOnce /\ CrossedHasAlerted)
<1>1. BudgetInv => BlockHolds /\ NotBelowZero /\ AlertsFireOnce /\ CrossedHasAlerted
  BY DEF BudgetInv, BudgetSafe
<1> QED BY <1>1, BudgetInvariant, PTL
=============================================================================
