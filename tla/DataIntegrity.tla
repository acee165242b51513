----------------------------- MODULE DataIntegrity -----------------------------
(***************************************************************************)
(* Batches that import one range of a client's cases: create, run,         *)
(* extract, map, load, reconcile, explain and signOff of                   *)
(* src/src/modules/migration/migration.service.ts with its repository.     *)
(*                                                                         *)
(* A run is a request that outlives many transactions; it reads the        *)
(* batch's status once, and every later status is written by id.  Whether  *)
(* a case is loaded, updated or skipped is decided by the last import      *)
(* record of the case that names a ticket.  A case is named by its source  *)
(* id; its content is its fields and its thread, the state and the         *)
(* journals, each a number that an edit at the source raises.  An update   *)
(* of a ticket brings the thread and patches no field.  Record times       *)
(* follow the commits.                                                     *)
(*                                                                         *)
(* Tamper evidence of one event stream: the chained digest of each day,    *)
(* its verification and the day's archive file, by DigestService and       *)
(* ArchiveService of src/src/modules/integrity/integrity.module.ts.        *)
(*                                                                         *)
(* A row belongs to the day its transaction began and is read once it has  *)
(* committed, which can be a day later.  A digest is modelled by what it   *)
(* hashes: the rows and the digest before it.  Runs of the digest and the  *)
(* archive job can overlap with each other and, after a run outlived its   *)
(* lease, with themselves.                                                 *)
(***************************************************************************)
EXTENDS Integers, FiniteSets, FiniteSetsExt

CONSTANTS
  Requests,         \* runs at once
  None,
  People,
  Batches,
  Cases,
  MaxChanges,       \* bound on edits of the cases at the source
  MaxStarts,        \* bound on runs
  MaxMishaps,       \* bound on failures and crashes
  Events,           \* rows of the stream
  VerifiedDays,     \* how many of the last digests the verification reads
  LastStreamDay,
  MaxStreamFaults   \* bounds: days; crashes, failed files, late or changed rows, overruns, checks by hand

VARIABLES
  batches,   \* status, dry run, person who ran it
  records,   \* acct.import_records, unique per batch and case
  latest,    \* latestTarget: the content of the last record with a ticket
  tickets,   \* tickets made of each case
  brought,   \* history: the fields and the threads of a case that came in
  cases,     \* content of the cases at the source
  migRun,    \* the runs in progress
  reports,   \* the last reconciliation report of a batch
  starts, mishaps,
  together,  \* history: two runs were in progress at once
  restarted, \* history: batches started more than once
  revived,   \* history: a superseded or failed batch took a status beside a newer one
  crashed,   \* history: batches whose run ended with its process
  today,
  events,   \* the stream: day begun, day committed, day and way somebody changed it
  digests,  \* sys.event_digests by day: what was hashed
  filed,    \* days whose digest file is in the object store
  checks,   \* sys.digest_verifications: the last one of each day, its day and verdict
  cold,     \* archive files by day: the rows in them
  archives, \* sys.event_archives by day: the rows counted and whether a digest is named
  runs,     \* the runs of the jobs
  faults    \* history: number of faults

-----------------------------------------------------------------------------
(* Imported batches                                                        *)

migrationVars == <<batches, records, latest, tickets, brought, cases, migRun, reports,
                   starts, mishaps, together, restarted, revived, crashed>>

Idle == [at |-> "idle"]
NoReport == [status |-> "none"]
Contents == [fields : 0 .. MaxChanges, thread : 0 .. MaxChanges]
Unedited == [fields |-> 0, thread |-> 0]
Statuses == {"none", "draft", "extracting", "extracted", "mapped", "loading", "loaded",
             "reconciling", "reconciled", "signed_off", "superseded", "failed"}
\* One batch of a range at a time, by ux_acct_import_batches_scope_active.
Active == {"draft", "extracting", "extracted", "loading", "reconciling"}

MigrationTypeOK ==
  /\ batches \in [Batches -> [status : Statuses, dry : BOOLEAN, runBy : People \cup {None}]]
  /\ records \in [Batches -> [Cases ->
       [status : {"none", "pending", "skipped", "loaded", "updated", "error"},
        target : BOOLEAN, content : Contents]]]
  /\ latest \in [Cases -> Contents \cup {None}]
  /\ tickets \in [Cases -> Nat]
  /\ \A c \in Cases : brought[c].fields \cup brought[c].thread \subseteq 0 .. MaxChanges
  /\ cases \in [Cases -> Contents]
  /\ \A b \in Batches : reports[b].status \in {"none", "open", "signed_off"}
  /\ starts \in 0 .. MaxStarts /\ mishaps \in 0 .. MaxMishaps
  /\ together \in BOOLEAN /\ revived \in BOOLEAN
  /\ restarted \subseteq Batches /\ crashed \subseteq Batches

NoRecord == [status |-> "none", target |-> FALSE, content |-> Unedited]

(* The range is new, or an earlier batch has brought it in.                *)
MigrationInit ==
  /\ batches = [b \in Batches |-> [status |-> "none", dry |-> TRUE, runBy |-> None]]
  /\ records = [b \in Batches |-> [c \in Cases |-> NoRecord]]
  /\ \/ /\ latest = [c \in Cases |-> None] /\ tickets = [c \in Cases |-> 0]
        /\ brought = [c \in Cases |-> [fields |-> {}, thread |-> {}]]
     \/ /\ latest = [c \in Cases |-> Unedited] /\ tickets = [c \in Cases |-> 1]
        /\ brought = [c \in Cases |-> [fields |-> {0}, thread |-> {0}]]
  /\ cases = [c \in Cases |-> Unedited]
  /\ migRun = [t \in Requests |-> Idle]
  /\ reports = [b \in Batches |-> NoReport]
  /\ starts = 0 /\ mishaps = 0
  /\ together = FALSE /\ restarted = {} /\ revived = FALSE /\ crashed = {}

-----------------------------------------------------------------------------
Free(b) == \A c \in Batches \ {b} : batches[c].status \notin Active

(* A new batch supersedes those of its range that did not fail; it is      *)
(* inserted before that, so one that is active is in its way.              *)
Supersedes(b) ==
  [c \in Batches |->
     IF batches[c].status \in {"none", "superseded", "failed"} THEN batches[c]
     ELSE [batches[c] EXCEPT !.status = "superseded"]]

Create(b, p, dry) ==
  /\ batches[b].status = "none" /\ Free(b)
  /\ batches' = [Supersedes(b) EXCEPT ![b] = [status |-> "draft", dry |-> dry, runBy |-> p]]
  /\ UNCHANGED <<records, latest, tickets, brought, cases, migRun, reports, starts, mishaps,
                 together, restarted, revived, crashed>>

SourceChanges(c) ==
  /\ cases[c].fields + cases[c].thread < MaxChanges
  /\ \E half \in {"fields", "thread"} : cases' = [cases EXCEPT ![c][half] = @ + 1]
  /\ UNCHANGED <<batches, records, latest, tickets, brought, migRun, reports, starts, mishaps,
                 together, restarted, revived, crashed>>

(* The status is read without a lock, and another run may be starting.     *)
Look(t, b, p) ==
  /\ migRun[t] = Idle
  /\ starts < MaxStarts /\ starts' = starts + 1
  /\ batches[b].status \in {"draft", "failed"}
  /\ migRun' = [migRun EXCEPT ![t] = [at |-> "starting", batch |-> b, by |-> p]]
  /\ together' = (together \/ \E u \in Requests : migRun[u] # Idle)
  /\ UNCHANGED <<batches, records, latest, tickets, brought, cases, reports, mishaps, restarted,
                 revived, crashed>>

Batch(t) == migRun[t].batch
Others(b) == \E c \in Batches \ {b} : batches[c].status \notin {"none", "superseded", "failed"}
Revives(b) ==
  revived' = (revived \/ (batches[b].status \in {"superseded", "failed"} /\ Others(b)))

Ends(t) == migRun' = [migRun EXCEPT ![t] = Idle]
Fails(t) ==
  /\ batches' = [batches EXCEPT ![Batch(t)].status = "failed"]
  /\ UNCHANGED revived
  /\ Ends(t)

Status(t, status) ==
  /\ status \in Active => Free(Batch(t))
  /\ batches' = [batches EXCEPT ![Batch(t)].status = status]
  /\ Revives(Batch(t))

Start(t) ==
  /\ migRun[t].at = "starting"
  /\ IF Free(Batch(t))
     THEN /\ batches' = [batches EXCEPT ![Batch(t)] =
                            [@ EXCEPT !.status = "extracting", !.runBy = migRun[t].by]]
          /\ Revives(Batch(t))
          /\ restarted' = IF batches[Batch(t)].status = "draft" THEN restarted
                          ELSE restarted \cup {Batch(t)}
          /\ migRun' = [migRun EXCEPT ![t].at = "started"]
     ELSE Ends(t) /\ UNCHANGED <<batches, restarted, revived>>
  /\ UNCHANGED <<records, latest, tickets, brought, cases, reports, starts, mishaps, together,
                 crashed>>

Extract(t) ==
  /\ migRun[t].at = "started"
  /\ Status(t, "extracted")
  /\ migRun' = [migRun EXCEPT ![t] = [at |-> "extracted", batch |-> Batch(t), by |-> migRun[t].by,
                                      content |-> cases]]
  /\ UNCHANGED <<records, latest, tickets, brought, cases, reports, starts, mishaps, together,
                 restarted, crashed>>

Decision(t, c) ==
  IF latest[c] = None THEN "load" ELSE IF latest[c] = migRun[t].content[c] THEN "skip" ELSE "update"

Clash(t, c) == records[Batch(t)][c] # NoRecord
(* One transaction, with a status on the way that the index counts: a      *)
(* record at once for what will not be loaded.                             *)
Map(t) ==
  LET dry == batches[Batch(t)].dry
      now == {c \in Cases : dry \/ Decision(t, c) = "skip"}
  IN
  /\ migRun[t].at = "extracted"
  /\ IF ~Free(Batch(t)) \/ \E c \in now : Clash(t, c)
     THEN Fails(t) /\ UNCHANGED <<records, latest>>
     ELSE
       /\ records' = [records EXCEPT ![Batch(t)] =
            [c \in Cases |->
               IF c \in now
               THEN [status |-> IF Decision(t, c) = "skip" THEN "skipped" ELSE "pending",
                     target |-> latest[c] # None, content |-> migRun[t].content[c]]
               ELSE @[c]]]
       /\ latest' = [c \in Cases |->
            IF c \in now /\ latest[c] # None THEN migRun[t].content[c] ELSE latest[c]]
       /\ Status(t, "mapped")
       /\ migRun' = [migRun EXCEPT ![t] =
            [at |-> IF dry THEN "loaded" ELSE "mapped", batch |-> Batch(t), by |-> migRun[t].by,
             content |-> migRun[t].content, todo |-> Cases \ now,
             decision |-> [c \in Cases |-> Decision(t, c)]]]
  /\ UNCHANGED <<tickets, brought, cases, reports, starts, mishaps, together, restarted, crashed>>

StartLoad(t) ==
  /\ migRun[t].at = "mapped"
  /\ Status(t, "loading")
  /\ migRun' = [migRun EXCEPT ![t].at = "loading"]
  /\ UNCHANGED <<records, latest, tickets, brought, cases, reports, starts, mishaps, together,
                 restarted, crashed>>

(* A case in a transaction of its own, the ticket and its record: a new    *)
(* ticket has fields and thread, one there is gets the thread only.  A     *)
(* second record of the batch for the case is refused, also the one that   *)
(* would report the error, and the run fails.                              *)
LoadCase(t, c) ==
  /\ migRun[t].at = "loading" /\ c \in migRun[t].todo
  /\ IF Clash(t, c)
     THEN Fails(t) /\ UNCHANGED <<records, latest, tickets, brought>>
     ELSE LET content == migRun[t].content[c]
              loads   == migRun[t].decision[c] = "load" IN
       /\ records' = [records EXCEPT ![Batch(t)][c] =
            [status |-> IF loads THEN "loaded" ELSE "updated", target |-> TRUE, content |-> content]]
       /\ latest' = [latest EXCEPT ![c] = content]
       /\ tickets' = [tickets EXCEPT ![c] = IF loads THEN @ + 1 ELSE @]
       /\ brought' = [brought EXCEPT ![c].thread = @ \cup {content.thread},
                                     ![c].fields = IF loads THEN @ \cup {content.fields} ELSE @]
       /\ migRun' = [migRun EXCEPT ![t].todo = @ \ {c}]
       /\ UNCHANGED <<batches, revived>>
  /\ UNCHANGED <<cases, reports, starts, mishaps, together, restarted, crashed>>

LoadError(t, c) ==
  /\ migRun[t].at = "loading" /\ c \in migRun[t].todo /\ ~Clash(t, c)
  /\ mishaps < MaxMishaps /\ mishaps' = mishaps + 1
  /\ records' = [records EXCEPT ![Batch(t)][c] =
       [status |-> "error", target |-> FALSE, content |-> migRun[t].content[c]]]
  /\ migRun' = [migRun EXCEPT ![t].todo = @ \ {c}]
  /\ UNCHANGED <<batches, latest, tickets, brought, cases, reports, starts, together, restarted,
                 revived, crashed>>

Loaded(t) ==
  /\ migRun[t].at = "loading" /\ migRun[t].todo = {}
  /\ Status(t, "loaded")
  /\ migRun' = [migRun EXCEPT ![t].at = "loaded"]
  /\ UNCHANGED <<records, latest, tickets, brought, cases, reports, starts, mishaps, together,
                 restarted, crashed>>

(* The tickets of the source are counted against the cases extracted; a    *)
(* dry run counts the cases against themselves.  A signed report stays and *)
(* a new one is opened.                                                    *)
Matched(b) == batches[b].dry \/ \A c \in Cases : tickets[c] = 1

Reconcile(t) ==
  LET batch == Batch(t) IN
  /\ migRun[t].at = "loaded"
  /\ reports' = [reports EXCEPT ![batch] =
       [status |-> "open", open |-> ~Matched(batch), maker |-> migRun[t].by, signer |-> None]]
  /\ Status(t, "reconciling")
  /\ migRun' = [migRun EXCEPT ![t].at = "counted"]
  /\ UNCHANGED <<records, latest, tickets, brought, cases, starts, mishaps, together, restarted,
                 crashed>>

Finish(t) ==
  /\ migRun[t].at = "counted"
  /\ Status(t, "reconciled")
  /\ migRun' = [migRun EXCEPT ![t] = Idle]
  /\ UNCHANGED <<records, latest, tickets, brought, cases, reports, starts, mishaps, together,
                 restarted, crashed>>

Running(t) == migRun[t].at \notin {"idle", "starting"}

(* Also when a status finds another batch of the range active.             *)
Blocked(t) == migRun[t].at \in {"started", "mapped", "loaded"} /\ ~Free(Batch(t))
RunFails(t) ==
  /\ Running(t)
  /\ IF Blocked(t) THEN UNCHANGED mishaps ELSE mishaps < MaxMishaps /\ mishaps' = mishaps + 1
  /\ Fails(t)
  /\ UNCHANGED <<records, latest, tickets, brought, cases, reports, starts, together, restarted,
                 crashed>>

(* The process ends; the batch keeps the status it has.                    *)
Crash(t) ==
  /\ Running(t)
  /\ mishaps < MaxMishaps /\ mishaps' = mishaps + 1
  /\ crashed' = crashed \cup {Batch(t)}
  /\ Ends(t)
  /\ UNCHANGED <<batches, records, latest, tickets, brought, cases, reports, starts, together,
                 restarted, revived>>

-----------------------------------------------------------------------------
(* Both are under the report's version, so they are one step.              *)
Explain(b) ==
  /\ reports[b].status = "open" /\ reports[b].open
  /\ reports' = [reports EXCEPT ![b].open = FALSE]
  /\ UNCHANGED <<batches, records, latest, tickets, brought, cases, migRun, starts, mishaps,
                 together, restarted, revived, crashed>>

SignOff(b, p) ==
  /\ reports[b].status = "open" /\ ~reports[b].open
  /\ batches[b].runBy # p
  /\ reports' = [reports EXCEPT ![b].status = "signed_off", ![b].signer = p]
  /\ batches' = [batches EXCEPT ![b].status = "signed_off"]
  /\ Revives(b)
  /\ UNCHANGED <<records, latest, tickets, brought, cases, migRun, starts, mishaps, together,
                 restarted, crashed>>

MigrationNext ==
  \/ \E b \in Batches, p \in People, dry \in BOOLEAN : Create(b, p, dry)
  \/ \E c \in Cases : SourceChanges(c)
  \/ \E t \in Requests :
       \/ \E b \in Batches, p \in People : Look(t, b, p)
       \/ Start(t) \/ Extract(t) \/ Map(t) \/ StartLoad(t)
       \/ \E c \in Cases : LoadCase(t, c) \/ LoadError(t, c)
       \/ Loaded(t) \/ Reconcile(t) \/ Finish(t) \/ RunFails(t) \/ Crash(t)
  \/ \E b \in Batches : Explain(b) \/ \E p \in People : SignOff(b, p)

-----------------------------------------------------------------------------
\* However often a range is imported, rehearsed, failed and run again, a case
\* has one ticket, as long as no two runs are in progress at once.
OneTicketPerCase == \A c \in Cases : tickets[c] <= 1 \/ together

Skipped(b, c) == records[b][c].status = "skipped"
Rehearsed(c, content) ==
  \E b \in Batches :
    batches[b].dry /\ records[b][c].target /\ records[b][c].content = content
Unpatched(c, fields) ==
  \E b \in Batches : records[b][c].status = "updated" /\ records[b][c].content.fields = fields

\* A case is skipped as unchanged only when its thread was brought in by a
\* load or an update, and its fields by a load ("an unchanged row is `skipped`,
\* a changed one `updated`", migration.service.ts 50-51).  In two ways the
\* record runs ahead of the ticket, and they are named: a rehearsal has
\* recorded that content against the ticket (insertRecord of a dry run carries
\* the ticket's id), or an update has recorded fields that it did not patch.
SkippedWasBrought ==
  \A b \in Batches, c \in Cases :
    LET content == records[b][c].content
    IN  Skipped(b, c) =>
          \/ Rehearsed(c, content)
          \/ /\ content.thread \in brought[c].thread
             /\ content.fields \in brought[c].fields \/ Unpatched(c, content.fields)

\* A report is signed by somebody who did not run what it reports, unless
\* the batch was started more than once: each start replaces run_by.
SignedByAnother ==
  \A b \in Batches :
    reports[b].status = "signed_off" => reports[b].signer # reports[b].maker \/ b \in restarted

\* One batch of a range counts, unless a superseded or failed batch was run
\* on, or signed, beside a newer one.
OneBatchCounts ==
  revived \/ Cardinality({b \in Batches :
               batches[b].status \notin {"none", "superseded", "failed"}}) <= 1

\* Only a crash leaves a batch in the middle of a run nobody is at, from
\* which neither it nor another batch of its range can be started.
NoneIsStranded ==
  \A b \in Batches :
    batches[b].status \in Active \ {"draft"} =>
      b \in crashed \/ \E t \in Requests : Running(t) /\ Batch(t) = b

-----------------------------------------------------------------------------
(* Tamper evidence of an event stream                                      *)

integrityVars == <<today, events, digests, filed, checks, cold, archives, runs, faults>>

StreamDays == 1 .. LastStreamDay
NoEvent == [day |-> None, on |-> None, changedOn |-> None, how |-> "kept"]
Resting == [kind |-> None, day |-> None, upto |-> None, step |-> "idle", rows |-> {}, previous |-> None]

IntegrityTypeOK ==
  /\ today \in StreamDays /\ faults \in 0 .. MaxStreamFaults
  /\ \A e \in Events : /\ {events[e].day, events[e].on, events[e].changedOn} \subseteq StreamDays \cup {None}
                       /\ events[e].how \in {"kept", "altered", "deleted"}
  /\ filed \subseteq {d \in StreamDays : digests[d] # None}
  /\ \A d \in StreamDays : checks[d] # None => digests[d] # None /\ checks[d].on \in StreamDays
  /\ \A d \in StreamDays : archives[d] # None => cold[d] # None /\ archives[d].named \in BOOLEAN
  /\ \A r \in Requests : runs[r].step \in {"idle", "read", "insert", "file", "store"}

IntegrityInit ==
  /\ today = 1
  /\ events = [e \in Events |-> NoEvent]
  /\ digests = [d \in StreamDays |-> None] /\ filed = {} /\ checks = [d \in StreamDays |-> None]
  /\ cold = [d \in StreamDays |-> None] /\ archives = [d \in StreamDays |-> None]
  /\ runs = [r \in Requests |-> Resting]
  /\ faults = 0

\* A transaction records an event on the day it began, and commits then or,
\* as a fault, on a later day.
Record(e) ==
  /\ events[e] = NoEvent
  /\ \/ events' = [events EXCEPT ![e].day = today, ![e].on = today] /\ UNCHANGED faults
     \/ /\ faults < MaxStreamFaults /\ faults' = faults + 1
        /\ events' = [events EXCEPT ![e].day = today]
  /\ UNCHANGED <<today, digests, filed, checks, cold, archives, runs>>

CommitLate(e) ==
  /\ events[e].day # None /\ events[e].on = None /\ events[e].day < today
  /\ events' = [events EXCEPT ![e].on = today]
  /\ UNCHANGED <<today, digests, filed, checks, cold, archives, runs, faults>>

\* Somebody changes a row behind the program's back.
Tamper(e, how) ==
  /\ events[e].on # None /\ events[e].how = "kept"
  /\ faults < MaxStreamFaults /\ faults' = faults + 1
  /\ events' = [events EXCEPT ![e].changedOn = today, ![e].how = how]
  /\ UNCHANGED <<today, digests, filed, checks, cold, archives, runs>>

\* rowsOf: what a reader of a day sees.
RowsOf(d) == {<<e, events[e].how>> : e \in {f \in Events : events[f].day = d /\ events[f].on # None
                                                            /\ events[f].how # "deleted"}}
\* The earliest row there is; nothing to do on a stream that has none.
FirstDay == LET days == {d \in StreamDays : RowsOf(d) # {}} IN IF days = {} THEN None ELSE Min(days)

DigestedDays == {d \in StreamDays : digests[d] # None}
LastDigest == IF DigestedDays = {} THEN None ELSE digests[Max(DigestedDays)]
Compute(rows, previous) == [rows |-> rows, previous |-> previous]

ArchivedDays == {d \in StreamDays : archives[d] # None}
DaysDone(kind) == IF kind = "digest" THEN DigestedDays ELSE ArchivedDays

\* The day after the last one done, or the first of the stream.
FirstMissing(kind) == IF DaysDone(kind) = {} THEN FirstDay ELSE 1 + Max(DaysDone(kind))

\* A second run of a job beside the first means that one outlived its lease.
StartRun(r, kind) ==
  /\ runs[r] = Resting
  /\ IF \E q \in Requests : runs[q].kind = kind
     THEN faults < MaxStreamFaults /\ faults' = faults + 1
     ELSE UNCHANGED faults
  /\ FirstMissing(kind) # None /\ FirstMissing(kind) < today
  /\ runs' = [runs EXCEPT ![r] = [Resting EXCEPT !.kind = kind, !.day = FirstMissing(kind),
                                                 !.upto = today - 1, !.step = "read"]]
  /\ UNCHANGED <<today, events, digests, filed, checks, cold, archives>>

\* The next day up to the yesterday of the run's start.
NextDay(x) == IF x.day = x.upto THEN Resting
              ELSE [x EXCEPT !.day = x.day + 1, !.step = "read", !.rows = {}, !.previous = None]

\* write and export return what is there already, and otherwise read the day.
ReadDay(r) ==
  LET x == runs[r] IN
  /\ x.step = "read"
  /\ runs' = [runs EXCEPT ![r] =
       IF x.day \in DaysDone(x.kind) THEN NextDay(x)
       ELSE [x EXCEPT !.rows = RowsOf(x.day),
                      !.previous = IF x.kind = "digest" THEN LastDigest ELSE None,
                      !.step = IF x.kind = "digest" THEN "insert" ELSE "store"]]
  /\ UNCHANGED <<today, events, digests, filed, checks, cold, archives, faults>>

\* unique (stream, day): the insert that comes second fails its run.
InsertDigest(r) ==
  LET x == runs[r] IN
  /\ x.step = "insert" /\ x.kind = "digest"
  /\ IF digests[x.day] # None
     THEN runs' = [runs EXCEPT ![r] = Resting] /\ UNCHANGED digests
     ELSE /\ digests' = [digests EXCEPT ![x.day] = Compute(x.rows, x.previous)]
          /\ runs' = [runs EXCEPT ![r].step = "file"]
  /\ UNCHANGED <<today, events, filed, checks, cold, archives, faults>>

\* A file that cannot be stored is logged and never tried again.
StoreDigestFile(r) ==
  LET x == runs[r] IN
  /\ x.step = "file"
  /\ \/ filed' = filed \cup {x.day} /\ UNCHANGED faults
     \/ faults < MaxStreamFaults /\ faults' = faults + 1 /\ UNCHANGED filed
  /\ runs' = [runs EXCEPT ![r] = NextDay(x)]
  /\ UNCHANGED <<today, events, digests, checks, cold, archives>>

\* The archive's file is stored before its row, over any file there is.
StoreArchive(r) ==
  LET x == runs[r] IN
  /\ x.step = "store"
  /\ cold' = [cold EXCEPT ![x.day] = x.rows]
  /\ runs' = [runs EXCEPT ![r].step = "insert"]
  /\ UNCHANGED <<today, events, digests, filed, checks, archives, faults>>

\* The row names the digest of the day if there is one by now.
InsertArchive(r) ==
  LET x == runs[r] IN
  /\ x.step = "insert" /\ x.kind = "archive"
  /\ IF archives[x.day] # None
     THEN runs' = [runs EXCEPT ![r] = Resting] /\ UNCHANGED archives
     ELSE /\ archives' = [archives EXCEPT ![x.day] = [rows |-> x.rows, named |-> x.day \in DigestedDays]]
          /\ runs' = [runs EXCEPT ![r] = NextDay(x)]
  /\ UNCHANGED <<today, events, digests, filed, checks, cold, faults>>

\* The worker stops, or a statement of the run fails.
StopRun(r) ==
  /\ runs[r] # Resting /\ faults < MaxStreamFaults
  /\ faults' = faults + 1
  /\ runs' = [runs EXCEPT ![r] = Resting]
  /\ UNCHANGED <<today, events, digests, filed, checks, cold, archives>>

\* The day is computed again over the previous digest its row names.
Matches(d) == Compute(RowsOf(d), digests[d].previous) = digests[d]
CheckOf(d) == [on |-> today, matched |-> Matches(d)]
CheckedToday(d) == checks[d] # None /\ checks[d].on = today

\* The last digests, each once a day whoever checked it.
Recent == {d \in DigestedDays : Cardinality({e \in DigestedDays : e > d}) < VerifiedDays}
Due == {d \in Recent : ~CheckedToday(d)}

VerifyRecent ==
  /\ Due # {}
  /\ checks' = [d \in StreamDays |-> IF d \in Due THEN CheckOf(d) ELSE checks[d]]
  /\ UNCHANGED <<today, events, digests, filed, cold, archives, runs, faults>>

Verify(d) ==
  /\ d \in DigestedDays /\ faults < MaxStreamFaults
  /\ faults' = faults + 1
  /\ checks' = [checks EXCEPT ![d] = CheckOf(d)]
  /\ UNCHANGED <<today, events, digests, filed, cold, archives, runs>>

PassStreamDay ==
  /\ today < LastStreamDay /\ today' = today + 1
  /\ UNCHANGED <<events, digests, filed, checks, cold, archives, runs, faults>>

IntegrityNext ==
  \/ PassStreamDay \/ VerifyRecent
  \/ \E e \in Events : Record(e) \/ CommitLate(e) \/ Tamper(e, "altered") \/ Tamper(e, "deleted")
  \/ \E r \in Requests :
       \/ StartRun(r, "digest") \/ StartRun(r, "archive") \/ ReadDay(r) \/ InsertDigest(r)
       \/ StoreDigestFile(r) \/ StoreArchive(r) \/ InsertArchive(r) \/ StopRun(r)
  \/ \E d \in StreamDays : Verify(d)

Late(e) == events[e].on # None /\ events[e].on # events[e].day

\* What happened to a day's rows after they were first read.
Disturbed(d) == \E e \in Events : events[e].day = d /\ (Late(e) \/ events[e].how # "kept")

\* A row that committed on its own day is in that day's digest once a digest
\* of that day or a later one exists, unless somebody changed it before.
EveryRowIsAttested ==
  \A e \in Events :
    events[e].on # None /\ ~Late(e) /\ events[e].how = "kept"
      /\ (\E d \in DigestedDays : d >= events[e].day) =>
        events[e].day \in DigestedDays /\ <<e, "kept">> \in digests[events[e].day].rows

\* The digested days follow one another, each hashed over the one before,
\* unless a row that came late or went gave two runs two first days.
ChainIsWhole ==
  \A d \in DigestedDays :
    \/ d - 1 \in DigestedDays /\ digests[d].previous = digests[d - 1]
    \/ d = Min(DigestedDays) /\ digests[d].previous = None
    \/ \E e \in 1 .. d : Disturbed(e)

\* A mismatch is reported of a day whose rows were changed or came late; a
\* change made before today of a day still among the last digests is reported
\* by today's check of it.
MismatchesAreFound ==
  \A d \in StreamDays : checks[d] # None =>
    /\ ~checks[d].matched => Disturbed(d)
    /\ checks[d].on = today /\ checks[d].matched /\ RowsOf(d) # digests[d].rows =>
         \E e \in Events : events[e].day = d /\ today \in {events[e].on, events[e].changedOn}

\* A digest without its file: its run is about to store it, or something
\* failed or changed; nobody stores it later.
FilesFollowDigests ==
  \A d \in DigestedDays \ filed :
    faults > 0 \/ \E r \in Requests : runs[r].step = "file" /\ runs[r].day = d

\* The archive's file, its row and the digest it names tell of the same rows,
\* unless the day was disturbed.
ArchiveAgrees ==
  \A d \in ArchivedDays :
    ~Disturbed(d) => /\ cold[d] = archives[d].rows
                     /\ archives[d].named => digests[d].rows = archives[d].rows
=============================================================================
