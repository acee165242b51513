# XMS backend: TLA+ specifications, model checking and proofs

XMS is a managed-services desk: client accounts, tickets under contracts with
service levels, time and billing, and integrations with the clients' own systems.
The backend (`src/src`) is a NestJS program over PostgreSQL, run as several API
tasks and several worker tasks. What is hard to test in it is what happens *between*
transactions: jobs on several tasks, an outbox whose handlers run more than once, calls to
other people's systems made in the middle of a transaction, checks that read without a lock
before a write, sweeps that race requests, caches per process, a two-way sync that must
not hear its own echo. These specifications are about those parts.

Everything is translated from the source at the lines `PROJECT.json` names under `map`.
Where a doc or a comment and the code differ, the module follows the code; what a run
shows to be violated is listed under `findings`, what was only observed in section 8.

Contents: 1 the system, 2 the modules, 3 the runs and bounds, 4 fairness, 5 the proofs,
6 what stays with the model checker, 7 what is not modelled, 8 observations, 9 plan.

## 1. The system

| part | state | operations | meets the others through |
|---|---|---|---|
| scheduled jobs (`worker/jobs.ts`) | `sys.job_leases` | acquire, run, release | runs every sweep, poll, retry and delivery below |
| outbox (`common/outbox`, `worker/outbox-dispatcher.ts`) | `sys.outbox`, `sys.dead_letters` | write in a domain transaction, tick | hands events to webhooks, email, sync, surveys, notifications |
| webhooks (`modules/integrations/webhooks.module.ts`) | subscriptions, deliveries, API clients | register, attempt, retry, replay, rotate, pause, resume, remove, revoke | outbox handler, job, console, the client |
| SLA engine (`domain/sla/engine.ts`) | none (pure) | start, latch, pause, resume, markMet, restamp | tickets and the sweep |
| business calendars (`domain/calendar`, `modules/calendars`) | calendars, a cache per process | working-minute arithmetic, patch | targets of the clocks |
| tickets (`modules/tickets`) | tickets, clocks, pauses, links, participants, windows, views, routing rules | create, transition, comment, patch, link, invite, schedule, list | write the outbox; race the sweep |
| sync outbound (`modules/connectors`) | `acct.sync_outbound`, journal links, the kill switch | queue, deliver, retry, replay, discard, trip, arm | outbox handler, job, console, ServiceNow |
| sync inbound, fields and maps (`modules/connectors`) | `sys.inbox`, watermark, field links, conflicts, maps | poll, apply, push, resolve, rewind, replay, validate, activate | jobs, console, ServiceNow |
| time and billing (`modules/time`) | entries, adjustments, billing periods, contract periods | log, correct, submit, approve, lock, export, deliver | jobs, finance |
| contracts, engagements, scope (`modules/contracts` and jobs) | engagements, alerts, scope flags | patch, sweep, flag, decide | jobs, budget |
| email (`modules/email`) | messages, tokens, threads, quarantine, suppressions | receive, decide, send, provider events | outbox handler, tickets |
| portal (`modules/portal`, `modules/csat`) | forms and versions, surveys and answers | edit, publish, submit, send, remind, answer, expire | tickets, outbox, jobs |
| reporting (`modules/reporting`) | schedules, runs, packs, snapshots | run, hold, edit, approve, expire, deliver | jobs, email, every figure of the desk |
| people (`modules/capacity`, `modules/roster`) | allocations, time off, skills, certifications | put, view, assess, sweep | jobs |
| assistant (`modules/ai`) | settings, suggestions, decisions, the panel's record | offer, decide, expire, intake, turn | tickets, an external harness |
| administration and access (`modules/admin`, `common/auth`, `common/rate-limit`) | users, roles, grants, accounts, configuration, sessions, windows | deactivate, replace, grant, activate, override, sign in, count | every request |
| knowledge, attachments, notifications | articles, files, notifications | review, publish, upload, scan, collapse, read | tickets |
| migration and integrity | batches, records, digests, archives | run, rerun, sign, digest, verify, archive | jobs, the client's old system |

`PROJECT.json` lists every part under `components` with what is and is not modelled, and
under `hazards` what is hard to test in it, at its line.

What makes the parts correct, in one sentence each: a job is not run twice at once while
runs fit their lease, and always again; a committed event reaches every handler or a dead
letter and repeats have a countable cause; an event has one ladder of webhook attempts
and the threshold pauses the endpoint; clocks stand still exactly while the ticket waits on
somebody else, a breach latches and is announced once; sync messages are neither lost nor doubled
without a cause that can be named, our own writes do not come back and the client's arrive; what
finance receives lacks only lines that raced the lock; nobody is the last administrator to leave
unless two changes overlapped; and so on for each invariant of the desk (section 3).

## 2. The modules

### Components with a run and proofs of their own

| module | models | how state and actions correspond to the code |
|---|---|---|
| `JobLease` | the lease of one job | `leaseLeft` is `leased_until - now()`; `LeaseFree` is the `where` clause of the acquire, `ReleasedLease` that of the release, `FinishUnreleased` the swallowed error of line 65. A task has several `Slots` because the timer does not wait for the run before it |
| `EventDelivery` | what the outbox promises | abstract: `Publish`, `Run` a handler, `Settle` |
| `Outbox` | dispatchers over the outbox | `claimed`, `okRows`, `failedRows` and `handled` are the position of an open tick; nothing of it reaches `dispatched`, `attempts` or `letters` before `Commit`. `LoseConnection` frees the locks while the handler goes on. Effects of handlers (`runs`) commit by themselves |
| `Webhooks` | one subscription and its deliveries | `log[e]` is the list of delivery rows of an event, `wrote` and `draft` uncommitted writes of an open transaction, `lock` the lock on the subscription row that the outcome counter takes. Console requests are split into `Check` and `Write`: they read without a lock and write by id. `Post` also stands for an endpoint the address guard refuses |
| `SlaEngine` | `domain/sla/engine.ts` | one operator for each function |
| `Ticket` | one ticket, its clocks, the sweep | `request` is the transaction that has the ticket row and what it is going to write; the clocks it read are not locked until `Save`. A sweep has one ticket's clocks locked (`claims`) and takes the ticket row last. `Blocking` is the state the database breaks as a deadlock |
| `SyncQueue` | outbound queue of one linked ticket | a claim takes at most `Batch` due rows nobody has locked (`limit`, `skip locked`); `seen` carries the attempts read by the claim, because the failure is written from them. `Post`, `ReadBack` and `Commit` are apart: the write and the read after it lie between two transactions. `newest` is the entry the read may find, newest by whole seconds (ours or the client's), `taken` the entries that have a link; the insert of the link does nothing for one of them, and `misread` records the row that became `sent` so. `Settle` writes by id whatever the row says by then |
| `SyncEcho` | poll, inbox, push and echo guard of one case | `case` and `journal` are the client's instance; `PushWrite`, `PushReadBack`, `PushCommit` are `createJournal`'s two calls and the commit after them; `PollRead` and `PollStore` the two halves of a poll; one pass of the apply job works from the list of at most `PassSize` rows it read (`pass`) |
| `...Proofs` | theorems about the component | section 5 |
| `MC...` | instances for TLC | model values, symmetry, the seeded state machine, the bounds of the queue |

### Parts of the desk

These share no row with each other; a behaviour of `MCDesk` is one part's, and its
variables `v1` to `v15` are the variables of that part in the order of its `INSTANCE`.
A module holds one or two parts of one area. `Desk` declares what the parts share and has the
parts whose promises are proved together (`CommercialSpec`, `LibrarySpec`, `MailSpec`, `ReportsSpec`); `MCDesk` extends it, adds the other parts and runs all of them.

| module | parts of `MCDesk` | what is split, and why |
|---|---|---|
| `Billing` | `billing`, `budget` | a line reads the period unlocked and is inserted later; transitions compare the version; the lock reads lines at several statements; an entry is judged against the consumption committed when it was read |
| `TimeLedger` | `ledger` | one step per request (its races are `Billing`'s): what timesheet, consumption, finance, margin and comp time tell of the same entries and adjustments |
| `Engagements` | `renewals`, `scope` | the sweep reads dates that people patch; a scope decision names the version of the page it was made from |
| `Email` | `inbound`, `outbound` | a message claims its id first; mail leaves before the handler commits |
| `Portal` | `forms`, `csat` | edits and publications read a version they later write by id; surveys are created, reminded, answered and expired by transactions that read first |
| `Reports` | `schedule`, `review` | a claim holds the schedule, an off-cycle run does not; files and mail lie outside the transactions |
| `Figures` | `figures`, `health` | figures are computed from the rows as they are when asked; the health score as a function of its facts |
| `Staffing` | `capacity`, `roster` | cells of a put are locked one after the other; the sweep skips what is locked |
| `TicketIntake` | `intake` | everything is read, then inserted, while the rules are replaced |
| `TicketRelations` | `links`, `participants` | unlocked walks and reads; unique indexes and `where status` decide |
| `TicketPages` | `pages` | a reader follows a cursor through a list that moves |
| `TicketDiscipline` | `windows`, `closing` | a transition holds its ticket and reads everything else unlocked |
| `Calendars` | `hours`, `calendars` | the loops of the arithmetic turn by turn over every clock change; a cache per process |
| `SyncLink` | `fields`, `maps` | a push is three steps with the client's instance in the middle; a map is read, validated outside, written |
| `WebhookAdmin` | `endpoints` | requests pass the guard, read, and write by id |
| `AiAssistance` | `advice`, `turn` | the harness is called between two transactions, or inside one |
| `Administration` | `admins`, `configuration` | checks read unlocked; a unique index decides; caches cleared before or after the commit |
| `Accounts` | `account` | creation in two transactions, grants without versions |
| `Access` | `signin`, `limiter` | user, grants and roles are read one query after another; a window per process |
| `DataIntegrity` | `migration`, `integrity` | a run outlives many transactions, and a case has fields and a thread of which an update brings one; digests read days whose transactions still commit. |
| `Knowledge` | `articles` | an edit is called with the version of the page it was made from |
| `Attachments` | `files` | the object store is outside the transaction |
| `Notifications` | `notes` | an upsert waits for an uncommitted row of the same key |

Atomicity follows the database: a committed transaction is a step, and a
transaction is split where it calls out, where it reads without a lock what it later writes,
or where it holds a row lock others wait for. Audit rows, logging and the shape of
payloads are left out unless a property is about them.

In `map` a type invariant stands for the row types (interfaces, tables) whose shape it gives,
and a next-state relation for the routes or job table that reach its actions. Helpers without lines of their own
and disturbances (the clock, a crash) are not in `map`.
Several definitions say in a comment that they are *mutants*: wrong variants kept beside
the definition they replace, to show which property notices them. No specification uses them.

## 3. Runs

| run | question | properties |
|---|---|---|
| `job_lease` | is a job run by one task at a time, and always again? | `OverlapOnlyAfterOverrun`, `UnexpiredRunIsCovered`, `JobRunsAgain` |
| `outbox` | are events delivered, once settled, and repeats explained? | `NoSilentLoss`, `RepeatsAreAccountedFor`, `SettledIsFinal`, `DeliveryPromise`, `EveryEventSettles` |
| `webhooks` | do attempts, retries, replays and the console agree? | `AttemptsTakeTurns`, `CallsAreAccountedFor`, `NoActiveAtThreshold` |
| `webhooks_revoked` | does a revoked client stop receiving? | `RevokedReceivesNothing`, violated |
| `ticket` | do clocks, pauses, flags and sweeps agree? | `ClocksPauseWithTicket`, `ClocksKeepTheirWindow`, `AnnouncedOnce`, `RowAgreesWithClocks`, `LatchIsForever`, `OverdueIsSwept` |
| `ticket_late_response` | does a late response stay breached? | `LateResponseStaysBreached`, violated |
| `sync_queue` | are messages delivered once and in order, but for named causes, and does the queue drain? | `DuplicateNeedsExcuse`, `NothingLost`, `OvertakenOnlyAfterTrouble`, `TripStopsDelivery`, `EveryRowSettles` |
| `sync_queue_order` | do messages arrive in order? | `MessagesArriveInOrder`, violated |
| `sync_echo` | do client changes arrive once, and ours never? | `CommentsAppearOnce`, `QuietChangesArrive`, `InboxDrains` |
| `sync_echo_lost` | does every polled comment arrive? | `PolledCommentsArrive`, violated |
| `sync_echo_link` | is the entry linked after a push ours? | `OutLinksAreOurs`, violated |
| `desk` | do the 38 parts of the desk keep what they promise? | `MoneyHolds`, `ReportsHold`, `CommercialHolds`, `LibraryHolds`, `MailHolds`, `ImportsHold`, `OfficeHolds`, `TeamworkHolds` |

Each passing run also checks its module's `TypeOK` (`LeaseTypeOK` in `job_lease`).

### What the violated runs show

* **`webhooks_revoked`.** First attempts ask whether the client is active; resume, retry
  and replay ask about the subscription only. A subscription that was paused before
  the revocation is not touched by it and can be resumed.
* **`ticket_late_response`.** `addComment` writes `sla_response_breached: false` with the
  first response, also when the response clock has been latched. Reports that read the column count the late response as met.
* **`sync_queue_order`.** A row that failed once waits for its back-off while the next row of the same
  ticket is claimed and sent. One run of the job is enough.
* **`sync_echo_lost`.** A record that reads as our own echo is dropped with every journal
  entry polled with it, the client's included.
* **`sync_echo_link`.** The newest entry need not be ours; the client's is then
  linked with direction `out`, and later imports take it for known.

The passing properties of `SyncQueue` and `SyncEcho`, and many of the desk, are stated around
such causes: what is promised when nobody gets in the way (`Quiet...`, `...NeedsExcuse`,
`...AfterTrouble`, `unless two of them overlapped`), with the excuse recorded by history
variables that no guard reads.

### What the desk's invariants say

* `MoneyHolds`: a locked summary and every delivered file lack only lines that raced the lock, the
  lock is announced once, one delivery is open, `exported` means handed over; the rule `block` keeps consumption in
  the budget unless requests overlapped or an adjustment enlarged it, thresholds fire once; what the five readings of the ledger tell agrees.
* `ReportsHold`: a held report is decided once, by a second reader, and its turns are safe; a period's
  pack is built once and an enabled schedule keeps a next run; a line is reported once, comparisons agree, snapshots add up, the score is the weighted mean of its factors.
* `CommercialHolds`: one renewal alert per date and lead, nothing owed after a sweep; the scope record tells
  one story, decisions are about what was seen, allowances add up.
* `LibraryHolds`: what is published is what was read, edits are seen, reviewer and author differ; submissions fit their form;
  a verdict belongs to the object it is about, removed files are silent.
* `MailHolds`: one outcome per received message, one ticket per thread, one mail per event, replies find the ticket,
  bounces suppress; surveys are bounded and answered once; every change is counted in a notification and news waits for its reader.
* `ImportsHold`: a field that diverges is known as a conflict and goes backwards only after trouble; a used map was
  checked; one ticket per case, a skipped case was brought in (but for rehearsals and unpatched fields), a signature by another person; digests attest every row, later changes are found.
* `OfficeHolds`: an administrator remains, one configuration is in force and what a process resolves is current; advice is applied once
  and never over a newer edit; egress is masked; endpoints that were removed stay removed; owners hold their accounts; access is current; the limiter's windows bound what passes.
* `TeamworkHolds`: links stay acyclic, nobody is on a ticket twice, deploys happen in open windows, resolutions are earned, lists are
  complete and show a ticket once, routing follows one save, minutes counted across clock changes undo each other, cells that were read are kept, expiring certifications are heard of once.

Each of the parts' invariants is a named definition in its module with a comment that
says what it is about and which races excuse it.

### Bounds, and why they are enough

* `job_lease`: two tasks of two invocations; lease 3 and run bound 5, so a run may
  outlive its lease, the next run begin, and the first release late; two crashes.
* `outbox`: three events routed to two, one and no handlers; a batch of 2, so the backlog
  is longer than a batch; 2 attempts, so a row fails, is retried, and is buried; two
  dispatchers and one lost tick.
* `webhooks`: two events, two delivery transactions, one console request; 2 attempts and a
  threshold of 2, so both events' dead letters meet at the threshold; one replay
  beyond the ladder and one abort. Symmetry over events and workers (no
  liveness is checked in this run).
* `ticket`: the seeded service request machine, two priorities with targets of
  1 to 3 minutes, half-minute ticks so that rounding to minutes shows, 5 requests, 8 ticks,
  two sweeps.
* `sync_queue`: two messages (order needs two) and claims of two, bounded in one of two ways (`MCSyncQueue`, `WithinBounds`). Either two runs overlap, refusals are
  for good and there is one disturbance of any kind: each is an accident by itself, and a client's comment that is then the newest entry for both read-backs, or two
  messages of one second, are enough for a misread. Or one run works, with 2 attempts, back-off and three disturbances, so that a misread row is retried, repeated and discarded, and a
  trip is lifted again. Fairness is that of the steps within these bounds. Both at once have more than 18 million states; the theorems are about any number of runs, rows, attempts and disturbances.
* `sync_echo`: one client comment, one client edit, one push, four seconds with a
  tolerance of one, 2 inbox attempts, passes of two and two disturbances, so a lost commit can be
  followed by a rewind.
* `desk`: two requests at once and two people everywhere (the hazards are races of two, most of them with a
  third transaction between their steps, which the bounds on versions allow), two rows of whatever is contended
  (`Endpoints`, `Maps`, `MailRows`, `ScopeTickets`, `Subjects`, `Events`, `Batches`), and counters just past
  what one race needs: `MaxPeriodVersion = 4` takes a period through submit, approve, lock and export and, with `MaxLines = 2`,
  one line on each side of the lock; `MaxTicketVersion = 3` lets an edit come between an offer and its decision; `MaxDay = 2`
  with reminders after 1 and expiry after 2 days shows each; `MaxDay`, `MaxRosterDay`, `LastReportDay = 4`, `LastStreamDay = 3` are two periods or
  the days either side of one; `MaxCommits`, `MaxAdminChanges`, `MaxPuts`, `MaxSaves`, `MaxGrantChanges`, `MaxAccessChanges = 2` are the two that cross; `MaxFrom = 7` and `MaxWork = 4`
  over days of five minutes start and end on every minute around a jump of two minutes (`Zones` enumerates the
  offsets before and after, either side of Greenwich, and where the jump falls). Requests, people and changes are symmetric. The run has
  about 2.7 million states; deadlock is not asked, because every bounded part stops.

## 4. Fairness

Weak fairness is stated for what runs on a timer or is bounded by a timeout:
the database clock, the acquisition and the end of a job (`JobLease`), the steps of a live dispatcher
(`Progress`), the claim and the steps of a sync run, the poll and apply jobs, and the read-back and commit
of a push (the HTTP client gives up after 30 s). The passing of a back-off is fair.
Nothing is assumed of the client, the console, crashes, lost answers or trips, which
are bounded instead; `EveryRowSettles` is stated for a switch that in the end stays armed
(`<>[]~tripped` implies that no row stays queued).
Strong fairness appears in `Ticket` only: a request and a sweep can disable each
other's commit by their locks, and the database grants row locks in the order of the queue and
breaks deadlocks after a second, while sweeps are minutes apart.
`webhooks` checks no liveness: whether an endpoint ever answers is the client's. The desk
checks none: its parts are about what overlapping transactions may leave behind, and a request may
always be given up.

## 5. Proofs

Every theorem holds for all values of the constants under the assumptions its module
names; TLC evaluates the assumptions with the module's run, and those of the parts of the desk
(`BillingConstants`, `BudgetConstants`, `AdminConstants`, `ScopeConstants`, `RenewalConstants`, `AttachmentsConstants`, `FormConstants`, `PartConstants`, `KnowledgeConstants`, `MapsConstants`, `ConsoleConstants`, `MailConstants`, `CsatConstants`, `NoteConstants`, `ScheduleConstants`, `ReviewConstants`,
`FiguresConstants`, `HealthConstants`) with `MCDesk`. Each proof has the same shape: an invariant
stronger than what is promised, checked by TLC on a small instance before it was proved; one lemma for the initial
states; one for each action, with a step per conjunct the action can disturb; the theorems from
the invariant by the temporal rules.

| module | theorems | state in a run |
|---|---|---|
| `WorkerProofs` | `LeaseInvariant`, `LeaseTypeCorrect`, `OverlapNeedsOverrun`, `UnexpiredRunCovered`, `BoundedRunsAreExclusive` | `LeaseTypeOK`, `OverlapOnlyAfterOverrun`, `UnexpiredRunIsCovered` |
| | `SpecDInv`, `OutboxTypeCorrect`, `NothingLostSilently`, `SettledStaysSettled`, `RepeatsBounded`, `PromiseKept` | `TypeOK`, `NoSilentLoss`, `SettledIsFinal`, `RepeatsAreAccountedFor`, `DeliveryPromise` |
| `WebhooksProofs` | `TypeCorrect`, `ThresholdPauses`, `TakingTurns`, `CallsCounted` | `TypeOK`, `NoActiveAtThreshold`, `AttemptsTakeTurns`, `CallsAreAccountedFor` |
| | `ConsoleInvariant`, `ConsoleIsSafe` | the part `endpoints` of `TypeOK` and `OfficeHolds` |
| `SyncQueueProofs` | `QueueTypeCorrect`, `TripStops`, `QueueLosesNothing`, `DuplicatesExcused`, `OvertakenTroubled` | `TypeOK`, `TripStopsDelivery`, `NothingLost`, `DuplicateNeedsExcuse`, `OvertakenOnlyAfterTrouble` |
| `TicketProofs` | `TicketTypeCorrect`, `ClocksPause`, `OneAnnouncement`, `WindowsKept`, `LatchStays`, `RowAgrees` | `TypeOK`, `ClocksPauseWithTicket`, `AnnouncedOnce`, `ClocksKeepTheirWindow`, `LatchIsForever`, `RowAgreesWithClocks` |
| | `ParticipantsTypeCorrect`, `ParticipantsInvariant`, `ParticipantsAreOnce` | the part `participants` of `TypeOK` and `TeamworkHolds` |
| `SyncEchoProofs` | `EchoTypeCorrect`, `CommentsOnce`, `QuietArrive` | `TypeOK`, `CommentsAppearOnce`, `QuietChangesArrive` |
| | `MapsInvariant`, `OneMapIsUsed` | the part `maps` of `TypeOK` and `ImportsHold` |
| `BillingProofs` | `BillingInvariant`, `BillingIsSafe`, `BudgetInvariant`, `BudgetIsKept` | the parts `billing` and `budget` of `MoneyHolds` |
| `DeskProofs` | `AdministratorsInvariant`, `AnAdministratorRemains`, `OneConfigurationInForce` | the part `admins` and `OneInForce` of `OfficeHolds` |
| | `ArticleInvariant`, `ArticlesAreReviewed` | the part `articles` of `TypeOK` and `LibraryHolds` |
| | `CommercialInvariant`, `ContractsAreSafe` | `CommercialHolds` |
| | `LibraryInvariant`, `LibraryIsKept` | `LibraryHolds` |
| `MailProofs` | `MailInvariant`, `MailIsKept` | `MailHolds` |
| | `ReportsInvariant`, `ReportsAreKept` | `ReportsHold` |

So every safety property of the component runs (all passing runs but `desk`) is also a theorem.

**Jobs.** Exclusion is not inductive: whether a second run can start depends on
the lease being held through the whole first one, and that on which releases can
reach it, the release naming the task and not the run. `LeaseInv` conjoins, to
`LeaseTypeOK` and `OverlapOnlyAfterOverrun`, that every run older than the lease has its task
in `overran` (`OverrunIsRecorded`) and that the run of any other task is covered: the row names the task, with exactly
the time left that the run has not used. A free lease then
means that only overrun runs are in flight (`AcquireFindsOnlyOverruns`), which is what the
`Acquire` step needs. `BoundedRunsAreExclusive` is the claim of `jobs.ts` 7-8 with the condition it needs, `RunBound <= Lease`: the
code neither bounds a run by its lease nor renews the lease.

**Outbox.** `NoSilentLoss` alone is not inductive: a commit could count an attempt of a row that is settled,
or find delivered a row whose handlers have not run. `DInv` adds that live ticks hold disjoint,
unsettled rows (`LiveClaims`, what `for update skip locked` gives), that a tick's verdicts are
about rows it claimed, one each, and that the row in hand has run the
handlers before the next one and a row found delivered all of them (`HandlersRan`).
`RepeatsAreAccountedFor` needs more: a tick that has lost its connection holds no lock, is
counted in `aborts` already, and may still run a handler. `Ledger` adds to
the runs of a handler the number of ticks that still *owe* it a run (`Debtors`): a claim adds one
debtor and one run in flight, a handler that takes effect pays one debt, a verdict or the
end of a tick cancels what was owed, a commit turns the run in flight into a counted attempt, and
a lost connection turns it into a lost tick. The sum never exceeds the bound.
For `PromiseKept` a publish is `Publish`, a handler that takes effect is `Run`, a commit is `Settle` of its
delivered and buried rows, and every other step is a stutter; `Settle` asks that all handlers have
run, which is `HandlersRan`.

**Webhooks.** That rows of an event form one ladder and that its resends take turns rest on each other. `LadderInv`
adds what an open transaction may have in hand: it claims a row only while nobody else does (`ClaimsAreExclusive`), the
claimed row stays the last and unsettled one (`ClaimedRowsStay`), it writes at most one uncommitted row per event, and that row continues
the committed ladder (`UncommittedRowsFit`). `ThresholdPauses` carries `BelowThreshold` of the committed row and of the uncommitted
draft together. `CallsCounted` counts, for each event, the calls that a roll-back would *forget* (`Forgotten`): a call adds one, a commit turns it into a row, a roll-back into `rollbacks`.

**Endpoints.** A request writes by id what it decided on a row it read earlier, so `ConsoleInv` says what it carries: a status that allowed the operation
(`CallFits`), which is why a write over a removed row shows as `overtaken`; the grants of its key, which never change, which is why a revocation finds every endpoint
of the key although it sees only the accounts it is bound to. One live endpoint per address rests on the unique index at every write of a status.
`SecretsFit` follows the secret: outside `muddled` at most one answer is on its way and tells what the row holds.

**Sync queue.** `QueueInv` says what a run has in hand: rows in order, with attempts left, seen no later than they are
(`RunsFit`). `TripStops` bounds the calls made after a trip plus the runs still writing by the number of runs. For losses and duplicates, `CopiesInv` adds that a row
that is linked, or was sent for an entry that had a link (`Kept`), has its message at the instance, and that a row that neither an accident nor a misread entry excuses (`Pardoned`)
has one writer at most: what a run has written is committed with its link, or makes the row one of these. `OrderInv` adds that a younger row is
in a batch, written or there only if every older one that was not troubled is in the batch before it or there already.

**Ticket.** A request reads, computes and saves much later, so `TicketInv` carries every
statement about the committed rows together with the same statement about the rows the open request is going to write. It
can, because nothing but the request writes the clocks while it holds the ticket's row: the sweep takes that row before it commits
(`ClaimsFit`). The arithmetic lemmas (`ClockFits`: due is target plus excluded minutes, elapsed and excluded add up)
are about the operators of `SlaEngine` one by one. `RowAgrees` has a hypothesis, `StampingMachine`: in every machine whose states stamp as the
seeded ones do. TLC evaluates it for the seeded machine.

**Sync echo.** `OnceInv`: a comment has one journal entry, and what is shown has its link. `QuietInv` and `EditInv` say what still carries a change
that has not arrived: an entry of the inbox, the record a poll has in hand, or the record itself, later than the reach of the reflection test (`Late`, `OnItsWay`, `Underway`);
while nothing was disturbed versions come in order (`InOrder`), so the last applied value is the case's.

**Billing.** Two halves. The version a write compares says that nothing moved since it was read, so each
transition is written from one of its own source statuses and a locked period never leaves its final statuses. From the lock on no line is inserted, so
whatever is committed afterwards was inserted before it, and belongs to `racing` if a reading lacked it: the lines outside `racing` are the same ones in the summary,
the checksum and every file (`Complete`). `BillingInv` has a part about the rows (`BillingShape`, `DeliveriesFit`, `SummaryFits`) and one
about each request (where it stands, which version it read and what that version tells, which file it carries).

**Budget.** An entry is judged by the consumption that was committed when its request read it. `BudgetInv` says of what a request has in hand that, until
somebody else commits, it is still so (`Undisturbed`): the minutes fit the budget, an adjusted entry stays at zero or above, and every percentage the new consumption crosses has
fired or is about to. A commit while another request has read sets `contended`, and a budget only grows. Single alerts need no such condition: one request at a time
fires, and only what has not fired. Consumption is a recursive sum over the entries, and that a change of one entry changes the sum by as much (`MinutesAdded`) is an induction:
the library's induction theorems take an operator and cannot be used, but every set of natural numbers has a least element (`LeastNumber`, from the well-foundedness of `<`), and the
least index at which the claim fails is refuted. The same argument shows that the recursive function exists and is unique. The assumption `BudgetConstants` asks for a contract with minutes: without any, the code applies no
overage rule.

**Administrators.** A check reads who is an administrator, and its transaction writes later. As long as no two transactions overlapped
and none went through a loophole, at most one is under way and what it found still holds (`LeavesOne`): meanwhile only a restoration can come in, and it takes nobody away.
For `RolesAreAsAsked`, outside `mixed` one replacement per person is under way, so what it deletes is all the person has.

**Configuration.** `activate` and `setOverride` read the active row unlocked, so two requests can retire the same row and both go on to put
their own in force; what stops the second is the unique index, which waits for the first and then refuses. `ConfInv` says of a request that has
written that no other has written to the same table, and that nothing is active but its own row and what it retires; a commit of one request cannot
disturb what another decided, because the other has not written yet, removes only, or writes to the other table.

**Participants.** Every check is made on what the request can see, and nothing is locked, so what keeps a person from taking part twice is the unique
index at the insert and at the answer, and what keeps an invitation from ending twice is `where status` in each update: `PartInv` says of each row that it has no ending
while it is open (`RowFits`), and of an open request that its row exists, rows being never deleted. Neither protects the assignee, who is on the ticket and not in the table.
So `AssignedSince` follows whoever has a part *or is about to get one* (`Involved`): the check found somebody else assigned, and only a hand-over changes that.
It lives in `TicketProofs` over an instance of `TicketRelations` without links.

**Articles.** Nothing but the version number stands between the page a reviewer has open and the article that is published. `StillReads` says what the number means:
whoever holds the current one has read the current status, and the current text unless it was written by an edit that assigned nothing to the article.
Such an edit does not happen under review, because there the edit itself moves the status back. Everything promised follows at the one step that compares the number.

**Contracts.** A scope request holds the ticket's row, but a decision may come from a page shown long before. `ScopeInv` says of a request past the lock that the flag it
found still is the last of the record, and of a page of the present version that its reader saw the whole record; the allowance of the period is what the granted decisions of
all tickets add up to (`Granted`), kept by the lock on its row. A renewal sweep holds the engagement while it alerts, so `RenewalInv` needs only that an alert is on file for every
boundary the sweep passed, and that no engagement expires but by a date inside the sweep's horizon.

**Files.** The object store is outside the transaction. `FilesInv` says that a row is held by the request that works on it, except that the file of a connector has no row yet;
that what a request has in hand about object, size and verdict is what the store holds, as long as nobody replaced the object; and that a size told is the object's while no two
confirmations overlapped.

**Forms.** `validateSubmission` works through the fields one by one, the visible answers so far deciding whether a field is asked. The model has both that loop (a recursive function over
the number of fields) and what the form means (who is asked, defined over the fields before it). That both functions exist and agree for every definition and every answer (`WorkExists`,
`AskedExists`, `SubmissionMeans`) is shown at the least field where they would not. Published versions never change, so what a ticket was checked against is what its form still says (`FormInv`).

**Mail out.** The handler sends before it commits, so what is on the wire and what is in the table differ most of the time. `OutInv` gives each row one
writer: the uncommitted row of an event is in the hand of the request that holds it, which stands between its insert and its commit. Outside the rows whose send was lost, a mail is then on the wire once
exactly when its row is committed or its writer has sent (`SendsFit`). While no two handlers drew a token for the same ticket, every token in use is the ticket's or the one being drawn (`OneToken`).

**Mail in.** A message is claimed by its id, the unique index keeping others out, and the dispositions are read off the committed row (`MessageFits`): one comment if it was appended, an item
if it was quarantined, an outcome only after the claim. The number of tickets is the number of messages that made one. `OneThread` speaks of a conversation read in
order and never quarantined: whoever has matched a message saw the outcome of all before it, so it found the ticket if there is one.

**Surveys.** `CsatInv` says what each transaction may still rely on after its reads. Two creators of the same survey are kept apart by the unique index, an expiry and an answer by
the row lock (`WorkApart`); so the surveys a tick holds stay open and due, and `answered` is written with the response. Mails are bounded by the prompt and the reminders of the schedule that lie before the one
the row waits for (`SurveyFits`); that the reminder is moved to the least of the later ones, and so takes one more day of the schedule with it, is an argument about the least element of a set of numbers. The
cap of one a day holds while no two handlers overlapped (`CapFits`).

**Notifications.** An upsert either folds into the unread row or inserts one, and is committed later. `NoteInv` says that what a change has written still fits: there is an unread row to absorb into, or none
beside the one it inserted, and no other change has written for the same recipient (`WriteApart`); a reader waits for a change that has folded into the row it marks. The sum of the counts is a recursive
function, and that folding a change in adds one (`OneMoreCounted`) is shown at the least row where it would not, as for the budget.

**Schedules of reports.** The job claims the row and keeps it until it has written the next instant; a run off the cycle reads the row and writes the next instant later, without
holding it, and so may set it back. `ScheduleInv` speaks of both: what a run will write is never more than one instant ahead of the clock, so an enabled schedule always has one (`NextIsNear`); and
while no run off the cycle overlapped another request, nothing was built of a period that the row still has before it (`RunsTakeTurns`, `PeriodsToCome`). `PeriodRunsOnce` alone is not inductive:
it does not say that the period about to be claimed is one of those not yet built.

**Reviews of reports.** `ReviewInv` gives every request what it locked and decided (`ReviewerFits`): an approver is not the requester from its first read, and the deadline job holds a run that is still
to be decided. A decided run has a decision and one that was sent a second reader (`SentWasDecided`). Files are written outside the transactions, the deck before the pdf: while reviewers take
turns each works on the narrative as it is, and the files show its newest version exactly from the step that stored them (`StoredFits`).

**Figures.** A figure is computed from the rows as they are, so what two packs say of one period depends on what happened in between. `FiguresInv` compares each pack with the rows of today: a
period that is over gets no more tickets opened or resolved, so a pack names exactly those of its period, unless one was reopened since (`PackFits`); the same of a snapshot and its day
(`SnapshotFits`). It rests on a ticket being touched last of all (`FactFits`): what `ticketFacts` does not read since a period began was neither opened nor resolved in it (`FiguresAreExact`).
What the later of two packs compares with has its own conjunct (`PacksAgree`), since `PackFits` speaks only of the rows of today.

**The health score.** `HealthInv` only says that the accounts before and after differ in one fact. The rest is arithmetic: the two folds of the score are the sums over the five factors
(`SumIsUnique`, again at the least set where they would differ), the score is that sum over the weight within half a point (`RoundingBounds`), hence it lies between the worst and the best of its
factors (`MeanLiesBetween`), grows with a factor of the same weight (`MeanGrows`) and is drawn towards one that is newly measured (`MeanIsDrawn`).

**Field maps.** A unique index (0012_connectors.sql 93, 110) keeps a second map from being active, and the argument does not need it: `activateMap` retires all others in the statement before it writes its own, and every other
handler refuses a map in use when it reads, so what it writes is never `active`. A handler may still write a map that was activated meanwhile. `MapsInv` says who is left:
an active map is the instance's, and one taken for validated carries the entries of its report, unless `overrun` or `outdated` names it.

## 6. What stays with the model checker

* Liveness: `JobRunsAgain`, `EveryEventSettles`, `EveryRowSettles`, `OverdueIsSwept`, `InboxDrains`. The prover has no
  rules for `ENABLED` and fairness in this set-up.
* What a fold or a loop computes for every input: the ledger's five readings, working minutes over days, the walk of the
  links. The induction theorems of the library cannot be instantiated by the provers here; only the sum of a
  budget, the counts of the notifications, the health score and the working-through of a form are proved, by the detour described above.
* The part `ledger` of `MoneyHolds`, all of `ImportsHold` but `maps`, of `OfficeHolds` but the endpoints, the administrators and the configuration, of `TeamworkHolds` but
  `participants`, and `MCDesk`'s `TypeOK` as a whole. None declares a `RECURSIVE` operator, so proofs may be added to any.

## 7. What is not modelled

The `note` of each component in `PROJECT.json` lists its own. In general: request validation, auditing, the text of messages and
payloads, the read-only queries behind screens and exports, translation of values by maps, cryptography and the HTTP client, the harness of the assistant,
the object store and the client's instance beyond what the code relies on, bulk edits, priority matrix, teams, calendar feeds, `telemetry` and tools. Two components are only in
the background: database access and the unit of work (transactions are the atomic steps, row locks and `skip locked` are modelled where the code relies on them) and telemetry.
In `Ticket` a transition is taken only when its requirements are met (`TicketDiscipline` has those), clocks count wall-clock minutes (`Calendars` has the others); the sweep takes one
ticket's clocks at a time, which is the locking of one iteration of its loop. `SyncQueue` and `SyncEcho` take one ticket and one case; one apply pass at a time is modelled, a
second needs an outlived lease. In `Attachments` an upload is made once per key.

Known hazards that no property watches, beside those of `hazards`: after a failed `connect()` the outbox dispatcher keeps `running` set
(outbox-dispatcher.ts 60); an event whose handler kills the process is never counted as an attempt (70); the replay of an `outbox` dead letter cannot be reached without an
instance (connectors.service.ts 490-505); a webhook retry that falls due while paused is dropped (webhooks.module.ts 948); a first response after the due time latches the clock without its event
(tickets.service.ts 1190); a priority change restamps a clock past due and not yet swept (773); the watermark of the poll has whole seconds (sync.worker.ts 148).

## 8. Observations

Read while modelling; the modules follow the code in each of them. A race that a property
excuses is recorded there by a history variable.

* **Finance files.** An older file can supersede a newer one, an acknowledgement opens a superseded row again, and a crash repeats a file.
* **Billing and time.** Lines that race the lock are in no summary, although 0006 says a locked period has all of them. The overage rule is
  evaluated on consumption read before the insert. `contract_periods.locked` is never set. A "reclass" adjustment adds its minutes to the new class and never takes
  the entry's out of the old one (time.repository.ts 597 says it moves them). `adjust` evaluates thresholds for the entry's
  period although the correction may be dated into today's (time.module.ts 538-553); thresholds of a period opened over existing lines wait for the next consuming entry; carry-over
  is stale once the previous period is charged again. Cost rates are looked up only for people with an entry in the window
  (profitability.module.ts 95-98). The comp-time report keeps only `rate_multiplier = 1`, so over-budget after-hours work drops out (time.repository.ts 391-408). Budget drill-through and comp time ignore adjustments.
* **Engagements and contracts.** Notice periods longer than 90 days meet no boundary alert. A created contract period can end before it starts; nothing ever sets status `blocked`; an update of a contact reports a version conflict as 404.
* **Email.** `create_ticket_once` always fails on a foreign key (email.service.ts 622-630, 0004_tickets.sql 78). The list of own message ids that the loop guard compares is always empty.
* **Surveys and forms.** The status `expired` is written in a transaction that rolls back (csat, 695). "A request in flight keeps the version it started with" (forms.module.ts 375-379) does not hold.
* **Reports.** An edit of a narrative can be lost although schedules.module.ts 884-893 excludes it; `runNow` advances by id (329). `between start and end` takes the exclusive Monday in, so its time is in two weekly
  reports. `finishRun('failed')` is written before a rethrow that rolls it back. The portal's attainment uses other rows than the internal one. Time facts, positions and renewals ignore adjustments. `insertSnapshot` keeps the first value of a day and a missed
  day is never made up. `rerenderPack` replaces objects before its commit. States are excluded by literal keys (measures.ts 38).
* **Attachments.** Nothing consumes the verdicts of the bucket's scanner (`byKey` is unused).
* **Assistant.** "The harness call runs outside any transaction" (suggestion.service.ts 68-70) is not so for the intake. A decision and an expiry of one suggestion can both land. A refused insert aborts the whole intake.
  A panel turn whose record is refused never sends `[DONE]`. Candidates for instructions and duplicates are redacted by the standard profile whatever the account's (redaction.ts 3-8). Two offers of one capability can be open; cascade-expired suggestions count as open.
* **Administration.** The check on the last administrator accepts an admin role for single accounts (users.service.ts 178) and a role that nobody active holds (302-305). Overrides clear the cache before they commit, other processes keep theirs for a minute; a
  removal that races a set reports success and leaves the new override.
* **Accounts and access.** Creation commits the account before its settings; an owner who is deactivated or loses the grant stays owner; overlapping replacements of grantees merge. Grants, roles and live accounts are three reads; a second subject with the verified email of a bound user is admitted on every request without being bound. Limits are per process, and two adjacent windows
  let twice the limit pass.
* **Sync queue.** Overlapping claims skip each other's locked rows, so a younger row can leave first. When the entry read back after a write has a link already (the client's, or the one of the message before in the same second), the row becomes `sent` without a link (sync.worker.ts 862-871); an operator's Retry then writes the message again.
* **Sync fields and maps.** A version conflict with a concurrent edit buries the inbound row at its first attempt. `newest` compares `updated_at` although rules.ts 64 says the last audit event. `resolveConflict` can overwrite a newer conflict. Validation and update can write an active map.
* **Connectors** (read, not modelled). Names with the same slug share one stored credential; arming is undone by the next health pass while the window still holds the failures; a stale pass writes over `tripped`; a file uploaded before its transaction failed comes back as a copy; a state map whose inbound does not invert its outbound passes validation; a truncating
  two-way entry sends the cut text back.
* **Webhook administration.** A pause, resume or automatic pause decided before a removal brings the endpoint back, or fails on the unique index. `resume` never looks at the client's status. Two overlapping rotations can leave the holder with the superseded secret.
* **Migration.** A unique index and an insert before the supersession block a batch beside an active one. A crash leaves `extracting` for good and strands the range. A rerun of a failed batch that has records always fails. A dry run writes the new hash with the ticket's id and brings nothing, and `update` patches no field and records the hash all the same (401-418, 472-484): the next run skips what changed as unchanged, against 50-51. `SkippedWasBrought` names these two loopholes and says that there is no third. A rerun replaces `run_by`, which the four-eyes check reads. Signing a superseded batch revives it. Overlapping runs duplicate tickets.
* **Integrity.** A transaction that commits after its day's digest makes a mismatch nobody caused, or is never digested; overlapping runs can digest days out of order; a digest file that failed is never stored later; only the last seven digests are verified; archive and digest are read separately (372-377).
* **Change windows.** The gate reads only the window's own freeze; regrouping into another window and cancelling one need no reason; reopening reclaims an item unchecked.
* **Closing.** The machine is the account's current one, so a ticket whose state vanished is stuck. `validateMachine` requires neither that states reach a terminal one nor that `paused` agrees with `effects.pause`. Logged minutes are read unlocked. A re-resolution without a resolution keeps the old code.
* **Links and bulk edits.** `removeLink` deletes by link id whichever ticket is named. Two links added at once can close a cycle. Bulk comments check the version on an unlocked read.
* **Participants.** `ck_participant_responded` (0049, 48) makes `leave` of anyone who accepted an invitation fail.
* **Intake.** `policy_ref` names the contract although the targets came from the default; a race of `ensureContact` loses the whole ticket; overlapping saves of routing rules over disjoint rows merge.
* **Pages.** With `created_desc` from a view the cursor is built from `updated_at`; `priority` ignores the cursor; timestamps lose microseconds on their way through the driver (pool.ts 18), so rows within a millisecond can be skipped. `share='group'` without a group is accepted by update.
* **Calendars.** Western zones with a gap at midnight read the previous weekday's hours; "the later offset wins" (business-calendar.ts 88) is not so east of Greenwich; a due time can lie in the past in a fold. `invalidate` runs before the commit (371). Patches of hours alone compare no version.
* **Capacity and roster.** The version is ignored when the cell was deleted or omitted; zero minutes without a note delete a kept note; cells are locked in the caller's order. `capacity_periods` has no reader. Who is inactive during the whole window of a certification never hears of it.
* **Knowledge.** A text-only edit assigns nothing, so it neither compares nor bumps the version (repository.base.ts 71-73): lost edits, and publication of a text nobody reviewed.
* **Notifications.** Two transactions that notify one recipient under the same key at once meet a unique violation that rolls the change back; reading by id marks events folded in after the page was shown.

## 9. Plan

1. *More proofs over the desk*: the ledger's readings with the sum lemmas of `BillingProofs`, `LinksAcyclic`
   (its walk is a recursive function over the number of tickets).
2. *Health of a connector* as a part of `SyncLink`: credentials by slug, arming against the health pass.
3. *Composition*: the duration of clocks over a calendar that changes (`Ticket` with `Calendars`), a job of the desk under an outlived lease (`JobLease` with a sweep).
