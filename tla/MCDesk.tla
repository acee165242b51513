------------------------------- MODULE MCDesk -------------------------------
(***************************************************************************)
(* The parts of the desk that share no row with each other: a behaviour is *)
(* one part's, and v1, v2, ... are the variables of that part, in the      *)
(* order of its INSTANCE.  A module per part says what its requests and    *)
(* jobs do; here they get their instances and the promises are stated.     *)
(***************************************************************************)
EXTENDS Desk, TLC

CONSTANTS
  r1, r2, a, b, MaxLines, MaxPeriodVersion, MaxDeliveries, Contracted, Percents, EntrySizes,
  MaxEntries, MaxEntryMinutes, MaxCarried, k1, k2, Policies, MaxInboxAttempts, MaxFieldInstant, MaxTroubles, Maps, MaxMapEdits,
  MaxActivations, Batches, Cases, MaxChanges, MaxStarts, MaxMishaps, Proposals, MaxSwitches,
  MaxTicketVersion, Changes, s1, s2, Windows, MaxHour, MaxReplanned, LinkedTickets,
  LinkTypes, MaxLinks, GroupMembers, MaxParts, DayMinutes, MaxFrom, MaxWork, Slots,
  MaxCalendarPatches, Allocated, MonthDays, HolidaysOfMonth, MaxPuts, MaxViews,
  Skills, Certifications, ExpiryWindow, SweepBatch, MaxRosterDay, MaxAssessments,
  LastDay, OffDays, LedgerSizes, Allotted, CarryCap, MaxLedger, Listed, PageSize, MaxShown,
  MaxMinutes, MaxMoves, MaxCreated, MaxSaves, Events, VerifiedDays, LastStreamDay, MaxStreamFaults, MaxFrames, ClientKeys,
  Endpoints, PauseAfter, MaxCalls, MaxAccountVersion, MaxGrantChanges, Subjects, SeenLimit,
  MaxSignIns, MaxAccessChanges, Callers, PerWindow, WindowTicks, LastTick, MaxHits

const_Symmetry ==
  Permutations(Requests) \cup Permutations(People) \cup Permutations(Changes)

const_RemindAfter == [s \in ClosedTickets \cup {Quarter} |-> {1}]
const_ExpireAfter == [s \in ClosedTickets \cup {Quarter} |-> 2]
const_Occasions == {{k1, Quarter}}

PlannedSpans == {[from |-> 1, to |-> 2], [from |-> 2, to |-> 3]}
Freezes == {[from |-> 1, to |-> 2]}

\* Clocks that jump by two of a day's five minutes, either way, in one of its
\* minutes or just between two days.
Zones == {z \in [before : {-3, -1, 1, 3}, after : {-3, -1, 1, 3}, at : 4 .. 10] :
            z.before * z.after > 0 /\ z.before # z.after}
WorkHours == {<<{1, 2}, {1, 2}>>, <<0 .. 4, 0 .. 4>>, <<{0, 1, 3}, {}>>, <<{1}, {0, 4}>>}
HolidaySets == {{}, {1}, {2}}

\* A row that goes, one that stays for its note, one that is made or changed,
\* and two accounts in either order.
Put(account, minutes, note) == [account |-> account, minutes |-> minutes, note |-> note]
Puts == {<<Put(k1, 0, "kept")>>, <<Put(k1, 0, "set")>>, <<Put(k1, 1, "cleared")>>,
         <<Put(k1, 1, "kept"), Put(k2, 1, "kept")>>, <<Put(k2, 1, "kept"), Put(k1, 1, "kept")>>}
TimeOff == {[from |-> 1, to |-> 2, quarters |-> 4], [from |-> 2, to |-> 2, quarters |-> 2]}

const_Orders == {<<k1>>, <<k1, k2>>, <<k2, k1>>}
ExpiresOn == [c \in Certifications |-> IF c = k1 THEN 1 ELSE 2]

Field(key, kind, required, when) ==
  [key |-> key, kind |-> kind, required |-> required, when |-> when, target |-> key]
Always == [field |-> "none", equals |-> "none"]
If(key) == [field |-> key, equals |-> "x"]
const_Drafts == {<<Field("p", "choice", TRUE, Always)>>,
           <<Field("p", "choice", TRUE, Always), Field("q", "text", TRUE, If("p"))>>,
           <<Field("q", "text", TRUE, If("p")), Field("p", "choice", FALSE, Always)>>}
const_Submissions == {[k \in {"p"} |-> "x"], [k \in {"p", "q"} |-> "x"], [k \in {"p", "q"} |-> "y"]}
const_AllDefinitions ==
  {<<Field("p", "choice", needP, Always), Field("q", kind, needQ, whenQ), Field("r", "text", TRUE, whenR)>> :
     needP \in BOOLEAN, needQ \in BOOLEAN, kind \in {"choice", "text"},
     whenQ \in {Always, If("p"), If("r")}, whenR \in {Always, If("p"), If("q")}}
const_AllAnswers ==
  UNION {[keys -> {"x", "y", "blank", "other"}] : keys \in SUBSET {"p", "q", "r"}} \cup [{"p", "z"} -> {"x"}]

Corrections == {-1, 1}
Cards == {[own |-> FALSE, from |-> 1, rate |-> 10], [own |-> TRUE, from |-> 2, rate |-> 12]}

Held == {{1}}

Bill == INSTANCE Billing WITH
  period <- v1, periodHolder <- v2, inserted <- v3, lines <- v4, billReq <- v5, lockEvents <- v6,
  handed <- v7, deliveries <- v8, racing <- v9, budget <- None, entryMinutes <- None,
  logged <- None, alerts <- None, budgetReq <- None, enlarged <- None, contended <- None
\* The hypothesis of the theorems about the billing period.
ASSUME BillingNone == Bill!BillingConstants
Bud == INSTANCE Billing WITH
  budget <- v1, entryMinutes <- v2, logged <- v3, alerts <- v4, budgetReq <- v5, enlarged <- v6,
  contended <- v7, period <- None, periodHolder <- None, inserted <- None, lines <- None,
  billReq <- None, lockEvents <- None, handed <- None, deliveries <- None, racing <- None
\* The hypothesis of the theorems about the budget.
ASSUME ContractHasBudget == Bud!BudgetConstants
Sug == INSTANCE AiAssistance WITH
  aiSwitch <- v1, switchHolder <- v2, switches <- v3, offered <- v4, elapsed <- v5,
  finalOf <- v6, expiries <- v7, decisionHolder <- v8, intake <- v9, intakeHolder <- v10,
  applied <- v11, aiReq <- v12, slipped <- v13, crossed <- v14, overrode <- v15,
  settings <- None, ask <- None, seen <- None, sent <- None, heard <- None, drafts <- None,
  kept <- None, notices <- None, wire <- None, says <- None
\* The hypothesis of the theorems about the administrators.
ASSUME SomebodyAdministers == Adm!AdminConstants
Fld == INSTANCE SyncLink WITH
  policy <- v1, clock <- v2, record <- v3, ticket <- v4, closed <- v5, link <- v6, inbox <- v7,
  pass <- v8, applying <- v9, queue <- v10, pushing <- v11, resolving <- v12, troubles <- v13,
  backwards <- v14, crossed <- v15, maps <- None, checked <- None, instance <- None,
  mapReq <- None, mapEdits <- None, outdated <- None, overrun <- None
Map == INSTANCE SyncLink WITH
  maps <- v1, checked <- v2, instance <- v3, mapReq <- v4, mapEdits <- v5, outdated <- v6,
  overrun <- v7, policy <- None, clock <- None, record <- None, ticket <- None, closed <- None,
  link <- None, inbox <- None, pass <- None, applying <- None, queue <- None, pushing <- None,
  resolving <- None, troubles <- None, backwards <- None, crossed <- None
\* What the proofs about the field maps assume of the bound on edits.
ASSUME EditsAreBounded == Map!MapsConstants
Win == INSTANCE TicketDiscipline WITH
  windows <- v1, changes <- v2, changeHolder <- v3, hour <- v4, changeReq <- v5, replanned <- v6,
  acknowledged <- v7, unchecked <- v8, overlapped <- v9, shipped <- v10, late <- v11,
  machine <- None, catalog <- None, moving <- None, minutes <- None, published <- None,
  closing <- None, exempted <- None, waived <- None, lowered <- None, withdrawn <- None,
  outlived <- None
\* What the proofs about contracts and files assume of people, leads and None.
ASSUME NobodyIsTheSweep == Sco!ScopeConstants
ASSUME LeadsHaveAWidest == Ren!RenewalConstants
ASSUME NoneIsNoObject == Att!AttachmentsConstants
ASSUME BlankIsNoOption == Frm!FormConstants
\* What the proofs about mail, surveys and notifications assume of None, the
\* schedule of reminders and the orders of recipients.
ASSUME NoneIsNoMail == Out!MailConstants
ASSUME RemindersAreDays == Cs!CsatConstants
ASSUME RecipientsAreNotified == Ntf!NoteConstants
\* What the proofs about reports assume of None and of days.
ASSUME InstantsAreNumbers == Sch!ScheduleConstants
ASSUME NobodyIsNoReviewer == Rev!ReviewConstants
ASSUME PeriodsHaveDays == Fig!FiguresConstants
ASSUME NoneIsNoScore == Hlt!HealthConstants
\* What the proofs about an article assume of its two bounds.
ASSUME AnArticleHasText == Kno!KnowledgeConstants
Lnk == INSTANCE TicketRelations WITH
  links <- v1, linkReq <- v2, made <- v3, overlapped <- v4, assignee <- None, parts <- None,
  partReq <- None, ends <- None, assignedSince <- None
Par == INSTANCE TicketRelations WITH
  assignee <- v1, parts <- v2, partReq <- v3, ends <- v4, assignedSince <- v5, links <- None,
  linkReq <- None, made <- None, overlapped <- None
\* What the proofs about participants assume: no assignee is not a person.
ASSUME NobodyIsNoPerson == Par!PartConstants
Wrk == INSTANCE Calendars WITH
  zone <- v1, working <- v2, holidays <- v3, from <- v4, work <- v5, loop <- v6, due <- v7,
  total <- v8, next <- v9, calendar <- None, calReq <- None, cache <- None, filling <- None,
  commits <- None, inForce <- None, mixed <- None, loopholes <- None
Cal == INSTANCE Calendars WITH
  calendar <- v1, calReq <- v2, cache <- v3, filling <- v4, commits <- v5, inForce <- v6,
  mixed <- v7, loopholes <- v8, zone <- None, working <- None, holidays <- None, from <- None,
  work <- None, loop <- None, due <- None, total <- None, next <- None
Mig == INSTANCE DataIntegrity WITH
  batches <- v1, records <- v2, latest <- v3, tickets <- v4, brought <- v5, cases <- v6,
  migRun <- v7, reports <- v8, starts <- v9, mishaps <- v10, together <- v11, restarted <- v12,
  revived <- v13, crashed <- v14,
  today <- None, events <- None, digests <- None, filed <- None, checks <- None,
  cold <- None, archives <- None, runs <- None, faults <- None
Cap == INSTANCE Staffing WITH
  cells <- v1, timeOff <- v2, month <- v3, capReq <- v4, puts <- v5, views <- v6, buried <- v7,
  unread <- v8, active <- None, certified <- None, sweep <- None, rosterDay <- None,
  skills <- None, skillReq <- None, assessments <- None, heard <- None, due <- None,
  excused <- None, merged <- None
Ros == INSTANCE Staffing WITH
  active <- v1, certified <- v2, sweep <- v3, rosterDay <- v4, skills <- v5, skillReq <- v6,
  assessments <- v7, heard <- v8, due <- v9, excused <- v10, merged <- v11, cells <- None,
  timeOff <- None, month <- None, capReq <- None, puts <- None, views <- None, buried <- None,
  unread <- None
Led == INSTANCE TimeLedger WITH
  terms <- v1, ledgerDay <- v2, approved <- v3, entries <- v4, fixes <- v5, carriedTo <- v6,
  crossedOn <- v7, frozen <- v8, spent <- v9, openedLate <- v10
Pag == INSTANCE TicketPages WITH
  rows <- v1, view <- v2, query <- v3, cursor <- v4, listing <- v5, pages <- v6, touched <- v7,
  coarse <- v8, misled <- v9, resorted <- v10
Cls == INSTANCE TicketDiscipline WITH
  machine <- v1, catalog <- v2, moving <- v3, minutes <- v4, published <- v5, closing <- v6,
  exempted <- v7, waived <- v8, lowered <- v9, withdrawn <- v10, outlived <- v11,
  windows <- None, changes <- None, changeHolder <- None, hour <- None, changeReq <- None,
  replanned <- None, acknowledged <- None, unchecked <- None, overlapped <- None,
  shipped <- None, late <- None
Itk == INSTANCE TicketIntake WITH
  contracts <- v1, groupStatus <- v2, personActive <- v3, rules <- v4, contactIds <- v5,
  intakeReq <- v6, created <- v7, saves <- v8, moved <- v9, mixed <- v10
Itg == INSTANCE DataIntegrity WITH
  today <- v1, events <- v2, digests <- v3, filed <- v4, checks <- v5, cold <- v6, archives <- v7,
  runs <- v8, faults <- v9,
  batches <- None, records <- None, latest <- None, tickets <- None, brought <- None,
  cases <- None, migRun <- None, reports <- None, starts <- None, mishaps <- None,
  together <- None, restarted <- None, revived <- None, crashed <- None
Trn == INSTANCE AiAssistance WITH
  settings <- v1, ask <- v2, seen <- v3, sent <- v4, heard <- v5, drafts <- v6, kept <- v7,
  notices <- v8, wire <- v9, says <- v10, aiSwitch <- None, switchHolder <- None,
  switches <- None, offered <- None, elapsed <- None, finalOf <- None, expiries <- None,
  decisionHolder <- None, intake <- None, intakeHolder <- None, applied <- None, aiReq <- None,
  slipped <- None, crossed <- None, overrode <- None
Whk == INSTANCE WebhookAdmin WITH
  keys <- v1, subs <- v2, trail <- v3, calls <- v4, begun <- v5, posting <- v6, told <- v7,
  removed <- v8, overtaken <- v9, reopened <- v10, muddled <- v11
\* The hypothesis of the theorems about endpoints: None is no row.
ASSUME NoneIsNoEndpoint == Whk!ConsoleConstants
Acc == INSTANCE Accounts WITH
  acct <- v1, acctSettings <- v2, granted <- v3, activePeople <- v4, tasks <- v5,
  ownerTrail <- v6, grantChanges <- v7, asked <- v8, mingled <- v9, ceased <- v10, cutOff <- v11
Sgn == INSTANCE Access WITH
  user <- v1, rights <- v2, guarded <- v3, presented <- v4, changed <- v5, seen <- v6,
  signedIn <- v7, ordered <- v8, firstBound <- v9, excused <- v10, windows <- None,
  lastPrune <- None, tick <- None, passed <- None, refusals <- None, hits <- None
Lim == INSTANCE Access WITH
  windows <- v1, lastPrune <- v2, tick <- v3, passed <- v4, refusals <- v5, hits <- v6,
  user <- None, rights <- None, guarded <- None, presented <- None, changed <- None,
  seen <- None, signedIn <- None, ordered <- None, firstBound <- None, excused <- None

Init ==
  \/ CommercialInit
  \/ LibraryInit
  \/ MailInit
  \/ ReportsInit
  \/ part = "billing" /\ Bill!BillingInit /\ v10 = None /\ v11 = None /\ v12 = None /\ v13 = None /\ v14 = None /\ v15 = None
  \/ part = "budget" /\ Bud!BudgetInit /\ v8 = None /\ v9 = None /\ v10 = None /\ v11 = None /\ v12 = None /\ v13 = None /\ v14 = None /\ v15 = None
  \/ part = "advice" /\ Sug!SuggestionsInit
  \/ part = "admins" /\ Adm!AdministratorsInit /\ v10 = None /\ v11 = None /\ v12 = None /\ v13 = None /\ v14 = None /\ v15 = None
  \/ part = "fields" /\ Fld!FieldsInit
  \/ part = "maps" /\ Map!MapsInit /\ v8 = None /\ v9 = None /\ v10 = None /\ v11 = None /\ v12 = None /\ v13 = None /\ v14 = None /\ v15 = None
  \/ part = "windows" /\ Win!WindowsInit /\ v12 = None /\ v13 = None /\ v14 = None /\ v15 = None
  \/ part = "links" /\ Lnk!LinksInit /\ v5 = None /\ v6 = None /\ v7 = None /\ v8 = None /\ v9 = None /\ v10 = None /\ v11 = None /\ v12 = None /\ v13 = None /\ v14 = None /\ v15 = None
  \/ part = "participants" /\ Par!PartInit /\ v6 = None /\ v7 = None /\ v8 = None /\ v9 = None /\ v10 = None /\ v11 = None /\ v12 = None /\ v13 = None /\ v14 = None /\ v15 = None
  \/ part = "hours" /\ Wrk!CalendarInit /\ v10 = None /\ v11 = None /\ v12 = None /\ v13 = None /\ v14 = None /\ v15 = None
  \/ part = "calendars" /\ Cal!CalendarsInit /\ v9 = None /\ v10 = None /\ v11 = None /\ v12 = None /\ v13 = None /\ v14 = None /\ v15 = None
  \/ part = "migration" /\ Mig!MigrationInit /\ v15 = None
  \/ part = "capacity" /\ Cap!CapacityInit /\ v9 = None /\ v10 = None /\ v11 = None /\ v12 = None /\ v13 = None /\ v14 = None /\ v15 = None
  \/ part = "roster" /\ Ros!RosterInit /\ v12 = None /\ v13 = None /\ v14 = None /\ v15 = None
  \/ part = "configuration" /\ Con!ConfInit /\ v7 = None /\ v8 = None /\ v9 = None /\ v10 = None /\ v11 = None /\ v12 = None /\ v13 = None /\ v14 = None /\ v15 = None
  \/ part = "ledger" /\ Led!LedgerInit /\ v11 = None /\ v12 = None /\ v13 = None /\ v14 = None /\ v15 = None
  \/ part = "pages" /\ Pag!PagesInit /\ v11 = None /\ v12 = None /\ v13 = None /\ v14 = None /\ v15 = None
  \/ part = "closing" /\ Cls!ClosingInit /\ v12 = None /\ v13 = None /\ v14 = None /\ v15 = None
  \/ part = "intake" /\ Itk!IntakeInit /\ v11 = None /\ v12 = None /\ v13 = None /\ v14 = None /\ v15 = None
  \/ part = "integrity" /\ Itg!IntegrityInit /\ v10 = None /\ v11 = None /\ v12 = None /\ v13 = None /\ v14 = None /\ v15 = None
  \/ part = "turn" /\ Trn!TurnInit /\ v11 = None /\ v12 = None /\ v13 = None /\ v14 = None /\ v15 = None
  \/ part = "endpoints" /\ Whk!WebhookAdminInit /\ v12 = None /\ v13 = None /\ v14 = None /\ v15 = None
  \/ part = "account" /\ Acc!AccountsInit /\ v12 = None /\ v13 = None /\ v14 = None /\ v15 = None
  \/ part = "signin" /\ Sgn!SignInInit /\ v11 = None /\ v12 = None /\ v13 = None /\ v14 = None /\ v15 = None
  \/ part = "limiter" /\ Lim!LimiterInit /\ v7 = None /\ v8 = None /\ v9 = None /\ v10 = None /\ v11 = None /\ v12 = None /\ v13 = None /\ v14 = None /\ v15 = None

Next ==
  /\ UNCHANGED part
  /\ \/ CommercialNext
     \/ LibraryNext
     \/ MailNext
     \/ ReportsNext
     \/ /\ part = "billing" /\ Bill!BillingNext /\ UNCHANGED <<v10, v11, v12, v13, v14, v15>>
     \/ /\ part = "budget" /\ Bud!BudgetNext /\ UNCHANGED <<v8, v9, v10, v11, v12, v13, v14, v15>>
     \/ /\ part = "advice" /\ Sug!SuggestionsNext
     \/ /\ part = "admins" /\ Adm!AdministratorsNext /\ UNCHANGED <<v10, v11, v12, v13, v14, v15>>
     \/ /\ part = "fields" /\ Fld!FieldsNext
     \/ /\ part = "maps" /\ Map!MapsNext /\ UNCHANGED <<v8, v9, v10, v11, v12, v13, v14, v15>>
     \/ /\ part = "windows" /\ Win!WindowsNext /\ UNCHANGED <<v12, v13, v14, v15>>
     \/ /\ part = "links" /\ Lnk!LinksNext /\ UNCHANGED <<v5, v6, v7, v8, v9, v10, v11, v12, v13, v14, v15>>
     \/ /\ part = "participants" /\ Par!PartNext /\ UNCHANGED <<v6, v7, v8, v9, v10, v11, v12, v13, v14, v15>>
     \/ /\ part = "hours" /\ Wrk!CalendarNext /\ UNCHANGED <<v10, v11, v12, v13, v14, v15>>
     \/ /\ part = "calendars" /\ Cal!CalendarsNext /\ UNCHANGED <<v9, v10, v11, v12, v13, v14, v15>>
     \/ /\ part = "migration" /\ Mig!MigrationNext /\ UNCHANGED <<v15>>
     \/ /\ part = "capacity" /\ Cap!CapacityNext /\ UNCHANGED <<v9, v10, v11, v12, v13, v14, v15>>
     \/ /\ part = "roster" /\ Ros!RosterNext /\ UNCHANGED <<v12, v13, v14, v15>>
     \/ /\ part = "configuration" /\ Con!ConfNext /\ UNCHANGED <<v7, v8, v9, v10, v11, v12, v13, v14, v15>>
     \/ /\ part = "ledger" /\ Led!LedgerNext /\ UNCHANGED <<v11, v12, v13, v14, v15>>
     \/ /\ part = "pages" /\ Pag!PagesNext /\ UNCHANGED <<v11, v12, v13, v14, v15>>
     \/ /\ part = "closing" /\ Cls!ClosingNext /\ UNCHANGED <<v12, v13, v14, v15>>
     \/ /\ part = "intake" /\ Itk!IntakeNext /\ UNCHANGED <<v11, v12, v13, v14, v15>>
     \/ /\ part = "integrity" /\ Itg!IntegrityNext /\ UNCHANGED <<v10, v11, v12, v13, v14, v15>>
     \/ /\ part = "turn" /\ Trn!TurnNext /\ UNCHANGED <<v11, v12, v13, v14, v15>>
     \/ /\ part = "endpoints" /\ Whk!WebhookAdminNext /\ UNCHANGED <<v12, v13, v14, v15>>
     \/ /\ part = "account" /\ Acc!AccountsNext /\ UNCHANGED <<v12, v13, v14, v15>>
     \/ /\ part = "signin" /\ Sgn!SignInNext /\ UNCHANGED <<v11, v12, v13, v14, v15>>
     \/ /\ part = "limiter" /\ Lim!LimiterNext /\ UNCHANGED <<v7, v8, v9, v10, v11, v12, v13, v14, v15>>

Parts == {"billing", "budget", "csat", "review", "schedule", "scope", "renewals", "files",
          "outbound", "inbound", "advice", "admins", "fields", "maps", "windows", "articles",
          "links", "participants", "hours", "calendars", "migration", "capacity", "notes",
          "roster", "configuration", "forms", "ledger", "pages", "closing", "intake", "figures",
          "health", "integrity", "turn", "endpoints", "account", "signin", "limiter"}

Spec == Init /\ [][Next]_vars

-----------------------------------------------------------------------------
\* Every part's state has the shape the code and its schema give it.
TypeOK ==
  /\ part \in Parts
  /\ part = "billing" => Bill!BillingTypeOK
  /\ part = "budget" => Bud!BudgetTypeOK
  /\ part = "csat" => Cs!CsatTypeOK
  /\ part = "review" => Rev!ReviewTypeOK
  /\ part = "schedule" => Sch!ScheduleTypeOK
  /\ part = "scope" => Sco!ScopeTypeOK
  /\ part = "renewals" => Ren!RenewalTypeOK
  /\ part = "files" => Att!AttachmentsTypeOK
  /\ part = "outbound" => Out!OutboundTypeOK
  /\ part = "inbound" => Inb!InboundTypeOK
  /\ part = "advice" => Sug!SuggestionsTypeOK
  /\ part = "admins" => Adm!AdministratorsTypeOK
  /\ part = "fields" => Fld!FieldsTypeOK
  /\ part = "maps" => Map!MapsTypeOK
  /\ part = "windows" => Win!WindowsTypeOK
  /\ part = "articles" => Kno!KnowledgeTypeOK
  /\ part = "links" => Lnk!LinksTypeOK
  /\ part = "participants" => Par!PartTypeOK
  /\ part = "hours" => Wrk!CalendarTypeOK
  /\ part = "calendars" => Cal!CalendarsTypeOK
  /\ part = "migration" => Mig!MigrationTypeOK
  /\ part = "capacity" => Cap!CapacityTypeOK
  /\ part = "notes" => Ntf!NoteTypeOK
  /\ part = "roster" => Ros!RosterTypeOK
  /\ part = "configuration" => Con!ConfTypeOK
  /\ part = "forms" => Frm!FormTypeOK
  /\ part = "ledger" => Led!LedgerTypeOK
  /\ part = "pages" => Pag!PagesTypeOK
  /\ part = "closing" => Cls!ClosingTypeOK
  /\ part = "intake" => Itk!IntakeTypeOK
  /\ part = "figures" => Fig!FiguresTypeOK
  /\ part = "health" => Hlt!AccountTypeOK
  /\ part = "integrity" => Itg!IntegrityTypeOK
  /\ part = "turn" => Trn!TurnTypeOK
  /\ part = "endpoints" => Whk!WebhookAdminTypeOK
  /\ part = "account" => Acc!AccountsTypeOK
  /\ part = "signin" => Sgn!SignInTypeOK
  /\ part = "limiter" => Lim!LimiterTypeOK

\* A billing period that Finance locked never changes, and a file handed over
\* holds the period's own lines (time.module.ts transitionBillingPeriod,
\* finance.module.ts deliver); minutes stay inside the budget where the overage
\* rule blocks and every threshold fires once (time.module.ts insertEntry).
\* The lines of an approved day stay, timesheets, consumption, margin and comp time
\* are told from the same ones (time.module.ts logOnTicket, adjust, createPeriod).
MoneyHolds ==
  /\ part = "ledger" => Led!LedgerHolds
  /\ part = "billing" => Bill!BillingSafe
  /\ part = "budget" =>
       /\ Bud!BlockHolds
       /\ Bud!NotBelowZero
       /\ Bud!AlertsFireOnce
       /\ Bud!CrossedHasAlerted

\* A field of a linked ticket differs from the client's record only where somebody
\* is told (sync.worker.ts applyRecord, push); the map in use was validated
\* (connectors.service.ts activateMap); an imported case has one ticket and its
\* report a second signature (migration.service.ts load, signOff).
\* Every event of a finished day is attested, and a change to it is found
\* (integrity.module.ts DigestService, ArchiveService).
ImportsHold ==
  /\ part = "integrity" =>
       /\ Itg!EveryRowIsAttested
       /\ Itg!ChainIsWhole
       /\ Itg!MismatchesAreFound
       /\ Itg!FilesFollowDigests
       /\ Itg!ArchiveAgrees
  /\ part = "fields" => Fld!DivergenceIsKnown /\ Fld!BackwardsAfterTrouble
  /\ part = "maps" => Map!UsedIsChecked /\ Map!OneActive
  /\ part = "migration" =>
       /\ Mig!OneTicketPerCase
       /\ Mig!SkippedWasBrought
       /\ Mig!SignedByAnother
       /\ Mig!OneBatchCounts
       /\ Mig!NoneIsStranded

\* A suggestion of the assistant changes the ticket once, when a person accepted
\* it, and never after the ticket was assigned (suggestion.service.ts decide,
\* apply); an administrator remains (users.service.ts replaceRoles, updateRole); one
\* version of the configuration is in force, and processes work with it
\* (config.service.ts activateVersion, setOverride, resolve).
\* A request to the assistant leaves one row or one closed stream, and what
\* leaves for the harness is masked (suggestion.service.ts, axel.service.ts).
\* An endpoint of a revoked key is quiet, a removed one stays away, and a pause
\* tells why (webhooks.module.ts ApiClientsService, WebhookAdminService).
\* A live account has an owner who could hold it, and its audit trail chains
\* (accounts.service.ts changeOwner, transition).
\* A request acts with what its user is allowed, and a deactivated user stays out
\* (auth.guard.ts, principal.repository.ts).
\* A caller is refused when its window is spent and not before
\* (rate-limiter.ts hit).
OfficeHolds ==
  /\ part = "limiter" => Lim!AllowedIsBounded /\ Lim!RefusalIsEarned
  /\ part = "signin" =>
       /\ Sgn!AccessIsCurrent
       /\ Sgn!DeactivatedStaysOut
       /\ Sgn!BoundOnce
       /\ Sgn!SignInTold
  /\ part = "account" =>
       /\ Acc!LiveHasOwner
       /\ Acc!OwnerHoldsAccount
       /\ Acc!TrailChains
       /\ Acc!GrantsAsAsked
       /\ Acc!SettingsFollow
  /\ part = "endpoints" =>
       /\ Whk!OneLiveEndpoint
       /\ Whk!RemovedStaysRemoved
       /\ Whk!PauseTellsWhy
       /\ Whk!RevokedIsQuiet
       /\ Whk!TrailTellsStatus
       /\ Whk!SecretIsTold
  /\ part = "turn" =>
       /\ Trn!OneRowPerAnswer
       /\ Trn!IntakeTellsTheTruth
       /\ Trn!EgressIsMasked
       /\ Trn!OffersAreEarned
       /\ Trn!WireEndsOnce
  /\ part = "configuration" => Con!OneInForce /\ Con!ResolvedIsCurrent
  /\ part = "advice" =>
       /\ Sug!AppliedOnce
       /\ Sug!TriageStands
       /\ Sug!LateIsRefused
       /\ Sug!OffLeavesNothingOpen
  /\ part = "admins" => Adm!AdminRemains /\ Adm!RolesAreAsAsked

\* Two changes hold one item only knowingly and a deployment starts inside its
\* window (tickets.service.ts assertChangeWindow); parents of tickets form no cycle
\* (addLink) and nobody is on a ticket twice (participants.module.ts add); the
\* calendar counts back what it added (business-calendar.ts addMinutes) and a
\* process computes with one in force (calendars.module.ts byId).  A person's month
\* adds up and a cell is not written over unread (capacity.module.ts
\* putAllocations, computeMonth); expiring certifications are told of once and
\* skills are one assessment's (roster-jobs.ts notifyExpiring, roster.module.ts
\* setSkills).
\* A list read page by page shows each ticket once that nobody touched
\* (tickets.service.ts list).
\* A resolved ticket has time or a reason that was told, and a solution
\* (tickets.service.ts transition, close-discipline.ts checkRequirements).
\* A new ticket goes where the routing rules say, and the rules are one save's
\* (tickets.service.ts create, routing.module.ts replace).
TeamworkHolds ==
  /\ part = "intake" => Itk!RoutedAsRuled /\ Itk!ImportsAreSilent /\ Itk!RulesOfOneSave
  /\ part = "closing" => Cls!ResolvedIsEarned /\ Cls!ResolvedHasSolution /\ Cls!StateIsKnown
  /\ part = "pages" => Pag!ListIsComplete /\ Pag!ShownOnce
  /\ part = "capacity" => Cap!ReadCellsAreKept /\ Cap!MonthAddsUp
  /\ part = "roster" => Ros!HeardOnce /\ Ros!DueIsHeard /\ Ros!SkillsOfOneAssessment
  /\ part = "windows" => Win!ClashIsAcknowledged /\ Win!DeploysAreOpen
  /\ part = "links" => Lnk!LinksAcyclic
  /\ part = "participants" =>
       /\ Par!OnTicketOnce
       /\ Par!InvitationEndsOnce
       /\ Par!AssigneeIsNoParticipant
  /\ part = "hours" => Wrk!DueIsCounted /\ Wrk!BetweenUndoesAdd /\ Wrk!NextIsWorking
  /\ part = "calendars" =>
       /\ Cal!HoursOfOnePatch
       /\ Cal!CopyIsCurrent
       /\ Cal!CopyIsWhole
       /\ Cal!DefaultIsInUse
=============================================================================
