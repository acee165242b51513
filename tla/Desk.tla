-------------------------------- MODULE Desk --------------------------------
(***************************************************************************)
(* The parts of the desk whose promises are proved: contracts, files,      *)
(* articles, forms and administrators, mail, satisfaction surveys,         *)
(* notifications and reports.  A behaviour is one part's, and v1, v2, ...  *)
(* are the variables of that part, in the order of its INSTANCE.  MCDesk   *)
(* adds the parts that are only model-checked.                             *)
(***************************************************************************)
EXTENDS Integers, Sequences, FiniteSets

CONSTANTS
  Requests, None, People,
  Drafts, Submissions, AllDefinitions, AllAnswers, Options,
  MaxFormVersions, MaxRequestsMade, MaxFormEdits,
  ClosedTickets, Quarter, RemindAfter, ExpireAfter, Occasions, MaxDay,
  ScopeTickets, MaxScopeEvents,
  Leads, RenewalDates, NoticePeriods, MaxToday, MaxEngagementPatches,
  MaxTexts, MaxArticleVersion, MaxAnnounced,
  AdminRoles, MaxAdminChanges, Processes, MaxVersions, MaxOverrides, MaxCommits,
  MaxMessages, MaxTickets, MailRows, MaxSends, MaxTokens, Recipients, Orders, MaxEvents,
  Reviewers, MaxEdits, MaxInstant, MaxSchedulePatches, MaxPeriodRuns,
  Reported, PeriodDays, LastReportDay, MaxMade, MaxUnsettled

VARIABLES
  part,  \* which part this behaviour is of
  v1, v2, v3, v4, v5, v6, v7, v8, v9, v10, v11, v12, v13, v14, v15

vars == <<part, v1, v2, v3, v4, v5, v6, v7, v8, v9, v10, v11, v12, v13, v14, v15>>

Sco == INSTANCE Engagements WITH
  flags <- v1, flagHolder <- v2, allowance <- v3, allowHolder <- v4, story <- v5, scopeReq <- v6,
  engagement <- None, engHolder <- None, today <- None, engReq <- None, alerted <- None,
  swept <- None
Ren == INSTANCE Engagements WITH
  engagement <- v1, engHolder <- v2, today <- v3, engReq <- v4, alerted <- v5, swept <- v6,
  flags <- None, flagHolder <- None, allowance <- None, allowHolder <- None, story <- None,
  scopeReq <- None
Att == INSTANCE Attachments WITH
  nature <- v1, file <- v2, fileHolder <- v3, store <- v4, fileReq <- v5, announced <- v6,
  silenced <- v7, strayed <- v8, overlapped <- v9
Kno == INSTANCE Knowledge WITH
  article <- v1, versions <- v2, pages <- v3, texts <- v4, unversioned <- v5, buried <- v6,
  shown <- v7, retiredOnce <- v8
Frm == INSTANCE Portal WITH
  versions <- v1, form <- v2, formReq <- v3, formEdits <- v4, made <- v5, served <- v6,
  surveys <- None, responses <- None, csatDay <- None, earned <- None, csatReq <- None,
  mails <- None, capRaced <- None
Adm == INSTANCE Administration WITH
  userStatus <- v1, assigned <- v2, roleState <- v3, adminReq <- v4, changes <- v5, asked <- v6,
  overlap <- v7, mixed <- v8, loophole <- v9, defaults <- None, overrides <- None,
  confReq <- None, copy <- None, resolving <- None, inForceBy <- None
Con == INSTANCE Administration WITH
  defaults <- v1, overrides <- v2, confReq <- v3, copy <- v4, resolving <- v5, inForceBy <- v6,
  userStatus <- None, assigned <- None, roleState <- None, adminReq <- None, changes <- None,
  asked <- None, overlap <- None, mixed <- None, loophole <- None
Cs == INSTANCE Portal WITH
  surveys <- v1, responses <- v2, csatDay <- v3, earned <- v4, csatReq <- v5, mails <- v6,
  capRaced <- v7,
  versions <- None, form <- None, formReq <- None, formEdits <- None, made <- None,
  served <- None
Out == INSTANCE Email WITH
  emailToken <- v1, tokenHolder <- v2, drawn <- v3, outbound <- v4, rowHolder <- v5, wire <- v6,
  suppressed <- v7, bounced <- v8, reqMail <- v9, lostSends <- v10, unmatched <- v11,
  tokenRaced <- v12, automatic <- None, contact <- None, inbox <- None, claimant <- None,
  received <- None, ticketsMade <- None, commented <- None, item <- None, itemHolder <- None,
  ticketOf <- None, mailIn <- None, outOfOrder <- None
Inb == INSTANCE Email WITH
  automatic <- v1, contact <- v2, inbox <- v3, claimant <- v4, received <- v5, ticketsMade <- v6,
  commented <- v7, item <- v8, itemHolder <- v9, ticketOf <- v10, mailIn <- v11,
  outOfOrder <- v12, emailToken <- None, tokenHolder <- None, drawn <- None, outbound <- None,
  rowHolder <- None, wire <- None, suppressed <- None, bounced <- None, reqMail <- None,
  lostSends <- None, unmatched <- None, tokenRaced <- None
Ntf == INSTANCE Notifications WITH
  feed <- v1, noteReq <- v2, page <- v3, begun <- v4, told <- v5, acted <- v6
Rev == INSTANCE Reports WITH
  run <- v1, runHolder <- v2, narrative <- v3, packHolder <- v4, edits <- v5, files <- v6,
  reviewReq <- v7, packsSent <- v8, decided <- v9, together <- v10, schedule <- None,
  scheduleHolder <- None, instant <- None, scheduleReq <- None, built <- None,
  firstMails <- None, undone <- None, asideRun <- None
Sch == INSTANCE Reports WITH
  schedule <- v1, scheduleHolder <- v2, instant <- v3, scheduleReq <- v4, built <- v5,
  firstMails <- v6, undone <- v7, asideRun <- v8, run <- None, runHolder <- None,
  narrative <- None, packHolder <- None, edits <- None, files <- None, reviewReq <- None,
  packsSent <- None, decided <- None, together <- None
Fig == INSTANCE Figures WITH
  today <- v1, facts <- v2, logged <- v3, packs <- v4, snapshots <- v5, reopened <- v6,
  account <- None, was <- None
Hlt == INSTANCE Figures WITH
  account <- v1, was <- v2, today <- None, facts <- None, logged <- None, packs <- None,
  snapshots <- None, reopened <- None

-----------------------------------------------------------------------------
(* Contracts: out-of-scope work and renewals                               *)

CommercialInit ==
  \/ /\ part = "scope" /\ Sco!ScopeInit
     /\ v7 = None /\ v8 = None /\ v9 = None /\ v10 = None /\ v11 = None /\ v12 = None /\ v13 = None /\ v14 = None /\ v15 = None
  \/ /\ part = "renewals" /\ Ren!RenewalInit
     /\ v7 = None /\ v8 = None /\ v9 = None /\ v10 = None /\ v11 = None /\ v12 = None /\ v13 = None /\ v14 = None /\ v15 = None

CommercialNext ==
  \/ part = "scope" /\ Sco!ScopeNext /\ UNCHANGED <<v7, v8, v9, v10, v11, v12, v13, v14, v15>>
  \/ part = "renewals" /\ Ren!RenewalNext /\ UNCHANGED <<v7, v8, v9, v10, v11, v12, v13, v14, v15>>

CommercialSpec == CommercialInit /\ [][CommercialNext /\ UNCHANGED part]_vars

\* The scope record tells one story per ticket and its allowances add up to the
\* period's (tickets.service.ts flagScope, decideScope); renewal alerts are sent
\* once per date and none is owed after a sweep (renewal-jobs.ts alertDue).
CommercialHolds ==
  /\ part = "scope" =>
       /\ Sco!RecordTellsStory
       /\ Sco!DecidedWhatWasSeen
       /\ Sco!AllowancesAddUp
       /\ Sco!DetectedOnce
  /\ part = "renewals" => Ren!AlertsOncePerDate /\ Ren!SweptOwesNothing

-----------------------------------------------------------------------------
(* What the desk keeps: files, articles, forms                             *)

LibraryInit ==
  \/ /\ part = "files" /\ Att!AttachmentsInit
     /\ v10 = None /\ v11 = None /\ v12 = None /\ v13 = None /\ v14 = None /\ v15 = None
  \/ /\ part = "articles" /\ Kno!KnowledgeInit
     /\ v9 = None /\ v10 = None /\ v11 = None /\ v12 = None /\ v13 = None /\ v14 = None /\ v15 = None
  \/ /\ part = "forms" /\ Frm!FormInit
     /\ v7 = None /\ v8 = None /\ v9 = None /\ v10 = None /\ v11 = None /\ v12 = None /\ v13 = None /\ v14 = None /\ v15 = None

LibraryNext ==
  \/ part = "files" /\ Att!AttachmentsNext /\ UNCHANGED <<v10, v11, v12, v13, v14, v15>>
  \/ part = "articles" /\ Kno!KnowledgeNext /\ UNCHANGED <<v9, v10, v11, v12, v13, v14, v15>>
  \/ part = "forms" /\ Frm!FormNext /\ UNCHANGED <<v7, v8, v9, v10, v11, v12, v13, v14, v15>>

LibrarySpec == LibraryInit /\ [][LibraryNext /\ UNCHANGED part]_vars

\* A scanned file's verdict, key, size and object agree, an upload stays
\* confirmable and a removed file is not announced (attachments.module.ts confirm,
\* ingest, applyScan, remove); an article is published as its reviewer read it and
\* its versions stay in order (knowledge.module.ts publish, updateDraft); a ticket
\* keeps what the published form it names means by the answers (portal.module.ts
\* mapSubmission, forms.module.ts editVersion, publish).
LibraryHolds ==
  /\ part = "forms" => Frm!SubmissionsFit /\ Frm!TicketFitsItsForm /\ Frm!PublishedIsServed
  /\ part = "articles" =>
       /\ Kno!PublishedAsRead
       /\ Kno!EditsAreSeen
       /\ Kno!ReviewerDiffers
       /\ Kno!VersionsInOrder
  /\ part = "files" =>
       /\ Att!VerdictFitsObject
       /\ Att!ConfirmStaysPossible
       /\ Att!SizeIsTrue
       /\ Att!RemovedIsSilent

-----------------------------------------------------------------------------
(* Mail, surveys and notifications                                         *)

MailInit ==
  \/ /\ part = "outbound" /\ Out!OutboundInit
     /\ v13 = None /\ v14 = None /\ v15 = None
  \/ /\ part = "inbound" /\ Inb!InboundInit
     /\ v13 = None /\ v14 = None /\ v15 = None
  \/ /\ part = "csat" /\ Cs!CsatInit
     /\ v8 = None /\ v9 = None /\ v10 = None /\ v11 = None /\ v12 = None /\ v13 = None /\ v14 = None /\ v15 = None
  \/ /\ part = "notes" /\ Ntf!NoteInit
     /\ v7 = None /\ v8 = None /\ v9 = None /\ v10 = None /\ v11 = None /\ v12 = None /\ v13 = None /\ v14 = None /\ v15 = None

MailNext ==
  \/ part = "outbound" /\ Out!OutboundNext /\ UNCHANGED <<v13, v14, v15>>
  \/ part = "inbound" /\ Inb!InboundNext /\ UNCHANGED <<v13, v14, v15>>
  \/ part = "csat" /\ Cs!CsatNext /\ UNCHANGED <<v8, v9, v10, v11, v12, v13, v14, v15>>
  \/ part = "notes" /\ Ntf!NoteNext /\ UNCHANGED <<v7, v8, v9, v10, v11, v12, v13, v14, v15>>

MailSpec == MailInit /\ [][MailNext /\ UNCHANGED part]_vars

\* An event is mailed once with a token that leads replies to the ticket, and an
\* address that bounced is suppressed; a received message has one outcome and a
\* conversation one ticket (email.service.ts handleOutbox, processInbound, decide).
\* A survey is answered once and by its own response, only open surveys are
\* reminded, and no contact is asked twice a day (csat.module.ts record, tick).
\* Notifications that collapse count every change and leave none unread behind one
\* that was seen (notifications.repository.ts upsert, markRead).
MailHolds ==
  /\ part = "notes" => Ntf!EveryChangeIsCounted /\ Ntf!NewsAwaitsItsReader
  /\ part = "csat" =>
       /\ Cs!AnsweredHasResponse
       /\ Cs!RemindsOnlyTheOpen
       /\ Cs!MailsAreBounded
       /\ Cs!DailyCapHolds
  /\ part = "outbound" => Out!MailOncePerEvent /\ Out!RepliesFindTheTicket /\ Out!BouncesSuppress
  /\ part = "inbound" => Inb!OneOutcome /\ Inb!OneTicketPerThread

-----------------------------------------------------------------------------
(* Reports: schedules, reviews, figures and the health score               *)

ReportsInit ==
  \/ /\ part = "schedule" /\ Sch!ScheduleInit
     /\ v9 = None /\ v10 = None /\ v11 = None /\ v12 = None /\ v13 = None /\ v14 = None /\ v15 = None
  \/ /\ part = "review" /\ Rev!ReviewInit
     /\ v11 = None /\ v12 = None /\ v13 = None /\ v14 = None /\ v15 = None
  \/ /\ part = "figures" /\ Fig!FiguresInit
     /\ v7 = None /\ v8 = None /\ v9 = None /\ v10 = None /\ v11 = None /\ v12 = None /\ v13 = None /\ v14 = None /\ v15 = None
  \/ /\ part = "health" /\ Hlt!AccountInit
     /\ v3 = None /\ v4 = None /\ v5 = None /\ v6 = None /\ v7 = None /\ v8 = None /\ v9 = None /\ v10 = None /\ v11 = None /\ v12 = None /\ v13 = None /\ v14 = None /\ v15 = None

ReportsNext ==
  \/ part = "schedule" /\ Sch!ScheduleNext /\ UNCHANGED <<v9, v10, v11, v12, v13, v14, v15>>
  \/ part = "review" /\ Rev!ReviewNext /\ UNCHANGED <<v11, v12, v13, v14, v15>>
  \/ part = "figures" /\ Fig!FiguresNext /\ UNCHANGED <<v7, v8, v9, v10, v11, v12, v13, v14, v15>>
  \/ part = "health" /\ Hlt!AccountNext /\ UNCHANGED <<v3, v4, v5, v6, v7, v8, v9, v10, v11, v12, v13, v14, v15>>

ReportsSpec == ReportsInit /\ [][ReportsNext /\ UNCHANGED part]_vars

\* A held report is decided for good, by a second reader, and sent as it was
\* last edited (schedules.module.ts approve, expireReviews); the job builds a
\* period's pack once and an enabled schedule never falls asleep (runDue).
\* What is reported once is not reported again, and what two reports say of one
\* period agrees (reporting.service.ts generateWsr, buildQbr, measures.ts).
\* The health score follows its factors (health.ts computeHealth).
ReportsHold ==
  /\ part = "health" => Hlt!ScoreFollowsFactors /\ Hlt!ScoreIsAMean
  /\ part = "figures" => Fig!LinesReportedOnce /\ Fig!ComparisonAgrees /\ Fig!SnapshotsAddUp
  /\ part = "review" => Rev!DecidedIsFinal /\ Rev!SecondReader /\ Rev!TurnsAreSafe
  /\ part = "schedule" => Sch!EnabledHasNextRun /\ Sch!PeriodRunsOnce /\ Sch!OneRunner
=============================================================================
