------------------------------- MODULE Reports ------------------------------
(***************************************************************************)
(* One report schedule: the job that claims it when it is due, builds the  *)
(* pack of the period before the due instant, delivers it (or holds it for *)
(* review) and moves next_run_at past now; runs asked for off the cycle;   *)
(* and edits of the schedule.                                              *)
(*                                                                         *)
(* Time is counted in run instants of the cadence.  A claim holds the      *)
(* schedule's row; an off-cycle run reads it without a lock and writes     *)
(* back the next_run_at it read, by id.                                    *)
(*                                                                         *)
(* One report run held for review: reviewers edit the narrative of its     *)
(* pack, render its two files again, approve and send it or cancel it, and *)
(* the deadline job expires the hold.                                      *)
(*                                                                         *)
(* Every request reads the run and the pack without a lock and writes them *)
(* by id.  A decision locks the run's row with its first update, a new     *)
(* rendering the pack's row; the files lie in the object store under the   *)
(* run's own keys, outside every transaction, and so does the mail.        *)
(***************************************************************************)
EXTENDS Integers, FiniteSets, Sequences

CONSTANTS
  Requests, None, MaxInstant, MaxSchedulePatches, MaxPeriodRuns, Reviewers, MaxEdits

VARIABLES
  schedule,        \* acct.report_schedules: enabled, next run, version, review required
  scheduleHolder,  \* the request that holds its row, or None
  instant,         \* the last run instant that has passed
  scheduleReq,     \* what each request does and has read
  built,           \* committed runs of the job per period, failed ones too
  firstMails,      \* deliveries of the job's runs per period, rolled back ones too
  undone,          \* history: periods whose run rolled back after its delivery
  asideRun,         \* history: a run off the cycle overlapped another request
  run,         \* acct.report_runs: status, requested_by, reviewer_id, deadline passed
  runHolder,   \* the request that holds the run's row, or None
  narrative,   \* narrative_versions of the pack: which edit, and whether rendered
  packHolder,  \* the request that holds the pack's row, or None
  edits,       \* how many edits were committed
  files,       \* the edit that the stored deck and PDF show, 0 for the template
  reviewReq,   \* what each request does and has read
  packsSent,   \* deliveries made by committed approvals
  decided,     \* history: a decision was committed
  together     \* history: two requests worked on the run at the same time

-----------------------------------------------------------------------------
(* The schedule                                                            *)

scheduleVars == <<schedule, scheduleHolder, instant, scheduleReq, built, firstMails, undone, asideRun>>

Unset == MaxInstant + 2
Instants == 0..MaxInstant
NoRun == [op |-> "idle", at |-> "start", period |-> 0, next |-> 0, version |-> 0, patch |-> FALSE]

ScheduleInit ==
  /\ \E review \in BOOLEAN :
       schedule = [enabled |-> TRUE, nextAt |-> 1, version |-> 1, review |-> review]
  /\ scheduleHolder = None
  /\ instant = 0
  /\ scheduleReq = [t \in Requests |-> NoRun]
  /\ built = [p \in Instants |-> 0]
  /\ firstMails = [p \in Instants |-> 0]
  /\ undone = {}
  /\ asideRun = FALSE

\* The first run instant strictly after now.
NextRunAt == instant + 1
\* Mutant: the instant at hand counts as the next one.
NextRunAtOrNow == instant

Start(t, r) ==
  /\ scheduleReq[t] = NoRun
  /\ scheduleReq' = [scheduleReq EXCEPT ![t] = r]
  /\ asideRun' = (asideRun \/ \E u \in Requests :
                    scheduleReq[u] # NoRun /\ "now" \in {r.op, scheduleReq[u].op})

\* FOR UPDATE SKIP LOCKED on an enabled schedule whose next run has come.
ClaimDue(t) ==
  /\ schedule.enabled /\ schedule.nextAt <= instant
  /\ scheduleHolder = None
  /\ scheduleHolder' = t
  /\ Start(t, [NoRun EXCEPT !.op = "due", !.at = "claimed", !.period = schedule.nextAt,
                            !.next = NextRunAt])
  /\ UNCHANGED <<schedule, instant, built, firstMails, undone>>

\* Off the cycle: the row keeps the next_run_at read here, now when it has none.
RunNow(t) ==
  /\ Start(t, [NoRun EXCEPT !.op = "now", !.at = "claimed",
                 !.next = IF schedule.nextAt = Unset THEN instant ELSE schedule.nextAt])
  /\ UNCHANGED <<schedule, scheduleHolder, instant, built, firstMails, undone>>

\* The pack is built; held for review, delivered, or failed with its run.
Execute(t) ==
  LET r == scheduleReq[t] IN
  /\ r.at = "claimed"
  /\ r.op = "due" => firstMails[r.period] < MaxPeriodRuns /\ built[r.period] < MaxPeriodRuns
  /\ \E end \in (IF schedule.review THEN {"held"} ELSE {"delivered"})
                \cup (IF r.op = "due" THEN {"failed"} ELSE {}) :
       /\ scheduleReq' = [scheduleReq EXCEPT ![t].at = end]
       /\ firstMails' = IF r.op = "due" /\ end = "delivered"
                          THEN [firstMails EXCEPT ![r.period] = @ + 1] ELSE firstMails
  /\ UNCHANGED <<schedule, scheduleHolder, instant, built, undone, asideRun>>

Advance(t) ==
  LET r == scheduleReq[t] IN
  /\ r.at \in {"held", "delivered", "failed"}
  /\ scheduleHolder \in {None, t}
  /\ scheduleHolder' = None
  /\ schedule' = [schedule EXCEPT !.nextAt = r.next]
  /\ built' = IF r.op # "due" THEN built
              ELSE [built EXCEPT ![r.period] = @ + 1]
  /\ scheduleReq' = [scheduleReq EXCEPT ![t] = NoRun]
  /\ UNCHANGED <<instant, firstMails, undone, asideRun>>

\* An edit computes the next run from now, versioned; disabled has none.
ReadSchedule(t) ==
  /\ schedule.version <= MaxSchedulePatches
  /\ \E enabled \in BOOLEAN :
       Start(t, [NoRun EXCEPT !.op = "patch", !.at = "read", !.version = schedule.version,
                              !.patch = enabled])
  /\ UNCHANGED <<schedule, scheduleHolder, instant, built, firstMails, undone>>

PatchSchedule(t) ==
  LET r == scheduleReq[t] IN
  /\ r.op = "patch"
  /\ scheduleHolder = None
  /\ r.version = schedule.version
  /\ schedule' = [schedule EXCEPT !.enabled = r.patch, !.version = @ + 1,
                    !.nextAt = IF r.patch THEN NextRunAt ELSE Unset]
  /\ scheduleReq' = [scheduleReq EXCEPT ![t] = NoRun]
  /\ UNCHANGED <<scheduleHolder, instant, built, firstMails, undone, asideRun>>

\* A failed statement takes the whole batch of the account back, not its mail.
AbortSchedule(t) ==
  LET r == scheduleReq[t] IN
  /\ r # NoRun
  /\ undone' = IF r.op = "due" /\ r.at = "delivered" THEN undone \cup {r.period} ELSE undone
  /\ scheduleHolder' = IF scheduleHolder = t THEN None ELSE scheduleHolder
  /\ scheduleReq' = [scheduleReq EXCEPT ![t] = NoRun]
  /\ UNCHANGED <<schedule, instant, built, firstMails, asideRun>>

NextInstant ==
  /\ instant < MaxInstant
  /\ instant' = instant + 1
  /\ UNCHANGED <<schedule, scheduleHolder, scheduleReq, built, firstMails, undone, asideRun>>

ScheduleNext ==
  \/ \E t \in Requests :
       \/ ClaimDue(t) \/ RunNow(t) \/ Execute(t) \/ Advance(t)
       \/ ReadSchedule(t) \/ PatchSchedule(t) \/ AbortSchedule(t)
  \/ NextInstant

\* What the proofs about the schedule assume.
ScheduleConstants == None \notin Requests /\ MaxInstant \in Nat

ScheduleSpec == ScheduleInit /\ [][ScheduleNext]_scheduleVars

-----------------------------------------------------------------------------
ScheduleTypeOK ==
  /\ schedule \in [enabled : BOOLEAN, nextAt : Instants \cup {MaxInstant + 1, Unset}, version : Nat,
                   review : BOOLEAN]
  /\ scheduleHolder \in Requests \cup {None}
  /\ instant \in Instants
  /\ built \in [Instants -> Nat]

\* An enabled schedule always has a next run, no further than one cadence away:
\* no order of runs and edits leaves it asleep.
EnabledHasNextRun == schedule.enabled => schedule.nextAt <= instant + 1

\* The job builds a period's pack once, and its recipients hear of it once unless
\* the run rolled back after it was mailed.  A run off the cycle that overlaps the
\* job puts an old next_run_at back, and the period runs again.
PeriodRunsOnce ==
  ~asideRun => \A p \in Instants :
    /\ built[p] <= 1
    /\ p \notin undone => firstMails[p] <= 1

\* Two workers never run the schedule at the same time.
OneRunner == Cardinality({t \in Requests : scheduleReq[t].op = "due"}) <= 1

-----------------------------------------------------------------------------
(* The review                                                              *)

reviewVars == <<run, runHolder, narrative, packHolder, edits, files, reviewReq, packsSent, decided,
                together>>

Held == {"ready_for_review", "awaiting_review"}
NoReview == [op |-> "idle", at |-> "start", by |-> None, versions |-> <<>>, outcome |-> None]

ReviewInit ==
  /\ \E requester \in Reviewers \cup {"system"} :
       run = [status |-> "ready_for_review", requester |-> requester, reviewer |-> None, due |-> FALSE]
  /\ runHolder = None
  /\ narrative = <<[edit |-> 0, rendered |-> TRUE]>>
  /\ packHolder = None
  /\ edits = 0
  /\ files = [deck |-> 0, pdf |-> 0]
  /\ reviewReq = [t \in Requests |-> NoReview]
  /\ packsSent = 0
  /\ decided = FALSE
  /\ together = FALSE

Newest(versions) == versions[Len(versions)]
MarkRendered(versions) == [versions EXCEPT ![Len(versions)].rendered = TRUE]

Step(t, ops, at) == reviewReq[t].op \in ops /\ reviewReq[t].at = at

HeldRun(t) ==
  /\ reviewReq[t] = NoReview
  /\ run.status \in Held
  /\ \E op \in {"edit", "regenerate", "approve", "cancel"}, by \in Reviewers :
       /\ op = "approve" => by # run.requester
       /\ reviewReq' = [reviewReq EXCEPT ![t] = [NoReview EXCEPT !.op = op, !.at = "read",
                                                   !.by = by, !.versions = narrative]]
  /\ together' = (together \/ \E u \in Requests : reviewReq[u] # NoReview)
  /\ UNCHANGED <<run, runHolder, narrative, packHolder, edits, files, packsSent, decided>>

\* One more version after those that were read, written whole.
EditNarrative(t) ==
  /\ Step(t, {"edit"}, "read")
  /\ packHolder = None
  /\ edits < MaxEdits
  /\ edits' = edits + 1
  /\ narrative' = Append(reviewReq[t].versions, [edit |-> edits + 1, rendered |-> FALSE])
  /\ reviewReq' = [reviewReq EXCEPT ![t] = NoReview]
  /\ UNCHANGED <<run, runHolder, packHolder, files, packsSent, decided, together>>

\* The first update of a decision: approved or skipped, with the reviewer.
MarkDecision(t) ==
  /\ Step(t, {"approve", "cancel"}, "read")
  /\ runHolder = None
  /\ runHolder' = t
  /\ reviewReq' = [reviewReq EXCEPT ![t].at = "marked"]
  /\ UNCHANGED <<run, narrative, packHolder, edits, files, packsSent, decided, together>>

\* Mutant: an approval never rebuilds the files.
RerendersOnRequest(t) == Step(t, {"regenerate"}, "read")

Rerenders(t) ==
  \/ Step(t, {"regenerate"}, "read")
  \/ Step(t, {"approve"}, "marked") /\ ~Newest(reviewReq[t].versions).rendered

\* The two renditions are put one after the other, under the run's own keys.
PutDeck(t) ==
  /\ Rerenders(t)
  /\ files' = [files EXCEPT !.deck = Newest(reviewReq[t].versions).edit]
  /\ reviewReq' = [reviewReq EXCEPT ![t].at = "half stored"]
  /\ UNCHANGED <<run, runHolder, narrative, packHolder, edits, packsSent, decided, together>>

PutPdf(t) ==
  /\ reviewReq[t].at = "half stored"
  /\ files' = [files EXCEPT !.pdf = Newest(reviewReq[t].versions).edit]
  /\ reviewReq' = [reviewReq EXCEPT ![t].at = "stored"]
  /\ UNCHANGED <<run, runHolder, narrative, packHolder, edits, packsSent, decided, together>>

StampPack(t) ==
  /\ reviewReq[t].at = "stored"
  /\ packHolder = None
  /\ packHolder' = t
  /\ reviewReq' = [reviewReq EXCEPT ![t].at = "stamped"]
  /\ UNCHANGED <<run, runHolder, narrative, edits, files, packsSent, decided, together>>

Deliver(t) ==
  /\ \/ Step(t, {"approve"}, "stamped")
     \/ Step(t, {"approve"}, "marked") /\ ~Rerenders(t)
  /\ \E outcome \in {"sent", "failed"} :
       reviewReq' = [reviewReq EXCEPT ![t] = [@ EXCEPT !.at = "delivered", !.outcome = outcome]]
  /\ UNCHANGED <<run, runHolder, narrative, packHolder, edits, files, packsSent, decided, together>>

CommitReview(t) ==
  LET r == reviewReq[t] IN
  /\ \/ Step(t, {"approve"}, "delivered")
     \/ Step(t, {"cancel"}, "marked")
     \/ Step(t, {"regenerate"}, "stamped")
  /\ run' = IF r.op = "regenerate" THEN run
            ELSE [run EXCEPT !.status = IF r.op = "cancel" THEN "skipped" ELSE r.outcome,
                             !.reviewer = r.by]
  /\ narrative' = IF packHolder = t THEN MarkRendered(r.versions) ELSE narrative
  /\ packsSent' = packsSent + (IF r.outcome = "sent" THEN 1 ELSE 0)
  /\ decided' = (decided \/ r.op # "regenerate")
  /\ runHolder' = IF runHolder = t THEN None ELSE runHolder
  /\ packHolder' = IF packHolder = t THEN None ELSE packHolder
  /\ reviewReq' = [reviewReq EXCEPT ![t] = NoReview]
  /\ UNCHANGED <<edits, files, together>>

\* The grace period ends; the job takes runs past it that nobody holds.
GraceEnds ==
  /\ ~run.due
  /\ run' = [run EXCEPT !.due = TRUE]
  /\ UNCHANGED <<runHolder, narrative, packHolder, edits, files, reviewReq, packsSent, decided, together>>

ReviewDue == run.due /\ run.status = "ready_for_review" /\ runHolder = None
\* Mutant: the job reads due runs without FOR UPDATE SKIP LOCKED.
ReviewDueUnlocked == run.due /\ run.status = "ready_for_review"

ClaimReview(t) ==
  /\ reviewReq[t] = NoReview
  /\ ReviewDue
  /\ runHolder' = IF runHolder = None THEN t ELSE runHolder
  /\ reviewReq' = [reviewReq EXCEPT ![t] = [NoReview EXCEPT !.op = "expire", !.at = "claimed"]]
  /\ UNCHANGED <<run, narrative, packHolder, edits, files, packsSent, decided, together>>

ExpireReview(t) ==
  /\ Step(t, {"expire"}, "claimed")
  /\ runHolder \in {t, None}
  /\ runHolder' = None
  /\ run' = [run EXCEPT !.status = "awaiting_review"]
  /\ reviewReq' = [reviewReq EXCEPT ![t] = NoReview]
  /\ UNCHANGED <<narrative, packHolder, edits, files, packsSent, decided, together>>

\* A failed statement or render, a crash: files and mail are not taken back.
AbortReview(t) ==
  /\ reviewReq[t] # NoReview
  /\ runHolder' = IF runHolder = t THEN None ELSE runHolder
  /\ packHolder' = IF packHolder = t THEN None ELSE packHolder
  /\ reviewReq' = [reviewReq EXCEPT ![t] = NoReview]
  /\ UNCHANGED <<run, narrative, edits, files, packsSent, decided, together>>

ReviewNext ==
  \/ \E t \in Requests :
       \/ HeldRun(t) \/ EditNarrative(t) \/ MarkDecision(t) \/ PutDeck(t) \/ PutPdf(t)
       \/ StampPack(t) \/ Deliver(t) \/ CommitReview(t) \/ ClaimReview(t) \/ ExpireReview(t) \/ AbortReview(t)
  \/ GraceEnds

\* What the proofs about the review assume.
ReviewConstants == None \notin Requests \cup Reviewers \cup {"sent", "failed"}

ReviewSpec == ReviewInit /\ [][ReviewNext]_reviewVars

-----------------------------------------------------------------------------
ReviewTypeOK ==
  /\ run \in [status : Held \cup {"sent", "failed", "skipped"}, requester : Reviewers \cup {"system"},
              reviewer : Reviewers \cup {None}, due : BOOLEAN]
  /\ {runHolder, packHolder} \subseteq Requests \cup {None}
  /\ narrative # <<>> /\ \A i \in DOMAIN narrative : narrative[i].edit \in 0..edits
  /\ files \in [deck : 0..edits, pdf : 0..edits]
  /\ packsSent \in Nat

\* A run the hold released never falls back into it: an expiry that started
\* before the decision does not undo it.
DecidedIsFinal == decided => run.status \notin Held

\* What is sent was approved by somebody who did not ask for it.
SecondReader ==
  /\ run.status = "sent" => run.reviewer \notin {None, run.requester}
  /\ packsSent > 0 => decided

\* Reviewers who take turns lose no edit, send a run at most once and never one
\* that was cancelled, and both files sent show the newest narrative.
TurnsAreSafe ==
  ~together =>
    /\ \A e \in 1..edits : \E i \in DOMAIN narrative : narrative[i].edit = e
    /\ packsSent = (IF run.status = "sent" THEN 1 ELSE 0)
    /\ run.status = "sent" => {files.deck, files.pdf} = {Newest(narrative).edit}
=============================================================================
