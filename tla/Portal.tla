------------------------------ MODULE Portal ------------------------------
(***************************************************************************)
(* What a client meets beside its tickets: the request forms and the       *)
(* satisfaction surveys of one account.                                    *)
(*                                                                         *)
(* Forms: src/src/modules/portal/forms.module.ts, mapSubmission of         *)
(* src/src/modules/portal/portal.module.ts, the rules of                   *)
(* src/src/domain/portal/form-schema.ts and 0040_ticket_forms.sql.  A      *)
(* field is a choice between options, on which a later one may depend, or  *)
(* a text; where its answer goes is its target.                            *)
(*                                                                         *)
(* Surveys: one per closed ticket and one for the quarter, the prompts and *)
(* reminders mailed, the answers, the expiry.  The close handler runs in   *)
(* the at-least-once outbox, the quarterly job and the reminder tick under *)
(* a lease that can be lost, the answers come from the portal and from the *)
(* mailed link.  Mail leaves inside the transaction and stays sent when it *)
(* rolls back.                                                             *)
(***************************************************************************)
EXTENDS Naturals, Sequences, FiniteSets, Integers

CONSTANTS
  Requests,
  Drafts,           \* definitions that are proposed
  Submissions,      \* answers that clients send
  AllDefinitions,   \* definitions and answers over which the rules are compared
  AllAnswers,       \* with their meaning
  Options,          \* of every choice
  MaxFormVersions, MaxRequestsMade, MaxFormEdits,
  ClosedTickets,    \* what the contact may be asked about, with the quarter
  Quarter,
  RemindAfter,      \* days after sending a survey at which it is repeated
  ExpireAfter,
  Occasions,        \* surveys a contact may come to earn
  MaxDay

VARIABLES
  versions,       \* rows of acct.ticket_form_versions
  form,           \* the row of acct.ticket_forms
  formReq,        \* edits and publications in progress
  formEdits,      \* how many began
  made,           \* tickets that clients made by the form
  served, \* history: versions the form has served
  surveys,    \* acct.csat_surveys: status, day sent, next reminder, expiry
  responses,  \* the surveys with a row in acct.csat_responses
  csatDay,    \* today
  earned,     \* the surveys the contact may come to earn: tickets it closes, the quarter
  csatReq,    \* what each transaction does
  mails,      \* prompts and reminders mailed by the committed transactions, per survey
  capRaced    \* history: two close handlers overlapped

-----------------------------------------------------------------------------
(* Request forms                                                           *)

formVars == <<versions, form, formReq, formEdits, made, served>>

NoCondition == [field |-> "none", equals |-> "none"]
Away == [at |-> "away"]

-----------------------------------------------------------------------------
(* definitionProblems: the part of it that answers depend on *)

Sound(def) ==
  /\ def # <<>>
  /\ \A i, j \in DOMAIN def : i # j => def[i].key # def[j].key /\ def[i].target # def[j].target
  /\ \A i \in DOMAIN def : def[i].when # NoCondition =>
       \E j \in 1 .. i - 1 : /\ def[j].key = def[i].when.field /\ def[j].kind = "choice"
                             /\ def[i].when.equals \in Options

-----------------------------------------------------------------------------
(* validateSubmission, field after field *)

AnswerTo(answers, key) == IF key \in DOMAIN answers THEN answers[key] ELSE "blank"

ConditionHolds(when, visible) == \E v \in visible : v = <<when.field, when.equals>>

\* visible holds the answers of the fields that were asked so far, without
\* those left blank or refused.
AskField(answers, sofar, f) ==
  LET answer == AnswerTo(answers, f.key)
      refused == f.kind = "choice" /\ answer \notin Options
  IN
  IF f.when # NoCondition /\ ~ConditionHolds(f.when, sofar.visible) THEN sofar
  ELSE IF answer = "blank" THEN
    [sofar EXCEPT !.problems = IF f.required THEN @ \cup {<<f.key, "required">>} ELSE @]
  ELSE IF refused THEN [sofar EXCEPT !.problems = @ \cup {<<f.key, "not an option">>}]
  ELSE [sofar EXCEPT !.visible = @ \cup {<<f.key, answer>>}, !.stored = @ \cup {<<f.target, answer>>}]

KeysOf(def) == {def[i].key : i \in DOMAIN def}

ValidateSubmission(def, answers) ==
  LET after[i \in 0 .. Len(def)] ==
        IF i = 0 THEN [problems |-> {}, visible |-> {}, stored |-> {}]
        ELSE AskField(answers, after[i - 1], def[i])
      asked == after[Len(def)]
  IN  [problems |-> asked.problems \cup {<<k, "unknown field">> : k \in DOMAIN answers \ KeysOf(def)},
       stored |-> asked.stored]

-----------------------------------------------------------------------------
(* What a form means, whatever the order it is worked through *)

\* A field is asked when the one it depends on is asked and answered so.
Asked(def, answers) ==
  LET asked[i \in DOMAIN def] ==
        def[i].when # NoCondition =>
          \E j \in 1 .. i - 1 : /\ def[j].key = def[i].when.field /\ asked[j]
                                /\ AnswerTo(answers, def[j].key) = def[i].when.equals
  IN  {i \in DOMAIN def : asked[i]}

Acceptable(def, answers) ==
  /\ DOMAIN answers \subseteq KeysOf(def)
  /\ \A i \in Asked(def, answers) :
       LET answer == AnswerTo(answers, def[i].key)
       IN  IF answer = "blank" THEN ~def[i].required ELSE def[i].kind = "choice" => answer \in Options

Kept(def, answers) ==
  {<<def[i].target, AnswerTo(answers, def[i].key)>> :
     i \in {j \in Asked(def, answers) : AnswerTo(answers, def[j].key) # "blank"}}

-----------------------------------------------------------------------------
(* The form and its versions *)

FormTypeOK ==
  /\ \A i \in DOMAIN versions : versions[i].fields \in Drafts /\ versions[i].published \in BOOLEAN
  /\ Len(versions) <= MaxFormVersions
  /\ form.current \in 0 .. Len(versions) /\ form.offered \in BOOLEAN
  /\ form.version \in 1 .. MaxFormEdits + 2
  /\ \A t \in Requests : formReq[t].at \in {"away", "checked", "published"}
  /\ formEdits \in 0 .. MaxFormEdits /\ Len(made) <= MaxRequestsMade
  /\ served \subseteq DOMAIN versions

FormInit ==
  /\ versions = <<>> /\ form = [current |-> 0, offered |-> TRUE, version |-> 1]
  /\ formReq = [t \in Requests |-> Away] /\ formEdits = 0
  /\ made = <<>> /\ served = {}

\* The unique number refuses a version added beside another one.
AddVersion ==
  /\ Len(versions) < MaxFormVersions
  /\ \E fields \in Drafts :
       /\ Sound(fields)
       /\ versions' = Append(versions, [fields |-> fields, published |-> FALSE])
  /\ UNCHANGED <<form, formReq, formEdits, made, served>>

Starts(t) == formReq[t] = Away /\ formEdits < MaxFormEdits /\ formEdits' = formEdits + 1

CheckEdit(t, i) ==
  /\ Starts(t) /\ ~versions[i].published
  /\ \E fields \in Drafts :
       /\ Sound(fields)
       /\ formReq' = [formReq EXCEPT ![t] = [at |-> "checked", does |-> "edit", row |-> i, fields |-> fields]]
  /\ UNCHANGED <<versions, form, made, served>>

CheckPublish(t, i) ==
  /\ Starts(t) /\ ~versions[i].published /\ Sound(versions[i].fields)
  /\ formReq' = [formReq EXCEPT ![t] =
       [at |-> "checked", does |-> "publish", row |-> i, formVersion |-> form.version]]
  /\ UNCHANGED <<versions, form, made, served>>

Publishing(i) == \E u \in Requests : formReq[u].at = "published" /\ formReq[u].row = i

\* updateDraft, where published_at is null, after whoever holds the row.
EditVersion(t) ==
  LET r == formReq[t]
  IN
  /\ r.at = "checked" /\ r.does = "edit"
  /\ ~Publishing(r.row) /\ ~versions[r.row].published
  /\ versions' = [versions EXCEPT ![r.row].fields = r.fields]
  /\ formReq' = [formReq EXCEPT ![t] = Away]
  /\ UNCHANGED <<form, formEdits, made, served>>

\* publishVersion, where published_at is null; not committed.
PublishVersion(t) ==
  LET r == formReq[t]
  IN
  /\ r.at = "checked" /\ r.does = "publish"
  /\ ~Publishing(r.row) /\ ~versions[r.row].published
  /\ formReq' = [formReq EXCEPT ![t].at = "published"]
  /\ UNCHANGED <<versions, form, formEdits, made, served>>

\* The form's version is the one the request itself read.
ServeVersion(t) ==
  LET r == formReq[t]
  IN
  /\ r.at = "published" /\ r.formVersion = form.version
  /\ versions' = [versions EXCEPT ![r.row].published = TRUE]
  /\ form' = [form EXCEPT !.current = r.row, !.version = @ + 1]
  /\ served' = served \cup {r.row}
  /\ formReq' = [formReq EXCEPT ![t] = Away]
  /\ UNCHANGED <<formEdits, made>>

RefuseForm(t) ==
  /\ formReq[t] # Away
  /\ formReq' = [formReq EXCEPT ![t] = Away]
  /\ UNCHANGED <<versions, form, formEdits, made, served>>

\* client_visible or is_active.
OfferForm ==
  /\ formEdits < MaxFormEdits
  /\ form' = [form EXCEPT !.offered = ~@, !.version = @ + 1]
  /\ formEdits' = formEdits + 1
  /\ UNCHANGED <<versions, formReq, made, served>>

\* The client may have been shown an earlier version, or none: the answers
\* are checked against the one that is served when they come.
SubmitRequest(answers) ==
  LET current == versions[form.current]
      checked == ValidateSubmission(current.fields, answers)
  IN
  /\ form.current # 0 /\ form.offered /\ Len(made) < MaxRequestsMade
  /\ current.published /\ checked.problems = {}
  /\ made' = Append(made, [by |-> form.current, answers |-> answers, stored |-> checked.stored])
  /\ UNCHANGED <<versions, form, formReq, formEdits, served>>

FormNext ==
  \/ AddVersion \/ OfferForm
  \/ \E t \in Requests :
       \/ \E i \in DOMAIN versions : CheckEdit(t, i) \/ CheckPublish(t, i)
       \/ EditVersion(t) \/ PublishVersion(t) \/ ServeVersion(t) \/ RefuseForm(t)
  \/ \E answers \in Submissions : SubmitRequest(answers)

\* Definitions are sequences of fields, and a blank answer is no option.
FormConstants ==
  /\ \A def \in Drafts \cup AllDefinitions : Len(def) \in Nat /\ DOMAIN def = 1 .. Len(def)
  /\ "blank" \notin Options

-----------------------------------------------------------------------------
\* Working through the fields gives what the form means: a required field is
\* not skipped, and an answer is kept exactly when its field is asked, also
\* where a field depends on one that itself is not asked.
SubmissionsFit ==
  versions = <<>> =>
    \A def \in {d \in AllDefinitions : Sound(d)}, answers \in AllAnswers :
      LET checked == ValidateSubmission(def, answers)
      IN  /\ (checked.problems = {}) = Acceptable(def, answers)
          /\ checked.problems = {} => checked.stored = Kept(def, answers)

\* What a ticket keeps stays what the version it names means by its answers,
\* whoever edits that version beside its publication.
TicketFitsItsForm ==
  \A i \in DOMAIN made :
    LET def == versions[made[i].by].fields
    IN  Acceptable(def, made[i].answers) /\ made[i].stored = Kept(def, made[i].answers)

\* A version is published exactly when the form has served it, whichever of
\* two publications came second.
PublishedIsServed ==
  {i \in DOMAIN versions : versions[i].published} = served /\ (form.current # 0 => form.current \in served)

-----------------------------------------------------------------------------
(* Satisfaction surveys                                                    *)

Surveys == ClosedTickets \cup {Quarter}

csatVars == <<surveys, responses, csatDay, earned, csatReq, mails, capRaced>>

Never == MaxDay + 1
NoSurvey == [status |-> "none", sent |-> 0, remindAt |-> Never, expiresAt |-> Never]
NoCsat == [op |-> "idle", at |-> "start", row |-> NoSurvey, ids |-> {}, done |-> {}, mailed |-> {}]

CsatInit ==
  /\ surveys = [s \in Surveys |-> NoSurvey]
  /\ responses = {}
  /\ csatDay = 0
  /\ earned \in Occasions
  /\ csatReq = [t \in Requests |-> NoCsat]
  /\ mails = [s \in Surveys |-> 0]
  /\ capRaced = FALSE

WithMailOf(t) == [s \in Surveys |-> mails[s] + (IF s \in csatReq[t].mailed THEN 1 ELSE 0)]

Open == {"sent", "reminded"}

\* The first reminder of the schedule after a day, Never when it is spent.
\* Mutant: the search for the next reminder includes today's.
NextRemindAtOrNow(s, sent, after) ==
  LET due == {d \in {sent + n : n \in RemindAfter[s]} : d >= after} IN
  IF due = {} THEN Never ELSE CHOOSE d \in due : \A e \in due : d <= e

NextRemindAt(s, sent, after) ==
  LET due == {d \in {sent + n : n \in RemindAfter[s]} : d > after} IN
  IF due = {} THEN Never ELSE CHOOSE d \in due : \A e \in due : d <= e

SurveyedToday == \E s \in Surveys : surveys[s].status \notin {"none", "suppressed"}
                                    /\ surveys[s].sent = csatDay

Survey(s, status) ==
  IF status = "suppressed" THEN [NoSurvey EXCEPT !.status = status, !.sent = csatDay]
  ELSE [status |-> status, sent |-> csatDay, remindAt |-> NextRemindAt(s, csatDay, csatDay),
        expiresAt |-> csatDay + ExpireAfter[s]]

Creating(t) == csatReq[t].op = "create"

\* The close handler looks for the ticket's survey, the reasons to suppress it
\* (cancelled, duplicate, closed too fast) and the contact's cap for the day;
\* the quarterly job only for the period's survey.
DecideSurvey(t) ==
  /\ csatReq[t] = NoCsat
  /\ \E s \in earned, suppressed \in BOOLEAN :
       /\ surveys[s].status = "none"
       /\ s = Quarter => ~suppressed
       /\ s # Quarter /\ SurveyedToday => suppressed
       /\ csatReq' = [csatReq EXCEPT ![t] = [NoCsat EXCEPT !.op = "create", !.at = "decided",
                        !.ids = {s},
                        !.row = Survey(s, IF suppressed THEN "suppressed" ELSE "sent")]]
       /\ capRaced' = (capRaced \/ \E u \in Requests : Creating(u))
  /\ UNCHANGED <<surveys, responses, csatDay, earned, mails>>

\* The unique index refuses a second survey; an uncommitted one makes it wait.
InsertSurvey(t) ==
  /\ Creating(t) /\ csatReq[t].at = "decided"
  /\ \A s \in csatReq[t].ids :
       /\ surveys[s].status = "none"
       /\ \A u \in Requests : Creating(u) /\ csatReq[u].at = "inserted" => s \notin csatReq[u].ids
  /\ csatReq' = [csatReq EXCEPT ![t].at = "inserted"]
  /\ UNCHANGED <<surveys, responses, csatDay, earned, mails, capRaced>>

Prompt(t) ==
  /\ Creating(t) /\ csatReq[t].at = "inserted"
  /\ csatReq[t].row.status = "sent"
  /\ csatReq[t].mailed = {}
  /\ csatReq' = [csatReq EXCEPT ![t].mailed = csatReq[t].ids]
  /\ UNCHANGED <<surveys, responses, csatDay, earned, mails, capRaced>>

\* A prompt that cannot be sent is logged, and the survey counts as sent.
CommitSurvey(t) ==
  /\ Creating(t) /\ csatReq[t].at = "inserted"
  /\ surveys' = [s \in Surveys |-> IF s \in csatReq[t].ids THEN csatReq[t].row ELSE surveys[s]]
  /\ mails' = WithMailOf(t)
  /\ csatReq' = [csatReq EXCEPT ![t] = NoCsat]
  /\ UNCHANGED <<responses, csatDay, earned, capRaced>>

-----------------------------------------------------------------------------
(* Answers.  The survey is read without a lock; the response's foreign key *)
(* locks it against FOR UPDATE, and its unique key against a second one.   *)

Answering(s) == {t \in Requests : csatReq[t].op = "answer" /\ csatReq[t].at = "responding"
                                  /\ s \in csatReq[t].ids}
Ticking(s) == {t \in Requests : csatReq[t].op = "tick" /\ s \in csatReq[t].ids}

OpenSurvey(t) ==
  /\ csatReq[t] = NoCsat
  /\ \E s \in Surveys :
       /\ surveys[s].status \in Open
       /\ csatDay <= surveys[s].expiresAt
       /\ csatReq' = [csatReq EXCEPT ![t] = [NoCsat EXCEPT !.op = "answer", !.at = "read",
                                               !.ids = {s}]]
  /\ UNCHANGED <<surveys, responses, csatDay, earned, mails, capRaced>>

InsertResponse(t) ==
  /\ csatReq[t].op = "answer" /\ csatReq[t].at = "read"
  /\ \A s \in csatReq[t].ids : s \notin responses /\ Answering(s) = {} /\ Ticking(s) = {}
  /\ csatReq' = [csatReq EXCEPT ![t].at = "responding"]
  /\ UNCHANGED <<surveys, responses, csatDay, earned, mails, capRaced>>

CommitAnswer(t) ==
  /\ csatReq[t].op = "answer" /\ csatReq[t].at = "responding"
  /\ responses' = responses \cup csatReq[t].ids
  /\ surveys' = [s \in Surveys |-> IF s \in csatReq[t].ids THEN [surveys[s] EXCEPT !.status = "answered"]
                                   ELSE surveys[s]]
  /\ csatReq' = [csatReq EXCEPT ![t] = NoCsat]
  /\ UNCHANGED <<csatDay, earned, mails, capRaced>>

-----------------------------------------------------------------------------
(* The reminder tick locks every due survey nobody holds, mails or expires *)
(* them one by one and commits them together.                              *)

\* Mutant: due surveys are read without FOR UPDATE.
DueUnlocked(s) == surveys[s].status \in Open /\ surveys[s].remindAt <= csatDay

Due(s) == /\ surveys[s].status \in Open
          /\ surveys[s].remindAt <= csatDay \/ surveys[s].expiresAt <= csatDay
          /\ Answering(s) = {}
          /\ Ticking(s) = {}

StartTick(t) ==
  /\ csatReq[t] = NoCsat
  /\ \E s \in Surveys : Due(s)
  /\ csatReq' = [csatReq EXCEPT ![t] = [NoCsat EXCEPT !.op = "tick", !.at = "locked",
                   !.ids = {s \in Surveys : Due(s)}, !.row.sent = csatDay]]
  /\ UNCHANGED <<surveys, responses, csatDay, earned, mails, capRaced>>

TickDay(t) == csatReq[t].row.sent
Expires(t, s) == surveys[s].expiresAt <= TickDay(t)

\* An expired survey is only marked; the reminder of another is mailed or lost.
HandleDue(t) ==
  /\ csatReq[t].op = "tick"
  /\ \E s \in csatReq[t].ids \ csatReq[t].done :
       LET handled == [csatReq EXCEPT ![t].done = @ \cup {s}] IN
       \/ csatReq' = handled
       \/ ~Expires(t, s) /\ csatReq' = [handled EXCEPT ![t].mailed = @ \cup {s}]
  /\ UNCHANGED <<surveys, responses, csatDay, earned, mails, capRaced>>

CommitTick(t) ==
  /\ csatReq[t].op = "tick" /\ csatReq[t].done = csatReq[t].ids
  /\ surveys' = [s \in Surveys |->
       IF s \notin csatReq[t].ids THEN surveys[s]
       ELSE IF Expires(t, s) THEN [surveys[s] EXCEPT !.status = "expired"]
       ELSE [surveys[s] EXCEPT !.status = "reminded",
                               !.remindAt = NextRemindAt(s, surveys[s].sent, TickDay(t))]]
  /\ mails' = WithMailOf(t)
  /\ csatReq' = [csatReq EXCEPT ![t] = NoCsat]
  /\ UNCHANGED <<responses, csatDay, earned, capRaced>>

NextDay ==
  /\ csatDay < MaxDay
  /\ csatDay' = csatDay + 1
  /\ UNCHANGED <<surveys, responses, earned, csatReq, mails, capRaced>>

\* A duplicate key, a failed statement, a crash: the mail is not taken back.
AbortCsat(t) ==
  /\ csatReq[t] # NoCsat
  /\ csatReq' = [csatReq EXCEPT ![t] = NoCsat]
  /\ UNCHANGED <<surveys, responses, csatDay, earned, mails, capRaced>>

CsatNext ==
  \/ \E t \in Requests :
       \/ DecideSurvey(t) \/ InsertSurvey(t) \/ Prompt(t) \/ CommitSurvey(t)
       \/ OpenSurvey(t) \/ InsertResponse(t) \/ CommitAnswer(t)
       \/ StartTick(t) \/ HandleDue(t) \/ CommitTick(t) \/ AbortCsat(t)
  \/ NextDay

\* The quarter is no ticket, and a survey is repeated finitely often.
CsatConstants ==
  /\ Quarter \notin ClosedTickets
  /\ MaxDay \in Nat
  /\ \A s \in Surveys : ExpireAfter[s] \in Nat /\ IsFiniteSet(RemindAfter[s])
                        /\ \A n \in RemindAfter[s] : n \in Nat
  /\ \A earnable \in Occasions : earnable \subseteq Surveys

CsatSpec == CsatInit /\ [][CsatNext]_csatVars

-----------------------------------------------------------------------------
CsatTypeOK ==
  /\ \A s \in Surveys : surveys[s].status \in Open \cup {"none", "answered", "expired", "suppressed"}
  /\ responses \subseteq Surveys
  /\ csatDay \in 0..MaxDay
  /\ mails \in [Surveys -> Nat]
  /\ capRaced \in BOOLEAN

\* A survey is answered exactly when it has its response: a reminder or an
\* expiry that started before the answer never puts its status back.
AnsweredHasResponse == \A s \in Surveys : surveys[s].status = "answered" <=> s \in responses

\* Nobody who has answered is reminded.
RemindsOnlyTheOpen ==
  \A t \in Requests : csatReq[t].op = "tick" => csatReq[t].ids \cap responses = {}

\* A contact is mailed the prompt and the scheduled reminders, and more only by
\* transactions that rolled back after their mail left.
MailsAreBounded ==
  \A s \in Surveys : mails[s] <= 1 + Cardinality(RemindAfter[s])

\* One ticket survey a day, unless two close handlers looked at the same time.
DailyCapHolds ==
  ~capRaced => \A s, u \in {k \in ClosedTickets : surveys[k].status \notin {"none", "suppressed"}} :
                 surveys[s].sent = surveys[u].sent => s = u
=============================================================================
