---------------------------- MODULE AiAssistance ----------------------------
(***************************************************************************)
(* Suggestions of the assistant for one ticket: asked for while the        *)
(* account's switch is on, offered, decided by a person or expired by the  *)
(* job, and all expired when the switch is turned off.                     *)
(*                                                                         *)
(* The harness is called between two transactions.  A decision reads the   *)
(* suggestion and its decisions without a lock and applies the proposal to *)
(* the ticket first; the two unique indexes of ai_suggestion_decisions,    *)
(* one for a final decision and one for an expiry, decide who was first.   *)
(*                                                                         *)
(* One request to the assistant, from the pre-flight to the row or the     *)
(* frames it ends in: suggest, propose and intake of                       *)
(* src/src/modules/ai/suggestion.service.ts and the turn of the panel of   *)
(* axel.service.ts, while an administrator may change the settings.        *)
(*                                                                         *)
(* A text is modelled by what in it must not leave: a secret that can be   *)
(* masked, a private key that makes it refused, the requester's name.  An  *)
(* answer is modelled by its last structured block.  Confidences and       *)
(* thresholds are ranks.                                                   *)
(***************************************************************************)
EXTENDS Naturals, Sequences

CONSTANTS
  Requests, None, Proposals, MaxSwitches, MaxTicketVersion,
  MaxFrames          \* bound: frames of one answer

VARIABLES
  aiSwitch,     \* acct.ai_settings.enabled
  switchHolder, \* the transaction that turns it off and is not committed, or None
  switches,     \* how often it was turned
  offered,      \* committed acct.ai_suggestions that were offered
  elapsed,      \* those past their expires_at
  finalOf,      \* the committed final decision of each, or None
  expiries,     \* those with a committed 'expired' decision
  decisionHolder, \* the transactions with an uncommitted final decision and expiry of each
  intake,       \* the ticket: version, and whether somebody is assigned
  intakeHolder, \* the transaction that patched it, or None
  applied,      \* how often each was applied to the ticket
  aiReq,        \* what each transaction does and has read
  slipped,      \* history: suggestions that were inserted while the switch was turned off
  crossed,      \* history: suggestions decided and expired by overlapping transactions
  overrode,     \* history: a proposal was applied to an assigned ticket
  settings, \* ai defaults and acct.ai_settings: kill switch, switch, region, profile, capability, threshold
  ask,      \* the request: kind, capabilities to do, texts, how far it is
  seen,     \* the settings of its pre-flight
  sent,     \* what left for the harness, by part of the message
  heard,    \* the harness stream so far
  drafts,   \* rows of acct.ai_suggestions not committed yet
  kept,     \* committed rows
  notices,  \* security events: reasons of withheld rows, failures, withheld turns
  wire,     \* frames relayed to the browser
  says      \* what an intake reports of each capability

-----------------------------------------------------------------------------
(* Suggestions                                                             *)

aiVars == <<aiSwitch, switchHolder, switches, offered, elapsed, finalOf, expiries, decisionHolder,
            intake, intakeHolder, applied, aiReq, slipped, crossed, overrode>>

Quiet == [at |-> "idle", props |-> {}, verdict |-> None, saw |-> 0]

SuggestionsInit ==
  /\ aiSwitch = TRUE /\ switchHolder = None /\ switches = 0
  /\ offered = {} /\ elapsed = {}
  /\ finalOf = [p \in Proposals |-> None]
  /\ expiries = {}
  /\ decisionHolder = [p \in Proposals |-> [final |-> None, expiry |-> None]]
  /\ intake = [version |-> 1, assigned |-> FALSE] /\ intakeHolder = None
  /\ applied = [p \in Proposals |-> 0]
  /\ aiReq = [t \in Requests |-> Quiet]
  /\ slipped = {} /\ crossed = {} /\ overrode = FALSE

Undecided(p) == finalOf[p] = None /\ p \notin expiries
Doing(p, places) == \E u \in Requests : aiReq[u].at \in places /\ p \in aiReq[u].props

\* The pre-flight; the proposal comes back after its transaction.
Suggest(t) ==
  /\ aiReq[t] = Quiet
  /\ aiSwitch
  /\ \E p \in Proposals \ offered :
       /\ ~\E u \in Requests : p \in aiReq[u].props
       /\ aiReq' = [aiReq EXCEPT ![t] = [Quiet EXCEPT !.at = "asking", !.props = {p}]]
  /\ UNCHANGED <<aiSwitch, switchHolder, switches, offered, elapsed, finalOf, expiries,
                 decisionHolder, intake, intakeHolder, applied, slipped, crossed, overrode>>

\* The insert policy reads the switch again.
InsertSuggestion(t) ==
  /\ aiReq[t].at = "asking"
  /\ aiSwitch
  /\ aiReq' = [aiReq EXCEPT ![t].at = "offering"]
  /\ UNCHANGED <<aiSwitch, switchHolder, switches, offered, elapsed, finalOf, expiries,
                 decisionHolder, intake, intakeHolder, applied, slipped, crossed, overrode>>

CommitOffer(t) ==
  /\ aiReq[t].at = "offering"
  /\ offered' = offered \cup aiReq[t].props
  /\ slipped' = IF aiSwitch /\ switchHolder = None THEN slipped ELSE slipped \cup aiReq[t].props
  /\ aiReq' = [aiReq EXCEPT ![t] = Quiet]
  /\ UNCHANGED <<aiSwitch, switchHolder, switches, elapsed, finalOf, expiries, decisionHolder,
                 intake, intakeHolder, applied, crossed, overrode>>

Decide(t) ==
  /\ aiReq[t] = Quiet
  /\ \E p \in offered \ elapsed, verdict \in {"accepted", "rejected"} :
       /\ Undecided(p)
       /\ aiReq' = [aiReq EXCEPT ![t] = [Quiet EXCEPT !.at = "deciding", !.props = {p},
                                                      !.verdict = verdict]]
       /\ crossed' = IF Doing(p, {"expiring", "expired", "switching"}) THEN crossed \cup {p} ELSE crossed
  /\ UNCHANGED <<aiSwitch, switchHolder, switches, offered, elapsed, finalOf, expiries,
                 decisionHolder, intake, intakeHolder, applied, slipped, overrode>>

\* An intake proposal applies before assignment, to the version it has read.
GetTicket(t) ==
  /\ aiReq[t].at = "deciding" /\ aiReq[t].verdict = "accepted"
  /\ ~intake.assigned
  /\ aiReq' = [aiReq EXCEPT ![t].at = "fetched", ![t].saw = intake.version]
  /\ UNCHANGED <<aiSwitch, switchHolder, switches, offered, elapsed, finalOf, expiries,
                 decisionHolder, intake, intakeHolder, applied, slipped, crossed, overrode>>

\* Mutant: the ticket is patched whatever was written to it since it was read.
AnyVersion(t) == TRUE
SameVersion(t) == intake.version = aiReq[t].saw

Apply(t) ==
  /\ aiReq[t].at = "fetched"
  /\ intakeHolder = None
  /\ SameVersion(t)
  /\ intakeHolder' = t
  /\ aiReq' = [aiReq EXCEPT ![t].at = "patched"]
  /\ UNCHANGED <<aiSwitch, switchHolder, switches, offered, elapsed, finalOf, expiries,
                 decisionHolder, intake, applied, slipped, crossed, overrode>>

\* One final decision per suggestion; an uncommitted one is waited for.
InsertDecision(t) ==
  /\ aiReq[t].at = (IF aiReq[t].verdict = "accepted" THEN "patched" ELSE "deciding")
  /\ \E p \in aiReq[t].props :
       /\ finalOf[p] = None /\ decisionHolder[p].final = None
       /\ decisionHolder' = [decisionHolder EXCEPT ![p].final = t]
  /\ aiReq' = [aiReq EXCEPT ![t].at = "decided"]
  /\ UNCHANGED <<aiSwitch, switchHolder, switches, offered, elapsed, finalOf, expiries, intake,
                 intakeHolder, applied, slipped, crossed, overrode>>

Released(t) == [p \in Proposals |-> [k \in {"final", "expiry"} |->
                  IF decisionHolder[p][k] = t THEN None ELSE decisionHolder[p][k]]]

CommitDecision(t) ==
  LET r == aiReq[t] IN
  /\ r.at = "decided"
  /\ r.verdict = "accepted" => intake.version < MaxTicketVersion
  /\ finalOf' = [p \in Proposals |-> IF p \in r.props THEN r.verdict ELSE finalOf[p]]
  /\ IF r.verdict = "accepted"
       THEN /\ applied' = [p \in Proposals |-> applied[p] + (IF p \in r.props THEN 1 ELSE 0)]
            /\ intake' = [intake EXCEPT !.version = @ + 1]
            /\ intakeHolder' = None
            /\ overrode' = (overrode \/ intake.assigned)
       ELSE UNCHANGED <<applied, intake, intakeHolder, overrode>>
  /\ decisionHolder' = Released(t)
  /\ aiReq' = [aiReq EXCEPT ![t] = Quiet]
  /\ UNCHANGED <<aiSwitch, switchHolder, switches, offered, elapsed, expiries, slipped, crossed>>

ExpiredCandidates == {p \in offered \cap elapsed : Undecided(p)}

Expire(t) ==
  /\ aiReq[t] = Quiet
  /\ ExpiredCandidates # {}
  /\ aiReq' = [aiReq EXCEPT ![t] = [Quiet EXCEPT !.at = "expiring", !.props = ExpiredCandidates]]
  /\ crossed' = crossed \cup
       {p \in ExpiredCandidates : Doing(p, {"deciding", "fetched", "patched", "decided"})}
  /\ UNCHANGED <<aiSwitch, switchHolder, switches, offered, elapsed, finalOf, expiries,
                 decisionHolder, intake, intakeHolder, applied, slipped, overrode>>

\* One expiry per suggestion.
MayExpire(props) == \A p \in props : p \notin expiries /\ decisionHolder[p].expiry = None
WithExpiry(t, props) ==
  [p \in Proposals |-> [decisionHolder[p] EXCEPT !.expiry = IF p \in props THEN t ELSE @]]

InsertExpiries(t) ==
  /\ aiReq[t].at = "expiring"
  /\ MayExpire(aiReq[t].props)
  /\ decisionHolder' = WithExpiry(t, aiReq[t].props)
  /\ aiReq' = [aiReq EXCEPT ![t].at = "expired"]
  /\ UNCHANGED <<aiSwitch, switchHolder, switches, offered, elapsed, finalOf, expiries, intake,
                 intakeHolder, applied, slipped, crossed, overrode>>

\* The trigger on the switch expires every open suggestion in the same transaction.
Cascade == {p \in offered : Undecided(p)}

TurnOff(t) ==
  /\ aiReq[t] = Quiet
  /\ aiSwitch /\ switchHolder = None
  /\ MayExpire(Cascade)
  /\ switchHolder' = t
  /\ decisionHolder' = WithExpiry(t, Cascade)
  /\ aiReq' = [aiReq EXCEPT ![t] = [Quiet EXCEPT !.at = "switching", !.props = Cascade]]
  /\ crossed' = crossed \cup {p \in Cascade : Doing(p, {"deciding", "fetched", "patched", "decided"})}
  /\ UNCHANGED <<aiSwitch, switches, offered, elapsed, finalOf, expiries, intake, intakeHolder,
                 applied, slipped, overrode>>

CommitExpiries(t) ==
  /\ aiReq[t].at \in {"expired", "switching"}
  /\ expiries' = expiries \cup aiReq[t].props
  /\ decisionHolder' = Released(t)
  /\ IF aiReq[t].at = "switching"
       THEN aiSwitch' = FALSE /\ switchHolder' = None ELSE UNCHANGED <<aiSwitch, switchHolder>>
  /\ aiReq' = [aiReq EXCEPT ![t] = Quiet]
  /\ UNCHANGED <<switches, offered, elapsed, finalOf, intake, intakeHolder, applied, slipped,
                 crossed, overrode>>

TurnOn ==
  /\ ~aiSwitch /\ switches < MaxSwitches
  /\ aiSwitch' = TRUE
  /\ switches' = switches + 1
  /\ UNCHANGED <<switchHolder, offered, elapsed, finalOf, expiries, decisionHolder, intake,
                 intakeHolder, applied, aiReq, slipped, crossed, overrode>>

Elapse ==
  /\ \E p \in offered \ elapsed : elapsed' = elapsed \cup {p}
  /\ UNCHANGED <<aiSwitch, switchHolder, switches, offered, finalOf, expiries, decisionHolder,
                 intake, intakeHolder, applied, aiReq, slipped, crossed, overrode>>

AssignTicket ==
  /\ intakeHolder = None /\ intake.version < MaxTicketVersion
  /\ intake' = [version |-> intake.version + 1, assigned |-> TRUE]
  /\ UNCHANGED <<aiSwitch, switchHolder, switches, offered, elapsed, finalOf, expiries,
                 decisionHolder, intakeHolder, applied, aiReq, slipped, crossed, overrode>>

\* A refused request, a duplicate decision, a failed statement, a crash.
AbortAi(t) ==
  /\ aiReq[t] # Quiet
  /\ decisionHolder' = Released(t)
  /\ intakeHolder' = IF intakeHolder = t THEN None ELSE intakeHolder
  /\ switchHolder' = IF switchHolder = t THEN None ELSE switchHolder
  /\ aiReq' = [aiReq EXCEPT ![t] = Quiet]
  /\ UNCHANGED <<aiSwitch, switches, offered, elapsed, finalOf, expiries, intake, applied, slipped,
                 crossed, overrode>>

SuggestionsNext ==
  \/ \E t \in Requests :
       \/ Suggest(t) \/ InsertSuggestion(t) \/ CommitOffer(t)
       \/ Decide(t) \/ GetTicket(t) \/ Apply(t) \/ InsertDecision(t) \/ CommitDecision(t)
       \/ Expire(t) \/ InsertExpiries(t) \/ TurnOff(t) \/ CommitExpiries(t) \/ AbortAi(t)
  \/ TurnOn \/ Elapse \/ AssignTicket

SuggestionsSpec == SuggestionsInit /\ [][SuggestionsNext]_aiVars

-----------------------------------------------------------------------------
SuggestionsTypeOK ==
  /\ aiSwitch \in BOOLEAN
  /\ elapsed \subseteq offered /\ expiries \subseteq offered /\ offered \subseteq Proposals
  /\ finalOf \in [Proposals -> {None, "accepted", "rejected"}]
  /\ intake \in [version : 1..MaxTicketVersion, assigned : BOOLEAN]

\* A suggestion changes the ticket once, and exactly when a person accepted it.
AppliedOnce == \A p \in Proposals : applied[p] = (IF finalOf[p] = "accepted" THEN 1 ELSE 0)

\* What a person has assigned is no longer changed by an intake suggestion.
TriageStands == ~overrode

\* A suggestion that expired is not decided as well, unless the decision and the
\* expiry overlapped: the two indexes admit one of each.
LateIsRefused == \A p \in expiries : finalOf[p] = None \/ p \in crossed

\* With the switch off nothing is open, unless it was inserted while the switch was
\* being turned off.
OffLeavesNothingOpen == ~aiSwitch => \A p \in offered : ~Undecided(p) \/ p \in slipped

-----------------------------------------------------------------------------
(* The assistant's turns                                                   *)

turnVars == <<settings, ask, seen, sent, heard, drafts, kept, notices, wire, says>>

Texts == {{}, {"secret", "name"}, {"secret", "key"}}
Settings == [kill : BOOLEAN, enabled : BOOLEAN, served : BOOLEAN, strict : BOOLEAN,
             on : BOOLEAN, threshold : {1, 2}]
Obstacles(s) == {f \in {"kill", "enabled", "served", "on"} : s[f] = (f = "kill")}
Rated == {"classify", "duplicate"}
Silence == [content |-> "none", confidence |-> None, error |-> FALSE, frames |-> 0]

TurnTypeOK ==
  /\ settings \in Settings /\ seen \in Settings \cup {None}
  /\ ask.at \in {"start", "asking", "listening", "heard", "failed", "between", "told", "refused"}
  /\ sent \subseteq {"facts", "said", "similar"} \X {"secret", "name", "key"}
  /\ heard.content \in {"none", "prose", "garbled", "proposal"} /\ heard.frames \in 0 .. MaxFrames
  /\ \A n \in DOMAIN kept : kept[n].status \in {"offered", "withheld"}

Request(kind, todo, facts, said, similar, fresh) ==
  [kind |-> kind, todo |-> todo, facts |-> facts, said |-> said, similar |-> similar,
   fresh |-> fresh, at |-> "start", aborted |-> FALSE, changed |-> FALSE]

TurnInit ==
  /\ settings \in {s \in Settings : s.threshold = 1 /\ \A f, g \in Obstacles(s) : f = g}
  /\ ask \in {Request("suggest", <<c>>, f, s, m, TRUE) : c \in {"classify", "draft_reply"},
                                                        f \in Texts, s \in Texts, m \in {None}}
        \cup {Request("suggest", <<"duplicate">>, {}, {}, m, TRUE) : m \in Texts \cup {None}}
        \cup {Request("panel", <<"draft_reply">>, f, s, None, n) : f \in Texts, s \in Texts, n \in BOOLEAN}
        \cup {Request("intake", t, {}, {}, m, TRUE) : m \in {None, {}},
                t \in {<<"classify", "duplicate">>, <<"duplicate">>, <<>>}}
        \cup {Request("propose", <<c>>, {}, {}, None, TRUE) : c \in {"classify", "draft_reply"}}
  /\ seen = None /\ sent = {} /\ heard = Silence
  /\ drafts = <<>> /\ kept = <<>> /\ notices = <<>> /\ wire = <<>> /\ says = <<>>

Capability == Head(ask.todo)
Bound == ask.kind = "intake"

\* effective: why the switch does not apply, in the order it is asked.
SwitchReason(s) ==
  IF s.kill THEN "kill_switch" ELSE IF ~s.enabled THEN "switch_off"
  ELSE IF ~s.served THEN "residency" ELSE None

WithheldBy(s) ==
  IF SwitchReason(s) = "kill_switch" THEN "capability_off"
  ELSE IF SwitchReason(s) # None THEN SwitchReason(s)
  ELSE IF ~s.on THEN "capability_off" ELSE None

\* redact; names are replaced where the caller passes the people.
Redacted(text, strict, people) == text \ ({"secret"} \cup (IF strict /\ people THEN {"name"} ELSE {}))
Refused(text) == "key" \in text

\* The message of a capability: an instruction goes with a draft, candidates
\* with a search for duplicates, both under the standard profile.
MessageOf(s) ==
  ({"facts"} \X Redacted(ask.facts, s.strict, TRUE))
    \cup (IF Capability = "draft_reply" THEN {"said"} \X Redacted(ask.said, FALSE, FALSE) ELSE {})
    \cup (IF Capability = "duplicate" THEN {"similar"} \X Redacted(ask.similar, FALSE, FALSE) ELSE {})

PanelMessageOf(s) ==
  ({"said"} \X Redacted(ask.said, s.strict, FALSE))
    \cup (IF ask.fresh THEN {"facts"} \X Redacted(ask.facts, s.strict, TRUE) ELSE {})

Row(status, reason) ==
  [status |-> status, reason |-> reason, of |-> Capability, confidence |-> heard.confidence,
   proposal |-> heard.content, enabled |-> settings.enabled]

\* After a capability an intake goes on to the next; its rows wait for its end.
Settled == IF Bound THEN [ask EXCEPT !.todo = Tail(ask.todo), !.at = "between"]
                    ELSE [ask EXCEPT !.at = "told"]

\* The row, its security event in the same transaction, and the caller's answer.
Store(row) ==
  /\ IF Bound THEN drafts' = Append(drafts, row) /\ UNCHANGED <<kept, notices>>
     ELSE /\ kept' = Append(kept, row) /\ UNCHANGED drafts
          /\ notices' = IF row.status = "withheld" THEN Append(notices, row.reason) ELSE notices
  /\ says' = IF Bound THEN Append(says, row.status) ELSE says
  /\ ask' = Settled

Withhold(reason) == Store(Row("withheld", reason))

\* A refused insert rolls a request back; an intake goes on in an aborted transaction.
RefuseInsert ==
  /\ ask' = IF Bound THEN [Settled EXCEPT !.aborted = TRUE] ELSE [ask EXCEPT !.at = "refused"]
  /\ says' = IF Bound THEN Append(says, "error") ELSE says
  /\ UNCHANGED <<drafts, kept, notices>>

\* The insert policy reads the account's switch; confidence counts where given.
Offer(threshold) ==
  IF heard.confidence # None /\ heard.confidence < threshold THEN Withhold("below_threshold")
  ELSE IF settings.enabled THEN Store(Row("offered", None)) ELSE RefuseInsert

Record(threshold) ==
  IF heard.error /\ heard.content = "none" THEN Withhold("unavailable")
  ELSE IF heard.content \in {"none", "prose"} THEN Withhold("no_content")
  ELSE IF heard.content = "garbled" THEN Withhold("schema_error")
  ELSE Offer(threshold)

\* A worker's intake asks nothing of an account whose switch does not apply.
StartIntake ==
  /\ Bound /\ ask.at = "start"
  /\ ask' = [ask EXCEPT !.at = "between", !.todo = IF SwitchReason(settings) # None \/ ~settings.on
                                                   THEN <<>> ELSE ask.todo]
  /\ UNCHANGED <<settings, seen, sent, heard, drafts, kept, notices, wire, says>>

Asking == ask.todo # <<>> /\ ((ask.kind = "suggest" /\ ask.at = "start") \/
                              (Bound /\ ask.at = "between" /\ ~ask.aborted))

PreflightReason ==
  IF WithheldBy(settings) # None THEN WithheldBy(settings)
  ELSE IF Refused(Redacted(ask.facts, settings.strict, TRUE)) THEN "redaction_refused"
  ELSE IF Capability = "duplicate" /\ ask.similar = None THEN "no_content" ELSE None

Prepare ==
  /\ Asking
  /\ seen' = settings /\ heard' = Silence
  /\ IF PreflightReason # None
     THEN /\ IF Bound THEN drafts' = Append(drafts, [Row("withheld", PreflightReason) EXCEPT !.confidence = None])
                           /\ UNCHANGED <<kept, notices>>
             ELSE /\ kept' = Append(kept, Row("withheld", PreflightReason))
                  /\ notices' = Append(notices, PreflightReason) /\ UNCHANGED drafts
          /\ says' = IF Bound THEN Append(says, "withheld") ELSE says
          /\ ask' = Settled /\ UNCHANGED sent
     ELSE /\ sent' = sent \cup MessageOf(settings)
          /\ ask' = [ask EXCEPT !.at = "asking"]
          /\ UNCHANGED <<drafts, kept, notices, says>>
  /\ UNCHANGED <<settings, wire>>

\* In an aborted transaction every statement of a further capability fails.
SkipAborted ==
  /\ Bound /\ ask.at = "between" /\ ask.aborted /\ ask.todo # <<>>
  /\ ask' = Settled /\ says' = Append(says, "error")
  /\ UNCHANGED <<settings, seen, sent, heard, drafts, kept, notices, wire>>

\* All of an intake commits at its end, or nothing when it was aborted.
CommitIntake ==
  /\ Bound /\ ask.at = "between" /\ ask.todo = <<>>
  /\ ask' = [ask EXCEPT !.at = "told"]
  /\ IF ask.aborted THEN UNCHANGED <<kept, notices>>
     ELSE /\ kept' = kept \o drafts
          /\ LET withheld == SelectSeq(drafts, LAMBDA r : r.status = "withheld")
             IN  notices' = notices \o [n \in DOMAIN withheld |-> withheld[n].reason]
  /\ drafts' = <<>>
  /\ UNCHANGED <<settings, seen, sent, heard, wire, says>>

\* A proposal that comes through the tool: no message, no stream.
Propose ==
  /\ ask.kind = "propose" /\ ask.at \in {"start", "heard"}
  /\ \/ /\ ask.at = "start"
        /\ \E c \in {1, 2}, good \in BOOLEAN :
             heard' = [Silence EXCEPT !.content = IF good THEN "proposal" ELSE "garbled",
                                      !.confidence = IF good /\ Capability \in Rated THEN c ELSE None]
        /\ ask' = [ask EXCEPT !.at = "heard"] /\ UNCHANGED <<drafts, kept, notices, says, seen>>
     \/ /\ ask.at = "heard"
        /\ IF WithheldBy(settings) # None THEN Withhold(WithheldBy(settings)) ELSE Record(settings.threshold)
        /\ seen' = settings /\ UNCHANGED heard
  /\ UNCHANGED <<settings, sent, wire>>

\* The panel: a refused pre-flight leaves a security event and two frames.
FailTurn(notice) ==
  /\ notices' = Append(notices, notice)
  /\ wire' = wire \o <<"error", "[DONE]">>
  /\ ask' = [ask EXCEPT !.at = "told"]

PanelReason ==
  IF SwitchReason(settings) # None THEN SwitchReason(settings)
  ELSE IF Refused(Redacted(ask.said, settings.strict, FALSE))
            \/ (ask.fresh /\ Refused(Redacted(ask.facts, settings.strict, TRUE)))
       THEN "redaction_refused" ELSE None

StartTurn ==
  /\ ask.kind = "panel" /\ ask.at = "start"
  /\ seen' = settings
  /\ IF PanelReason # None THEN FailTurn("turn_withheld") /\ UNCHANGED sent
     ELSE /\ sent' = PanelMessageOf(settings)
          /\ ask' = [ask EXCEPT !.at = "asking"] /\ UNCHANGED <<notices, wire>>
  /\ UNCHANGED <<settings, heard, drafts, kept, says>>

OpenStream ==
  /\ ask.at = "asking"
  /\ \E at \in {"listening", "failed"} : ask' = [ask EXCEPT !.at = at]
  /\ UNCHANGED <<settings, seen, sent, heard, drafts, kept, notices, wire, says>>

\* consume and relay: prose, a structured block, an error, a cancellation.
HearFrame(frame) ==
  /\ ask.at = "listening" /\ heard.frames < MaxFrames
  /\ \E c \in {1, 2} :
       heard' = [heard EXCEPT !.frames = @ + 1,
                   !.error = @ \/ frame = "error",
                   !.content = IF frame \in {"proposal", "garbled"} \/ (frame = "prose" /\ @ = "none")
                               THEN frame ELSE @,
                   !.confidence = IF frame = "proposal" /\ Capability \in Rated THEN c
                                  ELSE IF frame = "garbled" THEN None ELSE @]
  /\ wire' = IF ask.kind = "panel" THEN Append(wire, frame) ELSE wire
  /\ UNCHANGED <<settings, ask, seen, sent, drafts, kept, notices, says>>

\* [DONE], or the end of the stream without it.
EndStream ==
  /\ ask.at = "listening" /\ ask' = [ask EXCEPT !.at = "heard"]
  /\ UNCHANGED <<settings, seen, sent, heard, drafts, kept, notices, wire, says>>

\* The connection breaks, the browser goes, a frame cannot be relayed.
BreakStream ==
  /\ ask.at = "listening" /\ ask' = [ask EXCEPT !.at = "failed"]
  /\ UNCHANGED <<settings, seen, sent, heard, drafts, kept, notices, wire, says>>

\* harnessFailure: an event of its own at once, and the withheld row.
HarnessFails ==
  /\ ask.at = "failed" /\ ask.kind # "panel"
  /\ LET row == [Row("withheld", "unavailable") EXCEPT !.confidence = None] IN
     IF Bound THEN drafts' = Append(drafts, row) /\ UNCHANGED kept /\ notices' = Append(notices, "turn_failed")
     ELSE /\ kept' = Append(kept, row) /\ UNCHANGED drafts
          /\ notices' = notices \o <<"turn_failed", "unavailable">>
  /\ says' = IF Bound THEN Append(says, "withheld") ELSE says
  /\ ask' = Settled
  /\ UNCHANGED <<settings, seen, sent, heard, wire>>

TurnFails ==
  /\ ask.at = "failed" /\ ask.kind = "panel"
  /\ FailTurn("turn_failed")
  /\ UNCHANGED <<settings, seen, sent, heard, drafts, kept, says>>

RecordAnswer ==
  /\ ask.at = "heard" /\ ask.kind \in {"suggest", "intake"}
  /\ Record(seen.threshold)
  /\ UNCHANGED <<settings, seen, sent, heard, wire>>

\* The panel records a structured answer of a capability that was on when the
\* turn began, under the threshold of now, and announces it before [DONE].
CompleteTurn ==
  /\ ask.at = "heard" /\ ask.kind = "panel"
  /\ IF heard.content \in {"garbled", "proposal"} /\ seen.on
     THEN /\ Record(settings.threshold)
          /\ wire' = IF ask'.at = "refused" THEN wire ELSE wire \o <<"xms_suggestion", "[DONE]">>
     ELSE /\ wire' = Append(wire, "[DONE]") /\ ask' = [ask EXCEPT !.at = "told"]
          /\ UNCHANGED <<drafts, kept, notices, says>>
  /\ UNCHANGED <<settings, seen, sent, heard>>

\* An administrator turns one setting while the request runs.
ChangeSettings ==
  /\ ask.at \in {"asking", "listening", "heard", "between"} /\ ~ask.changed
  /\ ask' = [ask EXCEPT !.changed = TRUE]
  /\ \/ settings' = [settings EXCEPT !.enabled = FALSE]
     \/ settings' = [settings EXCEPT !.kill = TRUE]
     \/ settings' = [settings EXCEPT !.threshold = 2]
     \/ settings' = [settings EXCEPT !.strict = ~@]
  /\ UNCHANGED <<seen, sent, heard, drafts, kept, notices, wire, says>>

TurnNext ==
  \/ StartIntake \/ Prepare \/ SkipAborted \/ CommitIntake \/ Propose \/ StartTurn
  \/ OpenStream \/ EndStream \/ BreakStream \/ HarnessFails \/ TurnFails
  \/ RecordAnswer \/ CompleteTurn \/ ChangeSettings
  \/ \E f \in {"prose", "garbled", "proposal", "error", "cancelled"} : HearFrame(f)

Told == ask.at = "told"
NoticesOf(reasons) == SelectSeq(notices, LAMBDA n : n \in reasons)
Turned == {"turn_withheld", "turn_failed"}

\* Who asked is answered with the one row there is of it, a withheld one with
\* its security event; a turn of the panel that offers nothing leaves none.
OneRowPerAnswer ==
  /\ Told /\ ask.kind \in {"suggest", "propose"} => Len(kept) = 1
  /\ ask.kind = "panel" => Len(kept) <= 1
  /\ ~Told /\ ask.kind # "panel" => kept = <<>>
  /\ Len(SelectSeq(notices, LAMBDA n : n \notin Turned)) =
       Len(SelectSeq(kept, LAMBDA r : r.status = "withheld"))

\* What an intake reports is what it leaves, unless a refused insert took all
\* of it back.
IntakeTellsTheTruth ==
  ask.kind = "intake" /\ Told =>
    IF ask.aborted THEN kept = <<>> /\ \E n \in DOMAIN says : says[n] = "error"
    ELSE says = [n \in DOMAIN kept |-> kept[n].status]

\* Nothing leaves unmasked, no key leaves with the ticket or from the panel,
\* and under the strict profile the ticket's text does not name the requester.
EgressIsMasked ==
  \A x \in sent :
    /\ x[2] # "secret"
    /\ x[2] = "key" => x[1] # "facts" /\ ask.kind = "suggest"
    /\ x[1] = "facts" /\ x[2] = "name" => ~seen.strict

\* What is offered was a valid proposal, above the threshold of its pre-flight
\* (of now, in the panel), while the account's switch was on.
OffersAreEarned ==
  \A n \in DOMAIN kept :
    LET r == kept[n] IN
    r.status = "offered" =>
      /\ r.proposal = "proposal" /\ r.enabled
      /\ r.confidence = None <=> r.of \notin Rated
      /\ r.confidence # None /\ ask.kind # "intake" => r.confidence >= seen.threshold

\* The frames of a turn end with one [DONE], unless its offer was refused; a
\* suggestion is announced once, and only when it was kept.
WireEndsOnce ==
  ask.kind = "panel" =>
    /\ \A n \in DOMAIN wire : wire[n] = "[DONE]" => n = Len(wire)
    /\ Told <=> wire # <<>> /\ wire[Len(wire)] = "[DONE]"
    /\ Len(SelectSeq(wire, LAMBDA f : f = "xms_suggestion")) = Len(kept)
=============================================================================
