---------------------------- MODULE WebhookAdmin ----------------------------
(***************************************************************************)
(* API clients and the webhook endpoints registered for them, by           *)
(* ApiClientsService, WebhooksService (the client's own routes) and        *)
(* WebhookAdminService (the console's) of                                  *)
(* src/src/modules/integrations/webhooks.module.ts.                        *)
(*                                                                         *)
(* A request passes the guard, reads in its transaction, writes by id      *)
(* without comparing a version, and answers; requests and the worker's     *)
(* automatic pause interleave between those steps.                         *)
(***************************************************************************)
EXTENDS Integers, FiniteSets

CONSTANTS
  None,
  Requests,    \* requests in flight at once
  ClientKeys,  \* API clients
  Endpoints,   \* rows of acct.webhook_subscriptions
  Held,        \* the sets of accounts a key may be created with
  PauseAfter,  \* dead letters in a row after which an endpoint pauses itself
  MaxCalls     \* bound: requests begun

VARIABLES
  keys,     \* op.api_clients: status and granted accounts, or None
  subs,     \* the endpoints' rows, or None
  trail,    \* what the last audit event of an endpoint tells of its status
  calls,    \* the requests
  begun,    \* their number
  posting,  \* the endpoint the worker posts a last attempt to, or None
  told,     \* the signing secret its holder was told last, by endpoint
  removed,  \* history: endpoints a remove committed on
  overtaken,\* history: endpoints whose status was written from a stale reading
  reopened, \* history: endpoints resumed or registered though the key was revoked by then
  muddled   \* history: endpoints two rotations overlapped on, or whose answer was lost

webhookAdminVars == <<keys, subs, trail, calls, begun, posting, told, removed, overtaken, reopened, muddled>>

Free == [op |-> None, via |-> None, sub |-> None, key |-> None, account |-> None,
         step |-> "idle", seen |-> None, bound |-> {}, secret |-> None]
Statuses == {"active", "paused", "deleted"}
Accounts == UNION Held

Reasons == {"owner", "continuous_failure", "client_revoked"}
KeyRow == [status : {"active", "revoked"}, grants : Held]
EndpointRow == [client : ClientKeys, account : Accounts, secret : Nat, status : Statuses,
                reason : Reasons \cup {None}, noted : BOOLEAN, failures : Nat]

ConsoleConstants ==
  /\ None \notin KeyRow /\ None \notin EndpointRow /\ None \notin Reasons
  /\ MaxCalls \in Nat

WebhookAdminTypeOK ==
  /\ begun \in 0 .. MaxCalls /\ posting \in Endpoints \cup {None}
  /\ keys \in [ClientKeys -> KeyRow \cup {None}]
  /\ subs \in [Endpoints -> EndpointRow \cup {None}]
  /\ \A r \in Requests : calls[r].step \in {"idle", "guarded", "read", "reply"}

WebhookAdminInit ==
  /\ keys = [k \in ClientKeys |-> None]
  /\ subs = [s \in Endpoints |-> None] /\ trail = [s \in Endpoints |-> None] /\ told = [s \in Endpoints |-> None]
  /\ calls = [r \in Requests |-> Free] /\ begun = 0 /\ posting = None
  /\ removed = {} /\ overtaken = {} /\ reopened = {} /\ muddled = {}

Live(s) == subs[s] # None /\ subs[s].status # "deleted"
IsActive(k) == keys[k] # None /\ keys[k].status = "active"

\* A key is created with accounts its creator holds; grants never change.
CreateKey(k, accounts) ==
  /\ keys[k] = None
  /\ keys' = [keys EXCEPT ![k] = [status |-> "active", grants |-> accounts]]
  /\ UNCHANGED <<subs, trail, calls, begun, posting, told, removed, overtaken, reopened, muddled>>

Begin(r, call) ==
  /\ calls[r] = Free /\ begun < MaxCalls
  /\ begun' = begun + 1
  /\ calls' = [calls EXCEPT ![r] = IF call.op \in {"create", "rotate"} THEN [call EXCEPT !.secret = begun] ELSE call]
  /\ UNCHANGED <<keys, subs, trail, posting, told, removed, overtaken, reopened, muddled>>

\* The guard resolves an active key with its grants; a session has no key.
BeginRegister(r, via, s, k, account) ==
  /\ subs[s] = None
  /\ via = "client" => IsActive(k) /\ account \in keys[k].grants
  /\ Begin(r, [Free EXCEPT !.op = "create", !.via = via, !.sub = s, !.key = k, !.account = account, !.step = "guarded"])

\* Pause and resume are the console's; an integrator rotates and removes its own.
BeginChange(r, via, op, s) ==
  /\ subs[s] # None
  /\ via = "client" => op \in {"rotate", "remove"} /\ IsActive(subs[s].client)
  /\ Begin(r, [Free EXCEPT !.op = op, !.via = via, !.sub = s, !.step = "guarded"])

\* revoke reads the grants first: they bind the transaction that follows.
BeginRevoke(r, k) ==
  /\ keys[k] # None
  /\ Begin(r, [Free EXCEPT !.op = "revoke", !.key = k, !.bound = keys[k].grants, !.step = "guarded"])

\* clientGranted; an integrator's registration rests on the guard alone.
MayRegister(x) == x.via = "client" \/ (IsActive(x.key) /\ x.account \in keys[x.key].grants)

\* What each operation requires of the row it has read.
Permits(x) ==
  CASE x.op = "create" -> MayRegister(x)
    [] x.op = "revoke" -> keys[x.key].status # "revoked"
    [] x.op = "pause" -> subs[x.sub].status = "active"
    [] x.op = "resume" -> subs[x.sub].status = "paused"
    [] OTHER -> Live(x.sub)

SeenBy(x) == IF x.op \in {"create", "revoke"} THEN None ELSE subs[x.sub].status

ReadRow(r) ==
  /\ calls[r].step = "guarded"
  /\ calls' = [calls EXCEPT ![r] = IF Permits(calls[r])
                                   THEN [calls[r] EXCEPT !.step = "read", !.seen = SeenBy(calls[r])]
                                   ELSE Free]
  /\ UNCHANGED <<keys, subs, trail, begun, posting, told, removed, overtaken, reopened, muddled>>

\* ux_acct_webhook_subscriptions_endpoint: one that is not deleted per key,
\* account and address.
Taken(rows, s, row) == \E t \in Endpoints \ {s} : /\ rows[t] # None /\ rows[t].status # "deleted"
                                                  /\ rows[t].client = row.client /\ rows[t].account = row.account
Clashes(s, row) == row.status # "deleted" /\ Taken(subs, s, row)

Registered(x) ==
  [client |-> x.key, account |-> x.account, secret |-> x.secret, status |-> "active", reason |-> None, noted |-> FALSE, failures |-> 0]

\* setStatus writes status, reason and note together.
SetStatus(row, status, reason, noted) == [row EXCEPT !.status = status, !.reason = reason, !.noted = noted]
ResetFailures(row) == [row EXCEPT !.failures = 0]

\* Endpoints whose last secret is still on its way to the holder.
Untold(r) == {calls[q].sub : q \in {p \in Requests \ {r} : calls[p].step = "reply"}}

\* A registration: a row with a new secret, or endpoint_exists.
Register(r) ==
  LET x == calls[r]  row == Registered(x) IN
  /\ x.step = "read" /\ x.op = "create"
  /\ IF subs[x.sub] # None \/ Clashes(x.sub, row)
     THEN /\ calls' = [calls EXCEPT ![r] = Free]
          /\ UNCHANGED <<subs, trail, reopened>>
     ELSE /\ subs' = [subs EXCEPT ![x.sub] = row]
          /\ trail' = [trail EXCEPT ![x.sub] = "active"]
          /\ reopened' = IF IsActive(x.key) THEN reopened ELSE reopened \cup {x.sub}
          /\ calls' = [calls EXCEPT ![r].step = "reply"]
  /\ UNCHANGED <<keys, begun, posting, told, removed, overtaken, muddled>>

Rotate(r) ==
  LET x == calls[r] IN
  /\ x.step = "read" /\ x.op = "rotate"
  /\ subs' = [subs EXCEPT ![x.sub].secret = x.secret]
  /\ muddled' = IF x.sub \in Untold(r) THEN muddled \cup {x.sub} ELSE muddled
  /\ calls' = [calls EXCEPT ![r].step = "reply"]
  /\ UNCHANGED <<keys, trail, begun, posting, told, removed, overtaken, reopened>>

\* The answer tells the secret once; it can be lost with the connection.
Reply(r) ==
  LET x == calls[r] IN
  /\ x.step = "reply"
  /\ \/ told' = [told EXCEPT ![x.sub] = x.secret] /\ UNCHANGED muddled
     \/ muddled' = muddled \cup {x.sub} /\ UNCHANGED told
  /\ calls' = [calls EXCEPT ![r] = Free]
  /\ UNCHANGED <<keys, subs, trail, begun, posting, removed, overtaken, reopened>>

\* The row each operation on the status writes.
Written(x, row) ==
  CASE x.op = "pause" -> SetStatus(row, "paused", "owner", TRUE)
    [] x.op = "resume" -> ResetFailures(SetStatus(row, "active", None, FALSE))
    [] x.op = "remove" -> SetStatus(row, "deleted", None, FALSE)

ChangeStatus(r) ==
  LET x == calls[r]  row == Written(x, subs[x.sub]) IN
  /\ x.step = "read" /\ x.op \in {"pause", "resume", "remove"}
  /\ calls' = [calls EXCEPT ![r] = Free]
  /\ IF Clashes(x.sub, row)
     THEN UNCHANGED <<subs, trail, removed, overtaken, reopened>>
     ELSE /\ subs' = [subs EXCEPT ![x.sub] = row]
          /\ trail' = [trail EXCEPT ![x.sub] = row.status]
          /\ removed' = IF x.op = "remove" THEN removed \cup {x.sub} ELSE removed
          /\ overtaken' = IF subs[x.sub].status = x.seen THEN overtaken ELSE overtaken \cup {x.sub}
          /\ reopened' = IF x.op = "resume" /\ ~IsActive(row.client) THEN reopened \cup {x.sub} ELSE reopened
  /\ UNCHANGED <<keys, begun, posting, told, muddled>>

\* revokeClient: the rows the bound accounts let the transaction see.
Revoked(k, bound, row) ==
  IF row # None /\ row.client = k /\ row.status = "active" /\ row.account \in bound
  THEN [row EXCEPT !.status = "paused", !.reason = "client_revoked"]
  ELSE row

Revoke(r) ==
  LET x == calls[r] IN
  /\ x.step = "read" /\ x.op = "revoke"
  /\ keys' = [keys EXCEPT ![x.key].status = "revoked"]
  /\ subs' = [s \in Endpoints |-> Revoked(x.key, x.bound, subs[s])]
  /\ calls' = [calls EXCEPT ![r] = Free]
  /\ UNCHANGED <<trail, begun, posting, told, removed, overtaken, reopened, muddled>>

\* The worker takes an event to an active endpoint of an active key.
StartPost(s) ==
  /\ posting = None /\ Live(s) /\ subs[s].status = "active" /\ IsActive(subs[s].client)
  /\ posting' = s
  /\ UNCHANGED <<keys, subs, trail, calls, begun, told, removed, overtaken, reopened, muddled>>

\* recordOutcome of a delivery or of a dead letter, and the automatic pause.
Outcome(row, delivered) ==
  LET counted == [row EXCEPT !.failures = IF delivered THEN 0 ELSE @ + 1] IN
  IF ~delivered /\ counted.failures >= PauseAfter
  THEN SetStatus(counted, "paused", "continuous_failure", FALSE)
  ELSE counted

RecordPost(delivered) ==
  LET s == posting  row == Outcome(subs[s], delivered) IN
  /\ posting # None /\ posting' = None
  /\ IF Clashes(s, row)
     THEN UNCHANGED <<subs, trail, overtaken>>
     ELSE /\ subs' = [subs EXCEPT ![s] = row]
          /\ trail' = IF row.reason = "continuous_failure" /\ ~delivered THEN [trail EXCEPT ![s] = "paused"] ELSE trail
          /\ overtaken' = IF subs[s].status # "active" /\ row.status # subs[s].status THEN overtaken \cup {s} ELSE overtaken
  /\ UNCHANGED <<keys, calls, begun, told, removed, reopened, muddled>>

WebhookAdminNext ==
  \/ \E k \in ClientKeys, h \in Held : CreateKey(k, h)
  \/ \E r \in Requests :
       \/ \E via \in {"client", "console"}, s \in Endpoints :
            \/ \E k \in ClientKeys, account \in Accounts : BeginRegister(r, via, s, k, account)
            \/ \E op \in {"rotate", "pause", "resume", "remove"} : BeginChange(r, via, op, s)
       \/ \E k \in ClientKeys : BeginRevoke(r, k)
       \/ ReadRow(r) \/ Register(r) \/ Rotate(r) \/ Reply(r) \/ ChangeStatus(r) \/ Revoke(r)
  \/ \E s \in Endpoints : StartPost(s)
  \/ \E delivered \in BOOLEAN : RecordPost(delivered)

\* No two endpoints that are not deleted share key, account and address, even
\* when a stale pause or outcome brings a removed one back.
OneLiveEndpoint == \A s \in Endpoints : Live(s) => ~Taken(subs, s, subs[s])

\* A removed endpoint comes back only by a status written from a reading
\* older than the removal.
RemovedStaysRemoved == \A s \in removed : Live(s) => s \in overtaken

\* An endpoint is paused for a reason, with a note exactly when a person
\* paused it, and an endpoint that is not paused keeps neither.
PauseTellsWhy ==
  \A s \in Endpoints : subs[s] # None =>
    /\ (subs[s].status = "paused") = (subs[s].reason # None)
    /\ subs[s].noted = (subs[s].reason = "owner")

\* No endpoint of a revoked key is active, unless it was resumed, or its
\* registration checked the key before and came in after.
RevokedIsQuiet ==
  \A s \in Endpoints : Live(s) /\ subs[s].status = "active" /\ ~IsActive(subs[s].client) => s \in reopened

\* The last audit event of an endpoint tells its status, but for the pause of
\* a revocation, which is told of the key.
TrailTellsStatus ==
  \A s \in Endpoints : subs[s] # None =>
    trail[s] = subs[s].status \/ (trail[s] = "active" /\ subs[s].reason = "client_revoked")

\* The holder was told the secret deliveries are signed with, unless two
\* rotations overlapped, an answer was lost, or it is on its way.
SecretIsTold ==
  \A s \in Endpoints : subs[s] # None =>
    \/ told[s] = subs[s].secret \/ s \in muddled
    \/ \E r \in Requests : calls[r].sub = s /\ calls[r].step = "reply"
=============================================================================
