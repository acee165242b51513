------------------------------- MODULE Access -------------------------------
(***************************************************************************)
(* Who a request acts as.  The guard resolves the bearer's token to a user *)
(* and reads what that user may do, one query after another and without a  *)
(* cache, while administrators change it.                                  *)
(* src/src/common/auth (auth.guard.ts, token-verifier.ts,                  *)
(* principal.repository.ts).  One user, with the subjects that present the *)
(* user's email address.                                                   *)
(*                                                                         *)
(* The fixed-window counter that bounds what one caller may ask of one     *)
(* process.  src/src/common/rate-limit.                                    *)
(***************************************************************************)
EXTENDS Integers, FiniteSets, Sequences, SequencesExt

CONSTANTS
  None,
  Requests,     \* requests the guard resolves at once
  Subjects,     \* subjects of the identity provider; each has one session
  SeenLimit,    \* sessions a process remembers beyond one
  MaxSignIns, MaxAccessChanges, \* bounds: requests; changes by administrators, failed writes, restarts
  Callers,      \* callers of the limiter
  PerWindow, WindowTicks, \* calls allowed in a window, and its length
  LastTick, MaxHits       \* bounds: time and calls

VARIABLES
  user,      \* op.users: realm, status, bound subject
  rights,    \* global administrator or not, granted accounts, live accounts
  guarded,   \* the requests
  presented, \* number of requests
  changed,   \* number of changes and faults
  seen,      \* sessions this process has noted, oldest first
  signedIn,  \* auth.signin.success events, by session
  ordered,   \* history: the status administrators last gave the user
  firstBound,\* history: the subject bound first
  excused,   \* history: by session, how often it was forgotten or its note failed
  windows,   \* the limiter's window of each caller, or None
  lastPrune, tick,
  passed,    \* history: the times of each caller's allowed calls
  refusals,  \* history: the times of each caller's refused calls
  hits

signInVars == <<user, rights, guarded, presented, changed, seen, signedIn, ordered, firstBound, excused>>
limiterVars == <<windows, lastPrune, tick, passed, refusals, hits>>

Accts == {"own", "other"}
Outside == [step |-> "out", subject |-> None, type |-> None, sameOrg |-> FALSE, bind |-> FALSE,
            has |-> {}, must |-> {}, may |-> {}, up |-> FALSE, shifted |-> FALSE]

\* What the user may do right now: the accounts the user is bound to, and
\* the administrator's permission.
Bound(u, has) ==
  CASE u.realm = "portal" -> {"own"}
    [] u.realm = "internal" /\ has.admin -> has.live \cup {"admin"}
    [] OTHER -> has.granted \cap has.live

SignInTypeOK ==
  /\ user.status \in {"invited", "active", "deactivated"} /\ user.subject \in Subjects \cup {None}
  /\ rights.granted \subseteq Accts /\ rights.live \subseteq Accts /\ rights.admin \in BOOLEAN
  /\ presented \in 0 .. MaxSignIns /\ changed \in 0 .. MaxAccessChanges
  /\ \A r \in Requests : guarded[r].step \in {"out", "find", "org", "bind", "grants", "roles", "accounts", "note", "in"}
  /\ \A s \in Subjects : signedIn[s] \in Nat /\ excused[s] \in Nat

SignInInit ==
  /\ user \in [realm : {"internal", "portal"}, status : {"invited"}, subject : {None}]
  /\ rights \in [admin : BOOLEAN, granted : {{"own"}}, live : {Accts}]
  /\ guarded = [r \in Requests |-> Outside]
  /\ presented = 0 /\ changed = 0 /\ seen = <<>>
  /\ signedIn = [s \in Subjects |-> 0] /\ excused = [s \in Subjects |-> 0]
  /\ ordered = "invited" /\ firstBound = None

\* Every request in the guard sees a change; they remember what was so at
\* some time since they began, and what was so all the time.
Noticed(u, has) ==
  [r \in Requests |-> IF guarded[r].step \in {"out", "in"} THEN guarded[r]
                      ELSE [guarded[r] EXCEPT !.must = @ \cap Bound(u, has), !.may = @ \cup Bound(u, has),
                                              !.up = @ \/ u.status # "deactivated",
                                              !.shifted = @ \/ has.admin # rights.admin]]

ChangeRights(new) ==
  /\ changed < MaxAccessChanges /\ changed' = changed + 1
  /\ new # rights /\ rights' = new
  /\ guarded' = Noticed(user, new)
  /\ UNCHANGED <<user, presented, seen, signedIn, ordered, firstBound, excused>>

\* UsersService.update with a status.
ChangeStatus(status) ==
  /\ changed < MaxAccessChanges /\ changed' = changed + 1
  /\ user.status # status /\ user' = [user EXCEPT !.status = status]
  /\ ordered' = status
  /\ guarded' = Noticed([user EXCEPT !.status = status], rights)
  /\ UNCHANGED <<rights, presented, seen, signedIn, firstBound, excused>>

Restart ==
  /\ seen # <<>> /\ changed < MaxAccessChanges /\ changed' = changed + 1
  /\ seen' = <<>>
  /\ excused' = [s \in Subjects |-> IF s \in ToSet(seen) THEN excused[s] + 1 ELSE excused[s]]
  /\ UNCHANGED <<user, rights, guarded, presented, signedIn, ordered, firstBound>>

\* Steps of a request that change nothing but the request.
OnlyGuarded == UNCHANGED <<user, rights, presented, changed, seen, signedIn, ordered, firstBound, excused>>
Refuse(r) == guarded' = [guarded EXCEPT ![r] = Outside]
GoOn(r, new) == guarded' = [guarded EXCEPT ![r] = new]

\* A verified token.  An agents' token passes on the routes that take one;
\* the harness' names the user by email and carries no organisation.
Present(r, s, type, sameOrg) ==
  /\ guarded[r] = Outside /\ presented < MaxSignIns
  /\ presented' = presented + 1
  /\ guarded' = [guarded EXCEPT ![r] = [Outside EXCEPT !.step = "find", !.subject = s, !.type = type, !.sameOrg = sameOrg,
                                          !.must = Bound(user, rights), !.may = Bound(user, rights), !.up = user.status # "deactivated"]]
  /\ UNCHANGED <<user, rights, changed, seen, signedIn, ordered, firstBound, excused>>

\* By subject, otherwise by email; a row found by email is to be bound.
FindUser(r) ==
  LET x == guarded[r]  byEmail == x.type = "harness" \/ user.subject # x.subject IN
  /\ x.step = "find"
  /\ IF user.status = "deactivated" THEN Refuse(r)
     ELSE GoOn(r, [x EXCEPT !.step = "org", !.bind = byEmail /\ x.type # "harness"])
  /\ OnlyGuarded

\* The organisation is the user's own: the internal one, or the account's.
CheckOrganisation(r) ==
  LET x == guarded[r] IN
  /\ x.step = "org"
  /\ IF x.type # "harness" /\ ~x.sameOrg THEN Refuse(r)
     ELSE GoOn(r, [x EXCEPT !.step = IF x.bind THEN "bind" ELSE "grants", !.type = None, !.sameOrg = FALSE, !.bind = FALSE])
  /\ OnlyGuarded

\* attachClerkId: nothing when a subject is bound already; an invited user
\* becomes active.
AttachSubject(r) ==
  LET x == guarded[r] IN
  /\ x.step = "bind"
  /\ user' = IF user.subject = None
             THEN [user EXCEPT !.subject = x.subject, !.status = IF @ = "invited" THEN "active" ELSE @]
             ELSE user
  /\ firstBound' = IF firstBound = None THEN user'.subject ELSE firstBound
  /\ GoOn(r, [x EXCEPT !.step = "grants"])
  /\ UNCHANGED <<rights, presented, changed, seen, signedIn, ordered, excused>>

\* resolveAccess: grants, then roles, then, for an administrator, every live
\* account.
ReadGrants(r) ==
  LET x == guarded[r] IN
  /\ x.step = "grants"
  /\ GoOn(r, [x EXCEPT !.step = IF user.realm = "portal" THEN "note" ELSE "roles",
                       !.has = IF user.realm = "portal" THEN {"own"} ELSE rights.granted \cap rights.live])
  /\ OnlyGuarded

ReadRoles(r) ==
  LET x == guarded[r] IN
  /\ x.step = "roles"
  /\ GoOn(r, [x EXCEPT !.step = IF rights.admin THEN "accounts" ELSE "note"])
  /\ OnlyGuarded

ReadAccounts(r) ==
  LET x == guarded[r] IN
  /\ x.step = "accounts"
  /\ GoOn(r, [x EXCEPT !.step = "note", !.has = rights.live \cup {"admin"}])
  /\ OnlyGuarded

\* noteSession: the session is remembered, over the oldest one when there are
\* too many, before its event is written; a failed write fails the request.
Remembering(s) == Append(IF Len(seen) > SeenLimit THEN Tail(seen) ELSE seen, s)
NoteSession(r) ==
  LET x == guarded[r]  s == x.subject IN
  /\ x.step = "note"
  /\ IF s \in ToSet(seen)
     THEN GoOn(r, [x EXCEPT !.step = "in"]) /\ UNCHANGED <<seen, signedIn, excused, changed>>
     ELSE LET forgot == ToSet(seen) \ ToSet(Remembering(s)) IN
          /\ seen' = Remembering(s)
          /\ \/ /\ signedIn' = [signedIn EXCEPT ![s] = @ + 1]
                /\ excused' = [t \in Subjects |-> IF t \in forgot THEN excused[t] + 1 ELSE excused[t]]
                /\ GoOn(r, [x EXCEPT !.step = "in"]) /\ UNCHANGED changed
             \/ /\ changed < MaxAccessChanges /\ changed' = changed + 1
                /\ excused' = [t \in Subjects |-> IF t \in forgot \cup {s} THEN excused[t] + 1 ELSE excused[t]]
                /\ Refuse(r) /\ UNCHANGED signedIn
  /\ UNCHANGED <<user, rights, presented, ordered, firstBound>>

Leave(r) ==
  /\ guarded[r].step = "in"
  /\ Refuse(r) /\ OnlyGuarded

SignInNext ==
  \/ \E r \in Requests :
       \/ \E s \in Subjects, org \in BOOLEAN : Present(r, s, "clerk", org)
       \/ \E s \in Subjects : Present(r, s, "harness", FALSE)
       \/ FindUser(r) \/ CheckOrganisation(r) \/ AttachSubject(r)
       \/ ReadGrants(r) \/ ReadRoles(r) \/ ReadAccounts(r) \/ NoteSession(r) \/ Leave(r)
  \/ /\ user.realm = "internal"
     /\ \/ \E g \in {{}, {"own"}, Accts} : ChangeRights([rights EXCEPT !.granted = g])
        \/ \E l \in {{"own"}, Accts} : ChangeRights([rights EXCEPT !.live = l])
        \/ ChangeRights([rights EXCEPT !.admin = ~@])
  \/ ChangeStatus("active") \/ ChangeStatus("deactivated")
  \/ Restart

\* A request acts with what its user was allowed all the while the guard
\* read, and with nothing the user was not allowed at some time meanwhile,
\* unless the administrator's role came or went between two of its reads.
AccessIsCurrent ==
  \A r \in Requests : guarded[r].step = "in" =>
    (guarded[r].must \subseteq guarded[r].has /\ guarded[r].has \subseteq guarded[r].may) \/ guarded[r].shifted

\* Somebody deactivated stays so until an administrator says otherwise, and
\* no request that began since then gets in.
DeactivatedStaysOut ==
  /\ ordered = "deactivated" => user.status = "deactivated"
  /\ \A r \in Requests : guarded[r].step = "in" => guarded[r].up

\* The first subject of the right organisation is bound to the user for good.
BoundOnce ==
  /\ user.subject = firstBound
  /\ user.status = "active" /\ ordered = "invited" => user.subject # None

\* A session is told of once, and again for each time it was forgotten; a
\* session that is remembered was told of unless that failed.
SignInTold ==
  \A s \in Subjects :
    /\ signedIn[s] <= 1 + excused[s]
    /\ s \in ToSet(seen) => signedIn[s] > 0 \/ excused[s] > 0

-----------------------------------------------------------------------------
Ticks == 0 .. LastTick

LimiterTypeOK ==
  /\ tick \in Ticks /\ lastPrune \in Ticks /\ hits \in 0 .. MaxHits
  /\ \A c \in Callers : windows[c] # None =>
       windows[c].count \in 1 .. MaxHits /\ windows[c].startedAt \in Ticks /\ windows[c].refused \in BOOLEAN

LimiterInit ==
  /\ windows = [c \in Callers |-> None] /\ lastPrune = 0 /\ tick = 0 /\ hits = 0
  /\ passed = [c \in Callers |-> <<>>] /\ refusals = [c \in Callers |-> <<>>]

\* prune: once a window's length, every window that is over.
Over(w) == w = None \/ tick - w.startedAt >= WindowTicks
Pruning == tick - lastPrune >= WindowTicks
Pruned == [c \in Callers |-> IF Pruning /\ Over(windows[c]) THEN None ELSE windows[c]]

\* A call goes on, or is answered 429; the first refusal of a window is told
\* in an event.
Answer(c, w, allowed) ==
  /\ passed' = IF allowed THEN [passed EXCEPT ![c] = Append(@, tick)] ELSE passed
  /\ refusals' = IF allowed THEN refusals ELSE [refusals EXCEPT ![c] = Append(@, [at |-> tick, told |-> ~w.refused])]

\* hit: the caller's window, or a new one, counts the call.
Opened(w) == IF Over(w) THEN [count |-> 0, startedAt |-> tick, refused |-> FALSE] ELSE w
Hit(c) ==
  LET w == Opened(Pruned[c])  counted == [w EXCEPT !.count = @ + 1]
      allowed == counted.count <= PerWindow IN
  /\ hits < MaxHits /\ hits' = hits + 1
  /\ windows' = [Pruned EXCEPT ![c] = [counted EXCEPT !.refused = @ \/ ~allowed]]
  /\ lastPrune' = IF Pruning THEN tick ELSE lastPrune
  /\ Answer(c, w, allowed)
  /\ UNCHANGED tick

PassTick == tick < LastTick /\ tick' = tick + 1 /\ UNCHANGED <<windows, lastPrune, passed, refusals, hits>>

LimiterNext == PassTick \/ \E c \in Callers : Hit(c)

Within(times, from, to) == Cardinality({i \in DOMAIN times : times[i] >= from /\ times[i] < to})

\* No stretch of a window's length lets more than two windows' calls pass,
\* and a window no more than its own.
AllowedIsBounded ==
  \A c \in Callers :
    /\ \A t \in Ticks : Within(passed[c], t, t + WindowTicks) <= 2 * PerWindow
    /\ windows[c] # None => Within(passed[c], windows[c].startedAt, windows[c].startedAt + WindowTicks) <= PerWindow

\* A call is refused only after as many as are allowed passed in the last
\* window's length, and a burst of refusals is told once.
RefusalIsEarned ==
  \A c \in Callers : \A i, j \in DOMAIN refusals[c] :
    /\ Within(passed[c], refusals[c][i].at - WindowTicks + 1, refusals[c][i].at + 1) >= PerWindow
    /\ i < j /\ refusals[c][i].told /\ refusals[c][j].told =>
         \E k \in DOMAIN passed[c] : passed[c][k] > refusals[c][i].at /\ passed[c][k] <= refusals[c][j].at
=============================================================================
