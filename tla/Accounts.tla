------------------------------ MODULE Accounts ------------------------------
(***************************************************************************)
(* One account: its two-step creation, its status and owner, and who is    *)
(* granted it.  AccountsService                                            *)
(* (src/src/modules/admin/accounts/accounts.service.ts) and the grant      *)
(* operations of UsersService (src/src/modules/admin/users).               *)
(*                                                                         *)
(* A request reads in its transaction and then writes: the account's       *)
(* writes compare versions, those of the grants do not.                    *)
(***************************************************************************)
EXTENDS Integers, FiniteSets, Sequences

CONSTANTS
  None, Requests, People,
  MaxAccountVersion, MaxGrantChanges \* bounds: writes of the account; changes of the grants

VARIABLES
  acct,        \* the row of op.accounts, or None
  acctSettings,\* acct.account_settings has its row
  granted,     \* op.account_grants of the account
  activePeople,\* the people whose user is active
  tasks,       \* the requests
  ownerTrail,  \* audit events of owner and status: <<field, old, new>>
  grantChanges,\* number of changes of grants and people
  asked,       \* the grantees the last replacement asked for
  mingled,     \* history: two replacements overlapped
  ceased,      \* history: people who lost the account or their user after they became its owner
  cutOff       \* history: the creating process stopped between its transactions

accountsVars == <<acct, acctSettings, granted, activePeople, tasks, ownerTrail, grantChanges, asked, mingled, ceased, cutOff>>

AccountStatuses == {"onboarding", "active", "suspended", "offboarding", "offboarded"}
NoTask == [op |-> None, by |-> None, to |-> None, people |-> {}, version |-> None,
           step |-> "idle", sees |-> None, saw |-> {}, able |-> FALSE]

AccountsTypeOK ==
  /\ acct = None \/ (acct.status \in AccountStatuses /\ acct.owner \in People \cup {None} /\ acct.version \in 1 .. MaxAccountVersion)
  /\ granted \subseteq People /\ activePeople \subseteq People
  /\ \A r \in Requests : tasks[r].step \in {"idle", "settings", "read"}

AccountsInit ==
  /\ acct = None /\ acctSettings = FALSE /\ granted = {} /\ activePeople = People
  /\ tasks = [r \in Requests |-> NoTask] /\ ownerTrail = <<>>
  /\ grantChanges = 0 /\ asked = {} /\ mingled = FALSE /\ ceased = {} /\ cutOff = FALSE

Reachable == [onboarding |-> {"active", "offboarding"}, active |-> {"suspended", "offboarding"},
              suspended |-> {"active", "offboarding"}, offboarding |-> {"offboarded"}, offboarded |-> {}]

\* create: the account commits first, its settings in a second transaction.
CreateAccount(r) ==
  /\ acct = None /\ tasks[r] = NoTask
  /\ acct' = [status |-> "onboarding", owner |-> None, version |-> 1]
  /\ tasks' = [tasks EXCEPT ![r] = [NoTask EXCEPT !.op = "create", !.step = "settings"]]
  /\ UNCHANGED <<acctSettings, granted, activePeople, ownerTrail, grantChanges, asked, mingled, ceased, cutOff>>

CreateSettings(r) ==
  /\ tasks[r].step = "settings"
  /\ \/ acctSettings' = TRUE /\ UNCHANGED cutOff
     \/ cutOff' = TRUE /\ UNCHANGED acctSettings
  /\ tasks' = [tasks EXCEPT ![r] = NoTask]
  /\ UNCHANGED <<acct, granted, activePeople, ownerTrail, grantChanges, asked, mingled, ceased>>

\* ownerCandidate: an active internal user who can see the account.
MayOwn(p) == p \in activePeople /\ p \in granted

Refused(x) ==
  \/ x.op = "owner" /\ (~MayOwn(x.to) \/ (acct.owner = x.to /\ acct.version # x.version))
  \/ x.op = "transition" /\ (x.to \notin Reachable[acct.status] \/ (acct.owner = None /\ ~MayOwn(x.by)))

\* A handover to the owner in place answers without a write.
NoChange(x) == x.op = "owner" /\ acct.owner = x.to

\* Who would become the owner.
Candidate(x) == CASE x.op = "owner" -> x.to
                  [] x.op = "transition" /\ acct.owner = None -> x.by
                  [] OTHER -> None

\* A request names the version its caller saw, a status, or a set of people;
\* it keeps what it read of the account or of the grants.
ReadAccount(r, x) ==
  /\ tasks[r] = NoTask /\ acct # None /\ acct.version < MaxAccountVersion
  /\ ~Refused(x) /\ ~NoChange(x)
  /\ tasks' = [tasks EXCEPT ![r] = [x EXCEPT !.step = "read",
                                            !.sees = IF x.op \in {"owner", "transition"} THEN acct ELSE None,
                                            !.saw = IF x.op = "grants" THEN granted ELSE {},
                                            !.able = Candidate(x) # None /\ MayOwn(Candidate(x))]]
  /\ UNCHANGED <<acct, acctSettings, granted, activePeople, ownerTrail, grantChanges, asked, mingled, ceased, cutOff>>

\* updateVersioned: none, when the version is not the expected one.
Matches(expected) == acct.version = expected

Told(field, old, new) == <<field, old, new>>

\* The owner's own route compares the version its caller saw.
ChangeOwner(r) ==
  LET x == tasks[r] IN
  /\ x.step = "read" /\ x.op = "owner"
  /\ IF Matches(x.version)
     THEN /\ acct' = [acct EXCEPT !.owner = x.to, !.version = @ + 1]
          /\ ownerTrail' = Append(ownerTrail, Told("owner", x.sees.owner, x.to))
          /\ ceased' = IF x.able /\ ~MayOwn(x.to) THEN ceased \cup {x.to} ELSE ceased \ {x.to}
     ELSE UNCHANGED <<acct, ownerTrail, ceased>>
  /\ tasks' = [tasks EXCEPT ![r] = NoTask]
  /\ UNCHANGED <<acctSettings, granted, activePeople, grantChanges, asked, mingled, cutOff>>

\* A transition compares the version it read itself, and takes the owner's
\* update and the status' as two of its transaction.
Transition(r) ==
  LET x == tasks[r]  owner == IF x.sees.owner = None THEN x.by ELSE x.sees.owner IN
  /\ x.step = "read" /\ x.op = "transition"
  /\ IF Matches(x.sees.version) /\ acct.version + 2 <= MaxAccountVersion
     THEN /\ acct' = [status |-> x.to, owner |-> owner, version |-> acct.version + (IF x.sees.owner = None THEN 2 ELSE 1)]
          /\ ownerTrail' = (IF x.sees.owner = None THEN Append(ownerTrail, Told("owner", None, owner)) ELSE ownerTrail)
                             \o <<Told("status", x.sees.status, x.to)>>
          /\ ceased' = IF x.able /\ ~MayOwn(owner) THEN ceased \cup {owner} ELSE ceased
     ELSE UNCHANGED <<acct, ownerTrail, ceased>>
  /\ tasks' = [tasks EXCEPT ![r] = NoTask]
  /\ UNCHANGED <<acctSettings, granted, activePeople, grantChanges, asked, mingled, cutOff>>

\* The general update of the editable fields.
UpdateAccount(r) ==
  LET x == tasks[r] IN
  /\ x.step = "read" /\ x.op = "update"
  /\ acct' = IF Matches(x.version) THEN [acct EXCEPT !.version = @ + 1] ELSE acct
  /\ tasks' = [tasks EXCEPT ![r] = NoTask]
  /\ UNCHANGED <<acctSettings, granted, activePeople, ownerTrail, grantChanges, asked, mingled, ceased, cutOff>>

\* Who, owning the account, no longer could.
Ceasing(people) == IF acct.owner \in people THEN ceased \cup {acct.owner} ELSE ceased

\* replaceGrantees: the difference to what was read is deleted and inserted,
\* and the unique index refuses a grant somebody else inserted meanwhile.
ReplaceGrantees(r) ==
  LET x == tasks[r]  added == x.people \ x.saw  gone == x.saw \ x.people IN
  /\ x.step = "read" /\ x.op = "grants" /\ grantChanges < MaxGrantChanges
  /\ IF added \cap granted # {}
     THEN UNCHANGED <<granted, grantChanges, asked, mingled, ceased>>
     ELSE /\ granted' = (granted \ gone) \cup added
          /\ grantChanges' = grantChanges + 1
          /\ asked' = x.people
          /\ mingled' = (mingled \/ x.saw # granted)
          /\ ceased' = Ceasing(gone)
  /\ tasks' = [tasks EXCEPT ![r] = NoTask]
  /\ UNCHANGED <<acct, acctSettings, activePeople, ownerTrail, cutOff>>

\* A user is deactivated, or active again; nothing of it reaches the account.
Deactivate(p) ==
  /\ p \in activePeople /\ grantChanges < MaxGrantChanges
  /\ activePeople' = activePeople \ {p} /\ grantChanges' = grantChanges + 1
  /\ ceased' = IF acct = None THEN ceased ELSE Ceasing({p})
  /\ UNCHANGED <<acct, acctSettings, granted, tasks, ownerTrail, asked, mingled, cutOff>>

\* What a caller may ask; a version is one the row has had.
Versions(current) == {v \in {current - 1, current} : v > 0}
Asks ==
  UNION {{[NoTask EXCEPT !.op = "owner", !.to = p, !.version = v] : p \in People, v \in Versions(acct.version)},
         {[NoTask EXCEPT !.op = "transition", !.by = p, !.to = s] : p \in People, s \in Reachable[acct.status]},
         {[NoTask EXCEPT !.op = "grants", !.people = s] : s \in SUBSET People},
         {[NoTask EXCEPT !.op = "update", !.version = v] : v \in Versions(acct.version)}}

AccountsNext ==
  \/ \E r \in Requests :
       \/ CreateAccount(r) \/ CreateSettings(r)
       \/ ChangeOwner(r) \/ Transition(r) \/ UpdateAccount(r) \/ ReplaceGrantees(r)
       \/ acct # None /\ \E x \in Asks : ReadAccount(r, x)
  \/ \E p \in People : Deactivate(p)

\* Past onboarding an account has an owner: the constraint of migration 0050
\* never has to refuse a transition.
LiveHasOwner == acct # None /\ acct.status # "onboarding" => acct.owner # None

\* The owner is an active user who is granted the account, unless that ended
\* after the handover's check: nothing hands the account on.
OwnerHoldsAccount == acct # None /\ acct.owner # None => MayOwn(acct.owner) \/ acct.owner \in ceased

\* Each audit event takes up the value the one before it on the field told,
\* and the last one tells the row's.
TrailChains ==
  LET Of(field) == SelectSeq(ownerTrail, LAMBDA e : e[1] = field)
      Chained(events, first, last) ==
        /\ \A i \in 1 .. Len(events) : events[i][2] = (IF i = 1 THEN first ELSE events[i - 1][3])
        /\ last = (IF events = <<>> THEN first ELSE events[Len(events)][3])
  IN acct # None => Chained(Of("owner"), None, acct.owner) /\ Chained(Of("status"), "onboarding", acct.status)

\* The grantees are those the last replacement asked for, unless two of them
\* overlapped.
GrantsAsAsked == granted = asked \/ mingled

\* An account lacks its settings only while it is created, or for good when
\* the creating process stopped half-way.
SettingsFollow ==
  acct # None /\ ~acctSettings => cutOff \/ \E r \in Requests : tasks[r].step = "settings"
=============================================================================
