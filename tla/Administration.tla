--------------------------- MODULE Administration ---------------------------
(***************************************************************************)
(* The last-administrator rule: deactivating a person, replacing a         *)
(* person's roles and changing a role each check that an administrator     *)
(* remains, and each reads without a lock before it writes.                *)
(*                                                                         *)
(* Roles are replaced by a delete and inserts that lock no row of the      *)
(* person: two replacements that delete nothing of each other add up.      *)
(*                                                                         *)
(* One kind of configuration: the versions of its operator default, the    *)
(* overrides of one account, the requests that put them in force and the   *)
(* copy each process keeps of what resolves.                               *)
(* src/src/modules/admin/config/config.service.ts on op.config_defaults    *)
(* and acct.config_overrides.                                              *)
(*                                                                         *)
(* Nothing is locked to decide: a request reads the active row, retires it *)
(* and activates or inserts another, and a unique index on the active row  *)
(* refuses whoever comes second.                                           *)
(***************************************************************************)
EXTENDS Naturals, FiniteSets, Sequences

CONSTANTS
  Requests, None, People, AdminRoles, MaxAdminChanges, Processes,
  MaxVersions,      \* bounds on versions of the default, on overrides and on requests
  MaxOverrides, MaxCommits

VARIABLES
  userStatus,  \* op.users.status
  assigned,    \* op.role_assignments: <<role, "everywhere" or "one account">> per person
  roleState,   \* op.roles: "admin" (active, with admin:users), "plain" (without), "retired" (with)
  adminReq,    \* what each transaction has checked and which roles it deleted
  changes,     \* how many changes were committed
  asked,       \* the roles last replaced for each person, the history of assigned
  overlap,     \* history: two such transactions overlapped
  mixed,       \* history: people whose roles two overlapping transactions replaced
  loophole,     \* history: "scoped" and "unheld" changes that passed their check
  defaults,       \* status of each version of the default
  overrides,      \* status of each override of the account
  confReq,        \* requests in progress
  copy,           \* what each process keeps
  resolving,      \* a resolution that has not yet kept its answer
  inForceBy       \* history: process of every commit

-----------------------------------------------------------------------------
(* Users and roles                                                         *)

adminVars == <<userStatus, assigned, roleState, adminReq, changes, asked, overlap, mixed,
               loophole>>

Assignments == AdminRoles \X {"everywhere", "one account"}
Nothing == [at |-> "idle", kind |-> "none", whom |-> None, new |-> {}, gone |-> {}]

\* administrators(): active people with an active admin role for every account.
Admins == {u \in People : /\ userStatus[u] = "active"
                          /\ \E r \in AdminRoles : /\ <<r, "everywhere">> \in assigned[u]
                                                   /\ roleState[r] = "admin"}

AdministratorsInit ==
  /\ userStatus = [u \in People |-> "active"]
  /\ assigned \in [People -> {{<<r, "everywhere">>} : r \in AdminRoles}]
  /\ roleState = [r \in AdminRoles |-> "admin"]
  /\ adminReq = [t \in Requests |-> Nothing]
  /\ changes = 0 /\ asked = assigned
  /\ overlap = FALSE /\ mixed = {} /\ loophole = {}

Start(t, kind, whom, new) ==
  /\ adminReq[t] = Nothing /\ changes < MaxAdminChanges
  /\ Admins # {}
  /\ adminReq' = [adminReq EXCEPT ![t] = [Nothing EXCEPT !.at = "checked", !.kind = kind,
                                            !.whom = whom, !.new = new]]
  /\ overlap' = (overlap \/ \E u \in Requests : adminReq[u] # Nothing)

\* assertNotLastAdminAfterRemoving
RemainsWithout(u) == Admins \ {u} # {}
\* Mutant: whoever is removed is still counted.
RemainsWith(u) == Admins # {}

CheckDeactivation(t) ==
  \E u \in People :
    /\ userStatus[u] = "active"
    /\ RemainsWithout(u)
    /\ Start(t, "deactivate", u, {})
    /\ UNCHANGED <<userStatus, assigned, roleState, changes, asked, mixed, loophole>>

\* An account-scoped admin role keeps the check quiet and makes no administrator.
KeepsAdmin(new) == \E a \in new : roleState[a[1]] = "admin"

CheckRoles(t) ==
  \E u \in People, new \in {{}} \cup {{a} : a \in Assignments} :
    /\ \A a \in new : roleState[a[1]] # "retired"
    /\ KeepsAdmin(new) \/ RemainsWithout(u)
    /\ Start(t, "assign", u, new)
    /\ loophole' = IF KeepsAdmin(new) /\ (\A a \in new : a[2] # "everywhere")
                     THEN loophole \cup {"scoped"} ELSE loophole
    /\ mixed' = IF \E v \in Requests : adminReq[v].kind = "assign" /\ adminReq[v].whom = u
                  THEN mixed \cup {u} ELSE mixed
    /\ UNCHANGED <<userStatus, assigned, roleState, changes, asked>>

\* Some other role has the permission, held by anybody or not, retired or not.
OtherHolders(r) == {q \in AdminRoles \ {r} : roleState[q] # "plain"}
HeldElsewhere(r) == \E u \in People, q \in AdminRoles \ {r} :
  userStatus[u] = "active" /\ <<q, "everywhere">> \in assigned[u] /\ roleState[q] = "admin"

CheckRole(t) ==
  \E r \in AdminRoles, kind \in {"plain", "retired"} :
    /\ roleState[r] = "admin"
    /\ OtherHolders(r) # {}
    /\ Start(t, kind, r, {})
    /\ loophole' = IF HeldElsewhere(r) THEN loophole ELSE loophole \cup {"unheld"}
    /\ UNCHANGED <<userStatus, assigned, roleState, changes, asked, mixed>>

\* The delete waits for the rows another replacement is deleting, and does not see
\* the ones it is inserting.
DeleteRoles(t) ==
  LET u == adminReq[t].whom IN
  /\ adminReq[t].at = "checked" /\ adminReq[t].kind = "assign"
  /\ \A v \in Requests :
       adminReq[v].at = "deleted" /\ adminReq[v].whom = u => adminReq[v].gone \cap assigned[u] = {}
  /\ adminReq' = [adminReq EXCEPT ![t].at = "deleted", ![t].gone = assigned[u]]
  /\ UNCHANGED <<userStatus, assigned, roleState, changes, asked, overlap, mixed, loophole>>

\* A person or a role is written as it was read (its version says so); a role that
\* is there already cannot be inserted again.
Unchanged(r) == CASE r.kind = "assign" -> r.new \cap (assigned[r.whom] \ r.gone) = {}
                  [] r.kind = "deactivate" -> userStatus[r.whom] = "active"
                  [] OTHER -> roleState[r.whom] = "admin"

CommitAdmin(t) ==
  LET r == adminReq[t] IN
  /\ r.at = (IF r.kind = "assign" THEN "deleted" ELSE "checked")
  /\ Unchanged(r)
  /\ changes < MaxAdminChanges
  /\ changes' = changes + 1
  /\ adminReq' = [adminReq EXCEPT ![t] = Nothing]
  /\ IF r.kind = "deactivate" THEN userStatus' = [userStatus EXCEPT ![r.whom] = "deactivated"]
                              ELSE UNCHANGED userStatus
  /\ IF r.kind = "assign"
       THEN /\ assigned' = [assigned EXCEPT ![r.whom] = (@ \ r.gone) \cup r.new]
            /\ asked' = [asked EXCEPT ![r.whom] = r.new]
       ELSE UNCHANGED <<assigned, asked>>
  /\ IF r.kind \in {"plain", "retired"} THEN roleState' = [roleState EXCEPT ![r.whom] = r.kind]
                                        ELSE UNCHANGED roleState
  /\ UNCHANGED <<overlap, mixed, loophole>>

\* Nothing is checked when a person or a role comes back.
Restore ==
  /\ Admins # {}
  /\ changes < MaxAdminChanges
  /\ changes' = changes + 1
  /\ \/ /\ \E u \in People : userStatus' = [userStatus EXCEPT ![u] = "active"]
        /\ UNCHANGED roleState
     \/ /\ \E r \in AdminRoles : roleState' = [roleState EXCEPT ![r] = "admin"]
        /\ UNCHANGED userStatus
  /\ UNCHANGED <<assigned, adminReq, asked, overlap, mixed, loophole>>

\* A version conflict, a failed statement, a crash.
AbortAdmin(t) ==
  /\ adminReq[t] # Nothing
  /\ adminReq' = [adminReq EXCEPT ![t] = Nothing]
  /\ UNCHANGED <<userStatus, assigned, roleState, changes, asked, overlap, mixed, loophole>>

AdministratorsNext ==
  \/ \E t \in Requests :
       \/ CheckDeactivation(t) \/ CheckRoles(t) \/ CheckRole(t)
       \/ DeleteRoles(t) \/ CommitAdmin(t) \/ AbortAdmin(t)
  \/ Restore

\* There is somebody to administer, and a role that lets them.
AdminConstants == People # {} /\ AdminRoles # {}

AdministratorsSpec == AdministratorsInit /\ [][AdministratorsNext]_adminVars

-----------------------------------------------------------------------------
AdministratorsTypeOK ==
  /\ userStatus \in [People -> {"active", "deactivated"}]
  /\ assigned \in [People -> SUBSET Assignments]
  /\ roleState \in [AdminRoles -> {"admin", "plain", "retired"}]

\* An active administrator remains, unless two changes overlapped, a person was left
\* with an admin role for single accounts, or the role that keeps the permission has
\* no active holder.
AdminRemains == Admins # {} \/ overlap \/ loophole # {}

\* A person has the roles of the last replacement, unless two of them overlapped.
RolesAreAsAsked == \A u \in People : assigned[u] = asked[u] \/ u \in mixed

-----------------------------------------------------------------------------
(* Configuration                                                           *)

confVars == <<defaults, overrides, confReq, copy, resolving, inForceBy>>

Free == [at |-> "free"]
NoCopy == [at |-> "nothing"]

ConfTypeOK ==
  /\ defaults \in Seq({"draft", "active", "retired"}) /\ Len(defaults) \in 1 .. MaxVersions
  /\ overrides \in Seq({"active", "retired"}) /\ Len(overrides) <= MaxOverrides
  /\ \A t \in Requests : confReq[t].at \in {"free", "read", "retired", "written", "committed"}
  /\ \A p \in Processes : copy[p].at \in {"nothing", "kept"} /\ resolving[p].at \in {"nothing", "override"}
  /\ inForceBy \in Seq(Processes)

\* ensureDefaults has inserted version 1.
ConfInit ==
  /\ defaults = <<"active">> /\ overrides = <<>>
  /\ confReq = [t \in Requests |-> Free]
  /\ copy = [p \in Processes |-> NoCopy] /\ resolving = [p \in Processes |-> NoCopy]
  /\ inForceBy = <<>>

Active(rows) == {i \in DOMAIN rows : rows[i] = "active"}
TableOf(kind) == IF kind = "activate" THEN defaults ELSE overrides
Kinds == {"activate", "set", "remove"}

\* Requests in progress on the same table.
Rivals(t) ==
  {confReq[u] : u \in {v \in Requests \ {t} :
     confReq[v].at \in {"read", "retired", "written"}
       /\ (confReq[v].kind = "activate") = (confReq[t].kind = "activate")}}

CreateDraft ==
  /\ Len(defaults) < MaxVersions
  /\ defaults' = Append(defaults, "draft")
  /\ UNCHANGED <<overrides, confReq, copy, resolving, inForceBy>>

Pending == Cardinality({t \in Requests : confReq[t].at \in {"read", "retired", "written"}})

\* activeDefault or activeOverride; a removal that finds nothing is refused.
Begin(t, p, kind, id) ==
  LET rows == TableOf(kind)
  IN
  /\ confReq[t] = Free /\ Len(inForceBy) + Pending < MaxCommits
  /\ kind = "remove" => Active(rows) # {}
  /\ kind = "set" => Len(overrides) < MaxOverrides
  /\ confReq' = [confReq EXCEPT ![t] =
       [at |-> "read", by |-> p, kind |-> kind, id |-> id,
        previous |-> Active(rows) \ {id}, locked |-> {}]]
  /\ UNCHANGED <<defaults, overrides, copy, resolving, inForceBy>>

LockedByRival(t, i) == \E o \in Rivals(t) : i \in o.locked

\* By id, whatever the row has become, once nobody holds it.
RetirePrevious(t) ==
  LET r == confReq[t]
  IN
  /\ r.at = "read"
  /\ \A i \in r.previous : ~LockedByRival(t, i)
  /\ confReq' = [confReq EXCEPT ![t].at = "retired", ![t].locked = r.previous]
  /\ UNCHANGED <<defaults, overrides, copy, resolving, inForceBy>>

\* cache.clear() of the request's own process; a resolution under way there
\* still keeps what it has read.
Cleared(p) == [copy EXCEPT ![p] = NoCopy]
Crossed(p) == IF resolving[p] = NoCopy THEN resolving ELSE [resolving EXCEPT ![p].crossed = TRUE]

\* The unique index counts what is committed and not retired here, and waits
\* for what is not.
Write(t) ==
  LET r == confReq[t]
      puts == r.kind # "remove"
  IN
  /\ r.at = "retired"
  /\ puts => Active(TableOf(r.kind)) \subseteq r.locked \cup {r.id}
               /\ \A o \in Rivals(t) : o.at # "written" \/ o.kind = "remove"
  /\ r.kind = "activate" => ~LockedByRival(t, r.id)
  /\ confReq' = [confReq EXCEPT ![t].at = "written",
                                ![t].locked = IF r.kind = "activate" THEN @ \cup {r.id} ELSE @]
  /\ IF r.kind = "activate" THEN UNCHANGED <<copy, resolving>>
     ELSE copy' = Cleared(r.by) /\ resolving' = Crossed(r.by)
  /\ UNCHANGED <<defaults, overrides, inForceBy>>

Retired(rows, ids) == [i \in DOMAIN rows |-> IF i \in ids THEN "retired" ELSE rows[i]]

Commit(t) ==
  LET r == confReq[t]
  IN
  /\ r.at = "written"
  /\ defaults' = IF r.kind = "activate" THEN [Retired(defaults, r.previous) EXCEPT ![r.id] = "active"] ELSE defaults
  /\ overrides' = CASE r.kind = "set" -> Append(Retired(overrides, r.previous), "active")
                    [] r.kind = "remove" -> Retired(overrides, r.previous)
                    [] OTHER -> overrides
  /\ confReq' = [confReq EXCEPT ![t] =
       IF r.kind = "activate" THEN [at |-> "committed", by |-> r.by] ELSE Free]
  /\ inForceBy' = Append(inForceBy, r.by)
  /\ UNCHANGED <<copy, resolving>>

\* activateVersion clears after its transaction.
ClearAfter(t) ==
  /\ confReq[t].at = "committed"
  /\ copy' = Cleared(confReq[t].by) /\ resolving' = Crossed(confReq[t].by)
  /\ confReq' = [confReq EXCEPT ![t] = Free]
  /\ UNCHANGED <<defaults, overrides, inForceBy>>

(* A unique violation, a deadlock that made it the victim, another failure.*)
Rollback(t) ==
  /\ confReq[t].at \in {"read", "retired", "written"}
  /\ confReq' = [confReq EXCEPT ![t] = Free]
  /\ UNCHANGED <<defaults, overrides, copy, resolving, inForceBy>>

ClearPending(p, states) == \E t \in Requests : confReq[t].at \in states /\ confReq[t].by = p

\* resolve without a usable copy: the override, else the default.
ResolveOverride(p) ==
  /\ copy[p] = NoCopy /\ resolving[p] = NoCopy
  /\ resolving' = [resolving EXCEPT ![p] =
       [at |-> "override", found |-> Active(overrides), after |-> Len(inForceBy),
        crossed |-> \E t \in Requests :
          confReq[t].at = "written" /\ confReq[t].by = p /\ confReq[t].kind # "activate"]]
  /\ UNCHANGED <<defaults, overrides, confReq, copy, inForceBy>>

Resolved == IF Active(overrides) # {} THEN <<"override", Active(overrides)>> ELSE <<"default", Active(defaults)>>

KeepResolved(p) ==
  LET r == resolving[p]
  IN
  /\ r.at = "override"
  /\ copy' = [copy EXCEPT ![p] =
       [at |-> "kept", after |-> r.after, crossed |-> r.crossed,
        value |-> IF r.found # {} THEN <<"override", r.found>> ELSE <<"default", Active(defaults)>>]]
  /\ resolving' = [resolving EXCEPT ![p] = NoCopy]
  /\ UNCHANGED <<defaults, overrides, confReq, inForceBy>>

\* After a minute, here at any time.
ExpireCopy(p) ==
  /\ copy[p] # NoCopy
  /\ copy' = [copy EXCEPT ![p] = NoCopy]
  /\ UNCHANGED <<defaults, overrides, confReq, resolving, inForceBy>>

ConfNext ==
  \/ CreateDraft
  \/ \E t \in Requests :
       \/ \E p \in Processes :
            \/ \E id \in DOMAIN defaults : Begin(t, p, "activate", id)
            \/ \E kind \in {"set", "remove"} : Begin(t, p, kind, 0)
       \/ RetirePrevious(t) \/ Write(t) \/ Commit(t) \/ ClearAfter(t) \/ Rollback(t)
  \/ \E p \in Processes : ResolveOverride(p) \/ KeepResolved(p) \/ ExpireCopy(p)

-----------------------------------------------------------------------------
\* Whatever activations and retirements meet, one version of the default is
\* active, so that every ticket finds a state machine and a matrix, and at most
\* one override.
OneInForce == Cardinality(Active(defaults)) = 1 /\ Cardinality(Active(overrides)) <= 1

\* A process works with what is in force, up to changes made in other processes,
\* a change of its own whose copies are not cleared yet, and resolutions that
\* were under way when they were.
ResolvedIsCurrent ==
  \A p \in Processes :
    copy[p].at = "kept" /\ copy[p].value # Resolved =>
      \/ copy[p].crossed \/ ClearPending(p, {"committed"})
      \/ \E i \in copy[p].after + 1 .. Len(inForceBy) : inForceBy[i] # p
=============================================================================
