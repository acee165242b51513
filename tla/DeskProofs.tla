----------------------------- MODULE DeskProofs -----------------------------
(***************************************************************************)
(* Proofs about the records of the desk, in the terms of Desk: v1, v2,    *)
(* ... are the variables of a part in the order of its INSTANCE.           *)
(***************************************************************************)
EXTENDS Desk, TLAPS, FiniteSetTheorems

-----------------------------------------------------------------------------
(* The administrators (Adm)                                                *)

Kind == {"none", "deactivate", "assign", "plain", "retired"}
AdminRequest == [at : {"idle", "checked", "deleted"}, kind : Kind,
                 whom : People \cup AdminRoles \cup {None},
                 new : SUBSET Adm!Assignments, gone : SUBSET Adm!Assignments]

(* What a request of each kind may name.                                   *)
NamesFit(r) ==
  /\ r.kind = "none" <=> r.at = "idle"
  /\ r.at = "idle" => r = Adm!Nothing
  /\ r.at = "deleted" => r.kind = "assign"
  /\ r.kind \in {"deactivate", "assign"} => r.whom \in People
  /\ r.kind \in {"plain", "retired"} => r.whom \in AdminRoles

AdminShape ==
  /\ Adm!AdministratorsTypeOK
  /\ v6 \in [People -> SUBSET Adm!Assignments]
  /\ v7 \in BOOLEAN
  /\ v4 \in [Requests -> AdminRequest]
  /\ \A t \in Requests : NamesFit(v4[t])

(* An administrator everywhere by a role other than r.                     *)
HolderBeside(u, r) ==
  /\ v1[u] = "active"
  /\ \E q \in AdminRoles \ {r} : <<q, "everywhere">> \in v2[u] /\ v3[q] = "admin"

(* The change under way leaves an administrator.                           *)
LeavesOne(r) ==
  /\ r.kind = "deactivate" => Adm!RemainsWithout(r.whom)
  /\ r.kind = "assign" =>
       \/ Adm!RemainsWithout(r.whom)
       \/ /\ Adm!Admins # {}
          /\ \E q \in AdminRoles : <<q, "everywhere">> \in r.new /\ v3[q] = "admin"
  /\ r.kind \in {"plain", "retired"} => \E u \in People : HolderBeside(u, r.whom)

Alone == \A t, u \in Requests : v4[t] # Adm!Nothing /\ v4[u] # Adm!Nothing => t = u

Guarded ==
  /\ ~v7 => Alone
  /\ ~v7 /\ v9 = {} =>
       Adm!Admins # {} /\ \A t \in Requests : LeavesOne(v4[t])

(* Outside mixed a person has the roles last asked for, and a replacement  *)
(* under way is the only one and deletes all of them.                      *)
Replaced(u) ==
  /\ v2[u] = v6[u]
  /\ \A t \in Requests :
       v4[t].kind = "assign" /\ v4[t].whom = u =>
         /\ v4[t].at = "deleted" => v4[t].gone = v2[u]
         /\ \A v \in Requests : v4[v].kind = "assign" /\ v4[v].whom = u => v = t

ReplacedAlone == \A u \in People : u \in v8 \/ Replaced(u)

AdminInv == AdminShape /\ Guarded /\ ReplacedAlone

AdminSafe == Adm!AdministratorsTypeOK /\ Adm!AdminRemains /\ Adm!RolesAreAsAsked

-----------------------------------------------------------------------------
(* Requests, one at a time                                                 *)

(* No request is a request of no kind, and leaves what there is.           *)
LEMMA NothingFits ==
  /\ Adm!Nothing \in AdminRequest /\ NamesFit(Adm!Nothing) /\ LeavesOne(Adm!Nothing)
BY DEF Adm!Nothing, AdminRequest, NamesFit, LeavesOne, Kind

(* A request is of a kind exactly when it is under way.                    *)
LEMMA KindOfRequest ==
  ASSUME AdminShape, NEW t \in Requests
  PROVE  /\ v4[t] \in AdminRequest
         /\ v4[t].at = "idle" <=> v4[t] = Adm!Nothing
         /\ v4[t].kind = "none" <=> v4[t] = Adm!Nothing
BY DEF AdminShape, NamesFit, Adm!Nothing

(* The rows that say who is an administrator, untouched by a step.         *)
RolesStand == UNCHANGED <<v1, v2, v3, v6>>

(* A step that changes one request, to one that fits, keeps the shape.     *)
LEMMA ShapeByRequest ==
  ASSUME AdminShape, RolesStand, NEW t \in Requests, NEW r \in AdminRequest, NamesFit(r),
         v4' = [v4 EXCEPT ![t] = r], v7' \in BOOLEAN
  PROVE  AdminShape'
<1>1. Adm!AdministratorsTypeOK' /\ (v6 \in [People -> SUBSET Adm!Assignments])'
  BY DEF AdminShape, Adm!AdministratorsTypeOK, RolesStand
<1>2. v4' \in [Requests -> AdminRequest]
  BY DEF AdminShape
<1>3. ASSUME NEW u \in Requests PROVE NamesFit(v4'[u])
  <2>1. CASE u = t
    BY <2>1 DEF AdminShape
  <2>2. CASE u # t
    BY <2>2 DEF AdminShape
  <2> QED BY <2>1, <2>2
<1> QED BY <1>1, <1>2, <1>3 DEF AdminShape, NamesFit

(* A request that comes to rest leaves the other one, if any, alone.       *)
LEMMA AloneAfterRest ==
  ASSUME Alone, AdminShape, NEW t \in Requests, v4' = [v4 EXCEPT ![t] = Adm!Nothing]
  PROVE  Alone'
BY DEF Alone, AdminShape

(* Whoever is an administrator stays one while the rows stand.             *)
LEMMA StandingAdmins ==
  ASSUME RolesStand, NEW r
  PROVE  Adm!Admins' = Adm!Admins /\ (LeavesOne(r)' <=> LeavesOne(r))
<1>1. Adm!Admins' = Adm!Admins
  BY DEF Adm!Admins, RolesStand
<1> QED BY <1>1 DEF LeavesOne, Adm!RemainsWithout, HolderBeside, RolesStand

-----------------------------------------------------------------------------
(* The checks                                                              *)

(* What the three checks have in common.                                   *)
Begins(t, r) ==
  /\ v4[t] = Adm!Nothing /\ Adm!Admins # {}
  /\ v4' = [v4 EXCEPT ![t] = r]
  /\ v7' = (v7 \/ \E u \in Requests : v4[u] # Adm!Nothing)
  /\ r.at = "checked" /\ r \in AdminRequest /\ NamesFit(r)
  /\ RolesStand
  /\ v9 \subseteq v9'

LEMMA BeginsFromStart ==
  ASSUME AdminShape, NEW t \in Requests, NEW kind \in Kind \ {"none"},
         NEW whom \in People \cup AdminRoles, NEW new \in SUBSET Adm!Assignments,
         Adm!Start(t, kind, whom, new), RolesStand, v9 \subseteq v9',
         kind \in {"deactivate", "assign"} => whom \in People,
         kind \in {"plain", "retired"} => whom \in AdminRoles
  PROVE  Begins(t, [Adm!Nothing EXCEPT !.at = "checked", !.kind = kind, !.whom = whom, !.new = new])
<1> DEFINE r == [Adm!Nothing EXCEPT !.at = "checked", !.kind = kind, !.whom = whom, !.new = new]
<1>1. /\ r.at = "checked" /\ r.kind = kind /\ r.whom = whom /\ r.new = new /\ r.gone = {}
      /\ r \in AdminRequest
  BY DEF Adm!Nothing, AdminRequest
<1>2. NamesFit(r)
  <2> HIDE DEF r
  <2> QED BY <1>1 DEF NamesFit, Kind
<1> QED BY <1>1, <1>2 DEF Begins, Adm!Start

(* A request that begins keeps the shape and, if it found that an          *)
(* administrator remains, the guard.                                       *)
LEMMA BeginsKeepsShape ==
  ASSUME AdminShape, NEW t \in Requests, NEW r, Begins(t, r)
  PROVE  AdminShape'
<1>1. v7' \in BOOLEAN
  BY DEF Begins, AdminShape
<1> QED BY <1>1, ShapeByRequest DEF Begins

LEMMA BeginsKeepsGuard ==
  ASSUME AdminShape, Guarded, NEW t \in Requests, NEW r, Begins(t, r),
         v9' = {} => LeavesOne(r)
  PROVE  Guarded'
<1>1. ASSUME ~v7' PROVE ~v7 /\ \A u \in Requests : v4[u] = Adm!Nothing
  BY <1>1 DEF Begins
<1>2. ASSUME NEW u \in Requests PROVE v4'[u] = IF u = t THEN r ELSE v4[u]
  BY DEF Begins, AdminShape
<1>3. ~v7' => Alone'
  BY <1>1, <1>2 DEF Alone
<1>4. ASSUME ~v7', v9' = {} PROVE Adm!Admins' # {} /\ \A u \in Requests : LeavesOne(v4[u])'
  <2>1. Adm!Admins' # {}
    BY StandingAdmins DEF Begins
  <2>2. ASSUME NEW u \in Requests PROVE LeavesOne(v4[u])'
    <3>1. PICK x : x = v4'[u]
      OBVIOUS
    <3>2. LeavesOne(x)
      BY <1>1, <1>2, <1>4, <3>1, NothingFits
    <3>3. LeavesOne(x)'
      BY <3>2, StandingAdmins DEF Begins
    <3> QED BY <3>1, <3>3 DEF LeavesOne
  <2> QED BY <2>1, <2>2
<1> QED BY <1>3, <1>4 DEF Guarded

(* A replacement that finds another one of the same person under way mixes *)
(* with it; any other begins alone and has deleted nothing.                *)
LEMMA BeginsKeepsReplaced ==
  ASSUME AdminShape, ReplacedAlone, NEW t \in Requests, NEW r, Begins(t, r),
         v8 \subseteq v8',
         r.kind = "assign" =>
           \/ r.whom \in v8'
           \/ \A v \in Requests : ~(v4[v].kind = "assign" /\ v4[v].whom = r.whom)
  PROVE  ReplacedAlone'
<1>1. SUFFICES ASSUME NEW u \in People, u \notin v8' PROVE Replaced(u)'
  BY DEF ReplacedAlone
<1>2. Replaced(u)
  BY <1>1 DEF ReplacedAlone
<1>3. v2'[u] = v6'[u] /\ v2'[u] = v2[u]
  BY <1>2 DEF Replaced, Begins, RolesStand
<1>4. ASSUME NEW v \in Requests PROVE v4'[v] = IF v = t THEN r ELSE v4[v]
  BY DEF Begins, AdminShape
<1>5. CASE r.kind = "assign" /\ r.whom = u
  <2>1. \A v \in Requests \ {t} : ~(v4'[v].kind = "assign" /\ v4'[v].whom = u)
    BY <1>1, <1>4, <1>5
  <2>2. v4'[t].at # "deleted"
    BY <1>4 DEF Begins
  <2> QED BY <1>3, <2>1, <2>2 DEF Replaced
<1>6. CASE ~(r.kind = "assign" /\ r.whom = u)
  <2>1. ASSUME NEW v \in Requests, v4'[v].kind = "assign", v4'[v].whom = u
        PROVE  v # t /\ v4'[v] = v4[v]
    BY <2>1, <1>4, <1>6
  <2> QED BY <1>2, <1>3, <2>1 DEF Replaced
<1> QED BY <1>5, <1>6

(* Deactivation looks for another administrator.                           *)
LEMMA CheckDeactivationKeeps ==
  ASSUME AdminInv, NEW t \in Requests, Adm!CheckDeactivation(t)
  PROVE  AdminInv'
<1>1. PICK u \in People : Adm!RemainsWithout(u) /\ Adm!Start(t, "deactivate", u, {})
  BY DEF Adm!CheckDeactivation
<1>2. RolesStand /\ v9' = v9 /\ v8' = v8
  BY DEF Adm!CheckDeactivation, RolesStand
<1> DEFINE r == [Adm!Nothing EXCEPT !.at = "checked", !.kind = "deactivate", !.whom = u, !.new = {}]
<1>3. r.kind = "deactivate" /\ r.whom = u
  BY DEF Adm!Nothing
<1>4. Begins(t, r)
  BY <1>1, <1>2, BeginsFromStart DEF AdminInv, Kind
<1> HIDE DEF r
<1>5. LeavesOne(r)
  BY <1>1, <1>3 DEF LeavesOne
<1> QED BY <1>2, <1>3, <1>4, <1>5, BeginsKeepsShape, BeginsKeepsGuard, BeginsKeepsReplaced DEF AdminInv

(* A pair of two sets is made of its members.                              *)
LEMMA PairOf ==
  ASSUME NEW X, NEW Y, NEW z \in X \X Y
  PROVE  \E x \in X, y \in Y : z = <<x, y>>
OBVIOUS

(* A replacement asks for another administrator unless a role asked for is *)
(* an admin role; outside the loophole it is one for every account.        *)
LEMMA CheckRolesKeeps ==
  ASSUME AdminInv, NEW t \in Requests, Adm!CheckRoles(t)
  PROVE  AdminInv'
<1>1. PICK u \in People, new \in {{}} \cup {{a} : a \in Adm!Assignments} :
        /\ Adm!KeepsAdmin(new) \/ Adm!RemainsWithout(u)
        /\ Adm!Start(t, "assign", u, new)
        /\ v9' = IF Adm!KeepsAdmin(new) /\ (\A a \in new : a[2] # "everywhere")
                         THEN v9 \cup {"scoped"} ELSE v9
        /\ v8' = IF \E v \in Requests : v4[v].kind = "assign" /\ v4[v].whom = u
                      THEN v8 \cup {u} ELSE v8
  BY DEF Adm!CheckRoles
<1>2. RolesStand /\ v9 \subseteq v9' /\ v8 \subseteq v8'
  BY <1>1 DEF Adm!CheckRoles, RolesStand
<1> DEFINE r == [Adm!Nothing EXCEPT !.at = "checked", !.kind = "assign", !.whom = u, !.new = new]
<1>3. r.kind = "assign" /\ r.whom = u /\ r.new = new
  BY DEF Adm!Nothing
<1>4. Begins(t, r)
  BY <1>1, <1>2, BeginsFromStart DEF AdminInv, Kind
<1> HIDE DEF r
<1>5. ASSUME v9' = {} PROVE LeavesOne(r)
  <2>1. CASE Adm!RemainsWithout(u)
    BY <1>3, <2>1 DEF LeavesOne
  <2>2. CASE Adm!KeepsAdmin(new)
    <3>1. PICK a \in Adm!Assignments : new = {a} /\ v3[a[1]] = "admin"
      BY <1>1, <2>2 DEF Adm!KeepsAdmin
    <3> DEFINE places == {"everywhere", "one account"}
    <3>0. a \in AdminRoles \X places
      BY DEF Adm!Assignments
    <3> HIDE DEF places
    <3>2. PICK q \in AdminRoles, where \in places : a = <<q, where>>
      BY <3>0, PairOf
    <3>3. a[1] = q /\ a[2] = where
      BY <3>2
    <3>4. where = "everywhere"
      BY <1>1, <1>5, <2>2, <3>1, <3>3
    <3>5. Adm!Admins # {}
      BY <1>4 DEF Begins
    <3> QED BY <1>3, <3>1, <3>2, <3>3, <3>4, <3>5 DEF LeavesOne
  <2> QED BY <1>1, <2>1, <2>2
<1> QED BY <1>1, <1>2, <1>3, <1>4, <1>5, BeginsKeepsShape, BeginsKeepsGuard, BeginsKeepsReplaced DEF AdminInv

(* A role may lose its permission only when another one has it; outside    *)
(* the loophole somebody active holds that one everywhere.                 *)
LEMMA CheckRoleKeeps ==
  ASSUME AdminInv, NEW t \in Requests, Adm!CheckRole(t)
  PROVE  AdminInv'
<1>1. PICK q \in AdminRoles, kind \in {"plain", "retired"} :
        /\ Adm!Start(t, kind, q, {})
        /\ v9' = IF Adm!HeldElsewhere(q) THEN v9 ELSE v9 \cup {"unheld"}
  BY DEF Adm!CheckRole
<1>2. RolesStand /\ v9 \subseteq v9' /\ v8' = v8
  BY <1>1 DEF Adm!CheckRole, RolesStand
<1> DEFINE r == [Adm!Nothing EXCEPT !.at = "checked", !.kind = kind, !.whom = q, !.new = {}]
<1>3. r.kind = kind /\ r.whom = q
  BY DEF Adm!Nothing
<1>4. Begins(t, r)
  BY <1>1, <1>2, BeginsFromStart DEF AdminInv, Kind
<1> HIDE DEF r
<1>5. ASSUME v9' = {} PROVE LeavesOne(r)
  <2>1. Adm!HeldElsewhere(q)
    BY <1>1, <1>5
  <2> QED BY <1>1, <1>3, <2>1 DEF LeavesOne, Adm!HeldElsewhere, HolderBeside
<1>6. r.kind # "assign"
  BY <1>1, <1>3
<1> QED BY <1>2, <1>4, <1>5, <1>6, BeginsKeepsShape, BeginsKeepsGuard, BeginsKeepsReplaced DEF AdminInv

-----------------------------------------------------------------------------
(* The writes                                                              *)

(* The delete takes the roles the person has, which are all of them unless *)
(* another replacement is mixed in.                                        *)
LEMMA DeleteRolesKeeps ==
  ASSUME AdminInv, NEW t \in Requests, Adm!DeleteRoles(t)
  PROVE  AdminInv'
<1> DEFINE p == v4[t]
           r == [p EXCEPT !.at = "deleted", !.gone = v2[p.whom]]
<1>1. /\ p \in AdminRequest /\ NamesFit(p) /\ p.at = "checked" /\ p.kind = "assign"
      /\ p.whom \in People
  BY DEF AdminInv, AdminShape, Adm!DeleteRoles, NamesFit
<1>2. RolesStand /\ UNCHANGED <<v7, v9, v8>>
  BY DEF Adm!DeleteRoles, RolesStand
<1>3. v4' = [v4 EXCEPT ![t] = r]
  BY DEF Adm!DeleteRoles
<1>4. /\ r.at = "deleted" /\ r.kind = "assign" /\ r.whom = p.whom /\ r.new = p.new
      /\ r.gone = v2[p.whom]
  BY <1>1 DEF AdminRequest
<1>5. r \in AdminRequest
  <2>1. v2[p.whom] \in SUBSET Adm!Assignments
    BY <1>1 DEF AdminInv, AdminShape, Adm!AdministratorsTypeOK
  <2> QED BY <1>1, <2>1 DEF AdminRequest
<1> HIDE DEF r
<1>6. NamesFit(r)
  BY <1>1, <1>4 DEF NamesFit
<1>7. AdminShape'
  BY <1>2, <1>3, <1>5, <1>6, ShapeByRequest DEF AdminInv, AdminShape
<1>8. ASSUME NEW v \in Requests PROVE v4'[v] = IF v = t THEN r ELSE v4[v]
  BY <1>3 DEF AdminInv, AdminShape
<1>9. Guarded'
  <2>1. p # Adm!Nothing /\ r # Adm!Nothing
    BY <1>1, <1>4 DEF Adm!Nothing
  <2>2. ~v7' => Alone'
    BY <1>2, <1>8, <2>1 DEF AdminInv, Guarded, Alone
  <2>3. LeavesOne(r) <=> LeavesOne(p)
    BY <1>1, <1>4 DEF LeavesOne
  <2>4. ASSUME ~v7', v9' = {}, NEW v \in Requests PROVE LeavesOne(v4[v])'
    <3>1. PICK x : x = v4'[v]
      OBVIOUS
    <3>2. LeavesOne(x)
      BY <1>2, <1>8, <2>3, <2>4, <3>1 DEF AdminInv, Guarded
    <3>3. LeavesOne(x)'
      BY <1>2, <3>2, StandingAdmins
    <3> QED BY <3>1, <3>3 DEF LeavesOne
  <2>5. ASSUME ~v7', v9' = {} PROVE Adm!Admins' # {}
    BY <1>2, <2>5, StandingAdmins DEF AdminInv, Guarded
  <2> QED BY <2>2, <2>4, <2>5 DEF Guarded
<1>10. ASSUME NEW u \in People, u \notin v8' PROVE Replaced(u)'
  <2>1. Replaced(u)
    BY <1>2, <1>10 DEF AdminInv, ReplacedAlone
  <2>2. v2'[u] = v6'[u] /\ v2' = v2
    BY <1>2, <2>1 DEF Replaced, RolesStand
  <2>3. ASSUME NEW v \in Requests
        PROVE  /\ v4'[v].kind = v4[v].kind /\ v4'[v].whom = v4[v].whom
               /\ v # t => v4'[v] = v4[v]
    BY <1>1, <1>4, <1>8
  <2>4. ASSUME NEW v \in Requests, v4'[v].kind = "assign", v4'[v].whom = u,
               v4'[v].at = "deleted"
        PROVE  v4'[v].gone = v2'[u]
    <3>1. CASE v = t
      BY <1>4, <1>8, <2>2, <2>4, <3>1
    <3>2. CASE v # t
      BY <2>1, <2>2, <2>3, <2>4, <3>2 DEF Replaced
    <3> QED BY <3>1, <3>2
  <2>5. ASSUME NEW v \in Requests, v4'[v].kind = "assign", v4'[v].whom = u,
               NEW w \in Requests, v4'[w].kind = "assign", v4'[w].whom = u
        PROVE  w = v
    BY <2>1, <2>3, <2>5 DEF Replaced
  <2> QED BY <2>2, <2>4, <2>5 DEF Replaced
<1> QED BY <1>7, <1>9, <1>10 DEF AdminInv, ReplacedAlone

(* A request that ends without a write leaves the rest as it was.          *)
LEMMA AbortAdminKeeps ==
  ASSUME AdminInv, NEW t \in Requests, Adm!AbortAdmin(t)
  PROVE  AdminInv'
<1>1. /\ v4' = [v4 EXCEPT ![t] = Adm!Nothing] /\ RolesStand
      /\ UNCHANGED <<v7, v8, v9>>
  BY DEF Adm!AbortAdmin, RolesStand
<1>2. AdminShape'
  BY <1>1, NothingFits, ShapeByRequest DEF AdminInv, AdminShape
<1>3. ASSUME NEW v \in Requests PROVE v4'[v] = IF v = t THEN Adm!Nothing ELSE v4[v]
  BY <1>1 DEF AdminInv, AdminShape
<1>4. Guarded'
  <2>1. ~v7' => Alone'
    BY <1>1, AloneAfterRest DEF AdminInv, Guarded
  <2>2. ASSUME ~v7', v9' = {}, NEW v \in Requests PROVE LeavesOne(v4[v])'
    <3>1. PICK x : x = v4'[v]
      OBVIOUS
    <3>2. LeavesOne(x)
      BY <1>1, <1>3, <2>2, <3>1, NothingFits DEF AdminInv, Guarded
    <3>3. LeavesOne(x)'
      BY <1>1, <3>2, StandingAdmins
    <3> QED BY <3>1, <3>3 DEF LeavesOne
  <2>3. ASSUME ~v7', v9' = {} PROVE Adm!Admins' # {}
    BY <1>1, <2>3, StandingAdmins DEF AdminInv, Guarded
  <2> QED BY <2>1, <2>2, <2>3 DEF Guarded
<1>5. ASSUME NEW u \in People, u \notin v8' PROVE Replaced(u)'
  <2>1. Replaced(u) /\ v2' = v2 /\ v6' = v6
    BY <1>1, <1>5 DEF AdminInv, ReplacedAlone, RolesStand
  <2>2. ASSUME NEW v \in Requests, v4'[v].kind = "assign" PROVE v4'[v] = v4[v]
    BY <1>3, <2>2 DEF Adm!Nothing
  <2> QED BY <2>1, <2>2 DEF Replaced
<1> QED BY <1>2, <1>4, <1>5 DEF AdminInv, ReplacedAlone

(* The rows after each kind of change.                                     *)
Written(p) ==
  /\ v1' = IF p.kind = "deactivate" THEN [v1 EXCEPT ![p.whom] = "deactivated"] ELSE v1
  /\ v2' = IF p.kind = "assign"
                   THEN [v2 EXCEPT ![p.whom] = (v2[p.whom] \ p.gone) \cup p.new] ELSE v2
  /\ v6' = IF p.kind = "assign" THEN [v6 EXCEPT ![p.whom] = p.new] ELSE v6
  /\ v3' = IF p.kind \in {"plain", "retired"} THEN [v3 EXCEPT ![p.whom] = p.kind] ELSE v3

LEMMA CommitWrites ==
  ASSUME NEW t \in Requests, Adm!CommitAdmin(t)
  PROVE  /\ Written(v4[t]) /\ v4' = [v4 EXCEPT ![t] = Adm!Nothing]
         /\ UNCHANGED <<v7, v8, v9>>
BY DEF Adm!CommitAdmin, Written

(* The change leaves the administrator that its check found.               *)
LEMMA WrittenLeavesAdmin ==
  ASSUME AdminShape, NEW p \in AdminRequest, NamesFit(p), p.kind # "none", LeavesOne(p), Written(p)
  PROVE  Adm!Admins' # {}
<1>1. /\ v1 \in [People -> {"active", "deactivated"}]
      /\ v2 \in [People -> SUBSET Adm!Assignments]
      /\ v3 \in [AdminRoles -> {"admin", "plain", "retired"}]
  BY DEF AdminShape, Adm!AdministratorsTypeOK
<1>2. CASE p.kind = "deactivate"
  <2>1. PICK u \in Adm!Admins : u # p.whom
    BY <1>2 DEF LeavesOne, Adm!RemainsWithout
  <2>2. u \in People /\ v1'[u] = v1[u] /\ v2' = v2 /\ v3' = v3
    BY <1>1, <1>2, <2>1 DEF Adm!Admins, Written
  <2>3. u \in Adm!Admins'
    BY <2>1, <2>2 DEF Adm!Admins
  <2> QED BY <2>3
<1>3. CASE p.kind = "assign"
  <2>0. p.whom \in People /\ v1' = v1 /\ v3' = v3
    BY <1>3 DEF NamesFit, Written
  <2>1. CASE \E u \in Adm!Admins : u # p.whom
    <3>1. PICK u \in Adm!Admins : u # p.whom
      BY <2>1
    <3>2. u \in People /\ v2'[u] = v2[u]
      BY <1>1, <1>3, <3>1 DEF Adm!Admins, Written
    <3>3. u \in Adm!Admins'
      BY <2>0, <3>1, <3>2 DEF Adm!Admins
    <3> QED BY <3>3
  <2>2. CASE ~ \E u \in Adm!Admins : u # p.whom
    <3>1. ~Adm!RemainsWithout(p.whom)
      BY <2>2 DEF Adm!RemainsWithout
    <3>2. Adm!Admins # {} /\ \E q \in AdminRoles : <<q, "everywhere">> \in p.new /\ v3[q] = "admin"
      BY <1>3, <3>1 DEF LeavesOne
    <3>3. PICK q \in AdminRoles : <<q, "everywhere">> \in p.new /\ v3[q] = "admin"
      BY <3>2
    <3>4. v1[p.whom] = "active"
      BY <2>2, <3>2 DEF Adm!Admins
    <3>5. <<q, "everywhere">> \in v2'[p.whom]
      BY <1>1, <1>3, <2>0, <3>3 DEF Written
    <3>6. p.whom \in Adm!Admins'
      BY <2>0, <3>3, <3>4, <3>5 DEF Adm!Admins
    <3> QED BY <3>6
  <2> QED BY <2>1, <2>2
<1>4. CASE p.kind \in {"plain", "retired"}
  <2>1. PICK u \in People : HolderBeside(u, p.whom)
    BY <1>4 DEF LeavesOne
  <2>2. PICK q \in AdminRoles : /\ q # p.whom /\ <<q, "everywhere">> \in v2[u]
                                /\ v3[q] = "admin"
    BY <2>1 DEF HolderBeside
  <2>3. v1' = v1 /\ v2' = v2 /\ v3'[q] = v3[q]
    BY <1>1, <1>4, <2>2 DEF Written
  <2>4. u \in Adm!Admins'
    BY <2>1, <2>2, <2>3 DEF Adm!Admins, HolderBeside
  <2> QED BY <2>4
<1> QED BY <1>2, <1>3, <1>4 DEF AdminRequest, Kind

LEMMA WrittenShape ==
  ASSUME AdminShape, NEW p \in AdminRequest, NamesFit(p), Written(p)
  PROVE  Adm!AdministratorsTypeOK' /\ (v6 \in [People -> SUBSET Adm!Assignments])'
<1>1. v1' \in [People -> {"active", "deactivated"}]
  BY DEF AdminShape, Adm!AdministratorsTypeOK, Written
<1>2. v2' \in [People -> SUBSET Adm!Assignments] /\ v6' \in [People -> SUBSET Adm!Assignments]
  BY DEF AdminShape, Adm!AdministratorsTypeOK, Written, AdminRequest, NamesFit
<1>3. v3' \in [AdminRoles -> {"admin", "plain", "retired"}]
  BY DEF AdminShape, Adm!AdministratorsTypeOK, Written
<1> QED BY <1>1, <1>2, <1>3 DEF Adm!AdministratorsTypeOK

(* While nothing overlapped the request that commits was the only one.     *)
LEMMA CommitAdminKeeps ==
  ASSUME AdminInv, NEW t \in Requests, Adm!CommitAdmin(t)
  PROVE  AdminInv'
<1> DEFINE p == v4[t]
<1>1. /\ p \in AdminRequest /\ NamesFit(p) /\ p.kind # "none" /\ p # Adm!Nothing
      /\ p.kind = "assign" => p.at = "deleted"
  <2>1. p.at = (IF p.kind = "assign" THEN "deleted" ELSE "checked")
    BY DEF Adm!CommitAdmin
  <2> QED BY <2>1, KindOfRequest DEF AdminInv, AdminShape, NamesFit
<1>2. /\ Written(p) /\ v4' = [v4 EXCEPT ![t] = Adm!Nothing]
      /\ UNCHANGED <<v7, v8, v9>>
  BY CommitWrites
<1> HIDE DEF p
<1>3. ASSUME NEW v \in Requests PROVE v4'[v] = IF v = t THEN Adm!Nothing ELSE v4[v]
  BY <1>2 DEF AdminInv, AdminShape
<1>4. AdminShape'
  <2>1. Adm!AdministratorsTypeOK' /\ (v6 \in [People -> SUBSET Adm!Assignments])'
    BY <1>1, <1>2, WrittenShape DEF AdminInv
  <2>2. v4' \in [Requests -> AdminRequest] /\ v7' \in BOOLEAN
    BY <1>2, NothingFits DEF AdminInv, AdminShape
  <2>3. ASSUME NEW v \in Requests PROVE NamesFit(v4'[v])
    BY <1>3, NothingFits DEF AdminInv, AdminShape
  <2> QED BY <2>1, <2>2, <2>3 DEF AdminShape, NamesFit
<1>5. Guarded'
  <2>1. ~v7' => Alone'
    BY <1>2, AloneAfterRest DEF AdminInv, Guarded
  <2>2. ASSUME ~v7', v9' = {} PROVE Adm!Admins' # {}
    <3>1. LeavesOne(p)
      BY <1>2, <2>2 DEF AdminInv, Guarded, p
    <3> QED BY <1>1, <1>2, <3>1, WrittenLeavesAdmin DEF AdminInv
  <2>3. ASSUME ~v7', NEW v \in Requests PROVE LeavesOne(v4[v])'
    <3>1. v4'[v] = Adm!Nothing
      BY <1>1, <1>2, <1>3, <2>3 DEF AdminInv, Guarded, Alone, p
    <3> QED BY <3>1 DEF LeavesOne, Adm!Nothing
  <2> QED BY <2>1, <2>2, <2>3 DEF Guarded
<1>6. ASSUME NEW u \in People, u \notin v8' PROVE Replaced(u)'
  <2>1. Replaced(u)
    BY <1>2, <1>6 DEF AdminInv, ReplacedAlone
  <2>2. ASSUME NEW v \in Requests, v4'[v].kind = "assign" PROVE v # t /\ v4'[v] = v4[v]
    BY <1>3, <2>2 DEF Adm!Nothing
  <2>3. CASE p.kind = "assign" /\ p.whom = u
    <3>1. p.gone = v2[u]
      BY <1>1, <2>1, <2>3 DEF Replaced, p
    <3>2. v2'[u] = (v2[u] \ p.gone) \cup p.new /\ v6'[u] = p.new
      BY <1>2, <1>6, <2>3 DEF Written, AdminInv, AdminShape, Adm!AdministratorsTypeOK
    <3>3. v2'[u] = v6'[u]
      BY <3>1, <3>2
    <3>4. \A v \in Requests : ~(v4'[v].kind = "assign" /\ v4'[v].whom = u)
      BY <2>1, <2>2, <2>3 DEF Replaced, p
    <3> QED BY <3>3, <3>4 DEF Replaced
  <2>4. CASE ~(p.kind = "assign" /\ p.whom = u)
    <3>1. v2'[u] = v2[u] /\ v6'[u] = v6[u]
      BY <1>2, <2>4 DEF Written, AdminInv, AdminShape, Adm!AdministratorsTypeOK
    <3> QED BY <2>1, <2>2, <3>1 DEF Replaced
  <2> QED BY <2>3, <2>4
<1> QED BY <1>4, <1>5, <1>6 DEF AdminInv, ReplacedAlone

(* A restoration, unchecked, can only add administrators.                  *)
LEMMA RestoreKeeps ==
  ASSUME AdminInv, Adm!Restore
  PROVE  AdminInv'
<1>1. /\ UNCHANGED <<v2, v4, v6, v7, v8, v9>>
      /\ v1' \in [People -> {"active", "deactivated"}]
      /\ v3' \in [AdminRoles -> {"admin", "plain", "retired"}]
      /\ \A u \in People : v1[u] = "active" => v1'[u] = "active"
      /\ \A r \in AdminRoles : v3[r] = "admin" => v3'[r] = "admin"
  BY DEF Adm!Restore, AdminInv, AdminShape, Adm!AdministratorsTypeOK
<1>2. AdminShape'
  BY <1>1 DEF AdminInv, AdminShape, Adm!AdministratorsTypeOK, NamesFit
<1>3. Adm!Admins \subseteq Adm!Admins'
  BY <1>1 DEF Adm!Admins
<1>4. ASSUME NEW r, LeavesOne(r) PROVE LeavesOne(r)'
  <2>1. r.kind = "deactivate" => Adm!RemainsWithout(r.whom)'
    BY <1>3, <1>4 DEF LeavesOne, Adm!RemainsWithout
  <2>2. r.kind = "assign" =>
          \/ Adm!RemainsWithout(r.whom)'
          \/ /\ Adm!Admins' # {}
             /\ \E q \in AdminRoles : <<q, "everywhere">> \in r.new /\ v3'[q] = "admin"
    BY <1>1, <1>3, <1>4 DEF LeavesOne, Adm!RemainsWithout
  <2>3. r.kind \in {"plain", "retired"} => \E u \in People : HolderBeside(u, r.whom)'
    BY <1>1, <1>4 DEF LeavesOne, HolderBeside
  <2> QED BY <2>1, <2>2, <2>3 DEF LeavesOne
<1>5. Guarded'
  <2>1. ~v7' => Alone'
    BY <1>1 DEF AdminInv, Guarded, Alone
  <2>2. ASSUME ~v7', v9' = {} PROVE Adm!Admins' # {}
    BY <1>1, <1>3, <2>2 DEF AdminInv, Guarded
  <2>3. ASSUME ~v7', v9' = {}, NEW v \in Requests PROVE LeavesOne(v4[v])'
    <3>1. PICK x : x = v4[v] /\ x = v4'[v]
      BY <1>1
    <3>2. LeavesOne(x)
      BY <1>1, <2>3, <3>1 DEF AdminInv, Guarded
    <3>3. LeavesOne(x)'
      BY <1>4, <3>2
    <3> QED BY <3>1, <3>3 DEF LeavesOne
  <2> QED BY <2>1, <2>2, <2>3 DEF Guarded
<1>6. ReplacedAlone'
  BY <1>1 DEF AdminInv, ReplacedAlone, Replaced
<1> QED BY <1>2, <1>5, <1>6 DEF AdminInv

-----------------------------------------------------------------------------
(* The administrators                                                      *)

(* Everybody starts as an administrator, and nothing is under way.         *)
LEMMA AdministratorsStart ==
  ASSUME Adm!AdminConstants, Adm!AdministratorsInit
  PROVE  AdminInv
<1>1. AdminShape
  <2>1. Adm!AdministratorsTypeOK /\ v6 \in [People -> SUBSET Adm!Assignments]
    <3>1. ASSUME NEW q \in AdminRoles PROVE {<<q, "everywhere">>} \in SUBSET Adm!Assignments
      <4> DEFINE places == {"everywhere", "one account"}
      <4>1. "everywhere" \in places
        OBVIOUS
      <4> HIDE DEF places
      <4>2. <<q, "everywhere">> \in AdminRoles \X places
        BY <4>1
      <4> QED BY <4>2 DEF Adm!Assignments, places
    <3>2. v2 \in [People -> SUBSET Adm!Assignments]
      BY <3>1 DEF Adm!AdministratorsInit
    <3> QED BY <3>2 DEF Adm!AdministratorsInit, Adm!AdministratorsTypeOK
  <2> QED BY <2>1, NothingFits DEF AdminShape, Adm!AdministratorsInit
<1>2. Adm!Admins # {}
  <2>1. PICK u \in People : TRUE
    BY DEF Adm!AdminConstants
  <2>2. PICK q \in AdminRoles : v2[u] = {<<q, "everywhere">>}
    BY DEF Adm!AdministratorsInit
  <2>3. v1[u] = "active" /\ v3[q] = "admin"
    BY DEF Adm!AdministratorsInit
  <2> QED BY <2>2, <2>3 DEF Adm!Admins
<1>3. Guarded
  BY <1>2, NothingFits DEF Guarded, Alone, Adm!AdministratorsInit
<1>4. ReplacedAlone
  BY DEF ReplacedAlone, Replaced, Adm!AdministratorsInit, Adm!Nothing
<1> QED BY <1>1, <1>3, <1>4 DEF AdminInv

LEMMA AdministratorsStep ==
  ASSUME AdminInv, [Adm!AdministratorsNext]_Adm!adminVars
  PROVE  AdminInv'
<1>1. CASE UNCHANGED Adm!adminVars
  <2>1. RolesStand /\ UNCHANGED <<v4, v7, v8, v9>>
    BY <1>1 DEF Adm!adminVars, RolesStand
  <2>2. AdminShape'
    BY <2>1 DEF AdminInv, AdminShape, Adm!AdministratorsTypeOK, NamesFit, RolesStand
  <2>3. ASSUME ~v7', v9' = {}, NEW v \in Requests PROVE LeavesOne(v4[v])'
    <3>1. PICK x : x = v4[v] /\ x = v4'[v]
      BY <2>1
    <3>2. LeavesOne(x)
      BY <2>1, <2>3, <3>1 DEF AdminInv, Guarded
    <3>3. LeavesOne(x)'
      BY <2>1, <3>2, StandingAdmins
    <3> QED BY <3>1, <3>3 DEF LeavesOne
  <2>4. Adm!Admins' = Adm!Admins
    BY <2>1, StandingAdmins
  <2>5. Guarded'
    BY <2>1, <2>3, <2>4 DEF AdminInv, Guarded, Alone
  <2>6. ReplacedAlone'
    BY <2>1 DEF AdminInv, ReplacedAlone, Replaced, RolesStand
  <2> QED BY <2>2, <2>5, <2>6 DEF AdminInv
<1>2. CASE Adm!AdministratorsNext
  BY <1>2, CheckDeactivationKeeps, CheckRolesKeeps, CheckRoleKeeps, DeleteRolesKeeps,
     CommitAdminKeeps, AbortAdminKeeps, RestoreKeeps DEF Adm!AdministratorsNext
<1> QED BY <1>1, <1>2

(* The invariant is inductive, whatever requests overlap.                  *)
THEOREM AdministratorsInvariant ==
  ASSUME Adm!AdminConstants
  PROVE  Adm!AdministratorsSpec => []AdminInv
<1>1. AdminInv /\ [Adm!AdministratorsNext]_Adm!adminVars => AdminInv'
  BY AdministratorsStep
<1>2. Adm!AdministratorsInit => AdminInv
  BY AdministratorsStart
<1> QED BY <1>1, <1>2, PTL DEF Adm!AdministratorsSpec

(* An active administrator remains unless two changes overlapped or one    *)
(* went through a loophole of its check, and a person has the roles last   *)
(* asked for unless two replacements overlapped (users.service.ts,         *)
(* roles.service.ts).                                                      *)
THEOREM AnAdministratorRemains ==
  ASSUME Adm!AdminConstants
  PROVE  Adm!AdministratorsSpec => []AdminSafe
<1>1. AdminInv => AdminSafe
  BY DEF AdminInv, AdminShape, Guarded, ReplacedAlone, Replaced, AdminSafe, Adm!AdminRemains, Adm!RolesAreAsAsked
<1> QED BY <1>1, AdministratorsInvariant, PTL

-----------------------------------------------------------------------------
(* The configuration in force                                              *)

Underway == {"read", "retired", "written"}
ConfRequest ==
  {Con!Free} \cup [at : {"committed"}, by : Processes] \cup
  [at : Underway, by : Processes, kind : Con!Kinds, id : Nat, previous : SUBSET Nat, locked : SUBSET Nat]

(* What a request that retires rows names, and what it finds once it has   *)
(* written: no row is active but those it retires and its own.             *)
ConfFits(r) ==
  /\ r.at \in Underway /\ r.kind = "activate" => r.id \in DOMAIN v1
  /\ r.at \in Underway /\ r.kind # "activate" => r.id = 0
  /\ r.at = "retired" => r.locked = r.previous
  /\ r.at = "written" /\ r.kind = "activate" => Con!Active(v1) \subseteq r.previous \cup {r.id}
  /\ r.at = "written" /\ r.kind = "set" => Con!Active(v2) \subseteq r.previous

(* The unique index lets one request of a table put a row in force.        *)
Puts(r, kind) == r.at = "written" /\ r.kind = kind /\ kind # "remove"
OnePuts ==
  \A t, u \in Requests, kind \in Con!Kinds : Puts(v3[t], kind) /\ Puts(v3[u], kind) => t = u

ConfInv ==
  /\ v1 \in Seq({"draft", "active", "retired"}) /\ v2 \in Seq({"active", "retired"})
  /\ v3 \in [Requests -> ConfRequest]
  /\ \A t \in Requests : ConfFits(v3[t])
  /\ OnePuts
  /\ \E i \in DOMAIN v1 : Con!Active(v1) = {i}
  /\ \A i, j \in Con!Active(v2) : i = j

(* What retiring rows, and putting one in force beside that, does to the   *)
(* rows of a table.                                                        *)
LEMMA RetiredRows ==
  ASSUME NEW S, "retired" \in S, NEW rows \in Seq(S), NEW ids
  PROVE  /\ Con!Retired(rows, ids) \in Seq(S) /\ DOMAIN Con!Retired(rows, ids) = DOMAIN rows
         /\ Len(Con!Retired(rows, ids)) = Len(rows)
         /\ Con!Active(Con!Retired(rows, ids)) = Con!Active(rows) \ ids
<1>1. Con!Retired(rows, ids) = [i \in 1 .. Len(rows) |-> IF i \in ids THEN "retired" ELSE rows[i]]
  BY DEF Con!Retired
<1>2. Con!Retired(rows, ids) \in Seq(S) /\ DOMAIN Con!Retired(rows, ids) = DOMAIN rows
      /\ Len(Con!Retired(rows, ids)) = Len(rows)
  BY <1>1
<1>3. Con!Active(Con!Retired(rows, ids)) = Con!Active(rows) \ ids
  BY <1>1, <1>2 DEF Con!Active
<1> QED BY <1>2, <1>3

Activated(rows, ids, id) == [Con!Retired(rows, ids) EXCEPT ![id] = "active"]

LEMMA ActivatedRows ==
  ASSUME NEW S, {"retired", "active"} \subseteq S, NEW rows \in Seq(S), NEW ids,
         NEW id \in DOMAIN rows, Con!Active(rows) \subseteq ids \cup {id}
  PROVE  /\ Activated(rows, ids, id) \in Seq(S)
         /\ DOMAIN Activated(rows, ids, id) = DOMAIN rows
         /\ Con!Active(Activated(rows, ids, id)) = {id}
<1> DEFINE old == Con!Retired(rows, ids)
           new == Activated(rows, ids, id)
<1>1. old \in Seq(S) /\ DOMAIN old = DOMAIN rows /\ Con!Active(old) \subseteq {id}
  BY RetiredRows
<1>2. new = [old EXCEPT ![id] = "active"]
  BY DEF Activated
<1> HIDE DEF old, new
<1>3. new \in Seq(S) /\ DOMAIN new = DOMAIN rows
  BY <1>1, <1>2
<1>4. \A i \in DOMAIN rows : new[i] = IF i = id THEN "active" ELSE old[i]
  BY <1>1, <1>2
<1>5. Con!Active(new) = {id}
  BY <1>1, <1>3, <1>4 DEF Con!Active
<1> QED BY <1>3, <1>5 DEF new

LEMMA AppendedRows ==
  ASSUME NEW S, {"retired", "active"} \subseteq S, NEW rows \in Seq(S), NEW ids,
         Con!Active(rows) \subseteq ids
  PROVE  /\ Append(Con!Retired(rows, ids), "active") \in Seq(S)
         /\ \A i, j \in Con!Active(Append(Con!Retired(rows, ids), "active")) : i = j
<1> DEFINE old == Con!Retired(rows, ids)
           new == Append(old, "active")
<1>1. old \in Seq(S) /\ Con!Active(old) = {}
  BY RetiredRows
<1> HIDE DEF old
<1>2. /\ new \in Seq(S) /\ DOMAIN new = 1 .. Len(old) + 1 /\ Len(old) \in Nat
      /\ \A i \in 1 .. Len(old) : new[i] = old[i]
  BY <1>1
<1>3. \A i \in 1 .. Len(old) : old[i] # "active"
  BY <1>1 DEF Con!Active
<1>4. Con!Active(new) \subseteq {Len(old) + 1}
  <2> HIDE DEF new
  <2> QED BY <1>2, <1>3 DEF Con!Active
<1> QED BY <1>2, <1>4 DEF old

(* What a request under way is.                                            *)
LEMMA UnderwayRequest ==
  ASSUME NEW r \in ConfRequest, r.at \in Underway
  PROVE  r \in [at : Underway, by : Processes, kind : Con!Kinds, id : Nat, previous : SUBSET Nat,
                locked : SUBSET Nat]
BY DEF ConfRequest, Underway, Con!Free

LEMMA FreeFits == Con!Free \in ConfRequest /\ ConfFits(Con!Free) /\ \A kind : ~Puts(Con!Free, kind)
BY DEF Con!Free, ConfRequest, ConfFits, Puts, Underway

(* A step that changes one request and no row keeps the invariant when the *)
(* request fits and does not put a second row in force.                    *)
LEMMA ConfByRequest ==
  ASSUME ConfInv, UNCHANGED <<v1, v2>>, NEW t \in Requests, NEW r \in ConfRequest,
         v3' = [v3 EXCEPT ![t] = r], ConfFits(r),
         \A u \in Requests \ {t}, kind \in Con!Kinds : ~(Puts(r, kind) /\ Puts(v3[u], kind))
  PROVE  ConfInv'
<1>1. ASSUME NEW u \in Requests PROVE v3'[u] = IF u = t THEN r ELSE v3[u]
  BY DEF ConfInv
<1>2. v3' \in [Requests -> ConfRequest]
  BY DEF ConfInv
<1>3. ASSUME NEW u \in Requests PROVE ConfFits(v3[u])'
  <2>1. PICK x : x = v3'[u]
    OBVIOUS
  <2>2. ConfFits(x)
    BY <1>1, <2>1 DEF ConfInv
  <2>3. ConfFits(x)'
    BY <2>2 DEF ConfFits, Con!Active
  <2> QED BY <2>1, <2>3 DEF ConfFits
<1>4. OnePuts'
  <2>1. ASSUME NEW u \in Requests, NEW v \in Requests, NEW kind \in Con!Kinds,
               Puts(v3'[u], kind), Puts(v3'[v], kind)
        PROVE  u = v
    BY <1>1, <2>1 DEF ConfInv, OnePuts
  <2> QED BY <2>1 DEF OnePuts, Puts
<1>5. Con!Active(v1)' = Con!Active(v1) /\ Con!Active(v2)' = Con!Active(v2)
  BY DEF Con!Active
<1> QED BY <1>2, <1>3, <1>4, <1>5 DEF ConfInv

(* A request that ends changes nothing.                                    *)
LEMMA ConfRest ==
  ASSUME ConfInv, UNCHANGED <<v1, v2>>, NEW t \in Requests,
         v3' = [v3 EXCEPT ![t] = Con!Free]
  PROVE  ConfInv'
BY FreeFits, ConfByRequest

LEMMA BeginKeeps ==
  ASSUME ConfInv, NEW t \in Requests, NEW p \in Processes, NEW kind \in Con!Kinds, NEW id \in Nat,
         kind = "activate" => id \in DOMAIN v1, kind # "activate" => id = 0,
         Con!Begin(t, p, kind, id)
  PROVE  ConfInv'
<1> DEFINE rows == Con!TableOf(kind)
           r == [at |-> "read", by |-> p, kind |-> kind, id |-> id,
                 previous |-> Con!Active(rows) \ {id}, locked |-> {}]
<1>1. v3' = [v3 EXCEPT ![t] = r] /\ UNCHANGED <<v1, v2>>
  BY DEF Con!Begin
<1>2. Con!Active(rows) \in SUBSET Nat
  BY DEF Con!Active, Con!TableOf, ConfInv
<1>3. r \in ConfRequest
  BY <1>2 DEF ConfRequest, Underway
<1>4. ConfFits(r) /\ \A k : ~Puts(r, k)
  BY DEF ConfFits, Puts, Underway
<1> HIDE DEF r
<1> QED BY <1>1, <1>3, <1>4, ConfByRequest

LEMMA RetirePreviousKeeps ==
  ASSUME ConfInv, NEW t \in Requests, Con!RetirePrevious(t)
  PROVE  ConfInv'
<1> DEFINE p == v3[t]
           r == [p EXCEPT !.at = "retired", !.locked = p.previous]
<1>1. p.at = "read" /\ v3' = [v3 EXCEPT ![t] = r] /\ UNCHANGED <<v1, v2>>
  BY DEF Con!RetirePrevious
<1>2. p \in [at : Underway, by : Processes, kind : Con!Kinds, id : Nat, previous : SUBSET Nat,
             locked : SUBSET Nat] /\ ConfFits(p)
  BY <1>1, UnderwayRequest DEF ConfInv, Underway
<1> HIDE DEF p
<1>3. /\ r.at = "retired" /\ r.kind = p.kind /\ r.id = p.id /\ r.previous = p.previous
      /\ r.locked = p.previous
  BY <1>2
<1>4. r \in ConfRequest
  BY <1>2 DEF ConfRequest, Underway
<1> HIDE DEF r
<1>5. ConfFits(r) /\ \A k : ~Puts(r, k)
  BY <1>1, <1>2, <1>3 DEF ConfFits, Puts, Underway
<1> QED BY <1>1, <1>4, <1>5, ConfByRequest

(* The unique index lets a request put its row in force when it has        *)
(* retired what is active and nobody else has put one there.               *)
LEMMA WriteKeeps ==
  ASSUME ConfInv, NEW t \in Requests, Con!Write(t)
  PROVE  ConfInv'
<1> DEFINE p == v3[t]
           r == [p EXCEPT !.at = "written",
                          !.locked = IF p.kind = "activate" THEN p.locked \cup {p.id} ELSE p.locked]
<1>1. /\ p.at = "retired" /\ v3' = [v3 EXCEPT ![t] = r] /\ UNCHANGED <<v1, v2>>
      /\ p.kind # "remove" =>
           /\ Con!Active(Con!TableOf(p.kind)) \subseteq p.locked \cup {p.id}
           /\ \A o \in Con!Rivals(t) : o.at # "written" \/ o.kind = "remove"
  BY DEF Con!Write
<1>2. p \in [at : Underway, by : Processes, kind : Con!Kinds, id : Nat, previous : SUBSET Nat,
             locked : SUBSET Nat] /\ ConfFits(p)
  BY <1>1, UnderwayRequest DEF ConfInv, Underway
<1>3. ASSUME NEW u \in Requests \ {t}, NEW kind \in Con!Kinds, p.kind = kind, Puts(v3[u], kind)
      PROVE  FALSE
  BY <1>1, <1>3 DEF Con!Rivals, Puts
<1> HIDE DEF p
<1>4. /\ r.at = "written" /\ r.kind = p.kind /\ r.id = p.id /\ r.previous = p.previous
  BY <1>2
<1>5. r \in ConfRequest
  <2>1. (IF p.kind = "activate" THEN p.locked \cup {p.id} ELSE p.locked) \in SUBSET Nat
    BY <1>2
  <2> QED BY <1>2, <2>1 DEF ConfRequest, Underway
<1> HIDE DEF r
<1>6. ConfFits(r)
  <2>1. p.locked = p.previous
    BY <1>1, <1>2 DEF ConfFits
  <2>2. p.kind = "set" => Con!Active(v2) \subseteq p.previous
    <3>1. 0 \notin Con!Active(v2)
      BY DEF Con!Active, ConfInv
    <3>2. p.kind = "set" => p.id = 0
      BY <1>1, <1>2 DEF ConfFits, Underway
    <3> QED BY <1>1, <2>1, <3>1, <3>2 DEF Con!TableOf
  <2>3. p.kind = "activate" => Con!Active(v1) \subseteq p.previous \cup {p.id}
    BY <1>1, <2>1 DEF Con!TableOf
  <2> QED BY <1>1, <1>2, <1>4, <2>2, <2>3 DEF ConfFits, Underway
<1>7. \A u \in Requests \ {t}, kind \in Con!Kinds : ~(Puts(r, kind) /\ Puts(v3[u], kind))
  BY <1>3, <1>4 DEF Puts
<1> QED BY <1>1, <1>5, <1>6, <1>7, ConfByRequest

(* Everybody else keeps fitting when the rows change as long as nobody     *)
(* else is putting a row of that table in force.                           *)
LEMMA OthersFit ==
  ASSUME NEW r, ConfFits(r), DOMAIN v1 \subseteq DOMAIN v1',
         Puts(r, "activate") => Con!Active(v1)' \subseteq Con!Active(v1),
         Puts(r, "set") => Con!Active(v2)' \subseteq Con!Active(v2)
  PROVE  ConfFits(r)'
BY DEF ConfFits, Puts, Underway

LEMMA CommitKeeps ==
  ASSUME ConfInv, NEW t \in Requests, Con!Commit(t)
  PROVE  ConfInv'
<1> DEFINE p == v3[t]
           r == IF p.kind = "activate" THEN [at |-> "committed", by |-> p.by] ELSE Con!Free
<1>1. /\ p.at = "written" /\ v3' = [v3 EXCEPT ![t] = r]
      /\ v1' = IF p.kind = "activate"
                       THEN Activated(v1, p.previous, p.id) ELSE v1
      /\ v2' = CASE p.kind = "set" -> Append(Con!Retired(v2, p.previous), "active")
                         [] p.kind = "remove" -> Con!Retired(v2, p.previous)
                         [] OTHER -> v2
  BY DEF Con!Commit, Activated
<1>2. p \in [at : Underway, by : Processes, kind : Con!Kinds, id : Nat, previous : SUBSET Nat,
             locked : SUBSET Nat] /\ ConfFits(p)
  BY <1>1, UnderwayRequest DEF ConfInv, Underway
<1>3. ASSUME NEW u \in Requests PROVE v3'[u] = IF u = t THEN r ELSE v3[u]
  BY <1>1 DEF ConfInv
<1>4. ASSUME NEW u \in Requests, u # t, p.kind # "remove" PROVE ~Puts(v3[u], p.kind)
  BY <1>1, <1>2, <1>4 DEF ConfInv, OnePuts, Puts
<1> HIDE DEF p
<1>5. r \in ConfRequest /\ r.at \notin Underway
  BY <1>2 DEF ConfRequest, Con!Free, Underway
<1> HIDE DEF r
<1>6. v3' \in [Requests -> ConfRequest]
  BY <1>1, <1>5 DEF ConfInv
<1>7. /\ v1' \in Seq({"draft", "active", "retired"}) /\ DOMAIN v1' = DOMAIN v1
      /\ \E i \in DOMAIN v1' : Con!Active(v1') = {i}
      /\ p.kind # "activate" => Con!Active(v1') = Con!Active(v1)
  <2>1. CASE p.kind = "activate"
    <3>1. p.id \in DOMAIN v1 /\ Con!Active(v1) \subseteq p.previous \cup {p.id}
      BY <1>1, <1>2, <2>1 DEF ConfFits, Underway
    <3>2. PICK ids, id, new : ids = p.previous /\ id = p.id /\ new = Activated(v1, ids, id)
      OBVIOUS
    <3>3. id \in DOMAIN v1 /\ Con!Active(v1) \subseteq ids \cup {id}
      BY <3>1, <3>2
    <3> DEFINE S == {"draft", "active", "retired"}
    <3>4. {"retired", "active"} \subseteq S /\ v1 \in Seq(S)
      BY DEF ConfInv
    <3> HIDE DEF S
    <3>5. /\ Activated(v1, ids, id) \in Seq(S)
          /\ DOMAIN Activated(v1, ids, id) = DOMAIN v1
          /\ Con!Active(Activated(v1, ids, id)) = {id}
      BY <3>3, <3>4, ActivatedRows
    <3>6. new \in Seq(S) /\ DOMAIN new = DOMAIN v1 /\ Con!Active(new) = {id}
      BY <3>2, <3>5
    <3>7. v1' = new
      BY <1>1, <2>1, <3>2
    <3> QED BY <2>1, <3>3, <3>6, <3>7 DEF S
  <2>2. CASE p.kind # "activate"
    BY <1>1, <2>2 DEF ConfInv
  <2> QED BY <2>1, <2>2
<1>8. /\ v2' \in Seq({"active", "retired"})
      /\ \A i, j \in Con!Active(v2') : i = j
      /\ p.kind # "set" => Con!Active(v2') \subseteq Con!Active(v2)
  <2>1. CASE p.kind = "set"
    <3>1. Con!Active(v2) \subseteq p.previous
      BY <1>1, <1>2, <2>1 DEF ConfFits
    <3>2. v2' = Append(Con!Retired(v2, p.previous), "active")
      BY <1>1, <2>1
    <3> QED BY <2>1, <3>1, <3>2, AppendedRows DEF ConfInv
  <2>2. CASE p.kind = "remove"
    <3>1. v2' = Con!Retired(v2, p.previous)
      BY <1>1, <2>2
    <3>2. v2' \in Seq({"active", "retired"}) /\ Con!Active(v2') = Con!Active(v2) \ p.previous
      BY <3>1, RetiredRows DEF ConfInv
    <3> QED BY <3>2 DEF ConfInv
  <2>3. CASE p.kind \notin {"set", "remove"}
    BY <1>1, <2>3 DEF ConfInv
  <2> QED BY <2>1, <2>2, <2>3
<1>9. ASSUME NEW u \in Requests PROVE ConfFits(v3[u])'
  <2>1. PICK x : x = v3'[u]
    OBVIOUS
  <2>2. CASE u = t
    <3>1. x.at \notin Underway
      BY <1>3, <1>5, <2>1, <2>2
    <3>2. ConfFits(x)'
      BY <3>1 DEF ConfFits, Underway
    <3> QED BY <2>1, <3>2 DEF ConfFits
  <2>3. CASE u # t
    <3>1. x = v3[u] /\ ConfFits(x)
      BY <1>3, <2>1, <2>3 DEF ConfInv
    <3>2. Puts(x, "activate") => p.kind # "activate"
      BY <1>4, <2>3, <3>1
    <3>3. Puts(x, "set") => p.kind # "set"
      BY <1>4, <2>3, <3>1
    <3>4. /\ Puts(x, "activate") => Con!Active(v1)' \subseteq Con!Active(v1)
          /\ Puts(x, "set") => Con!Active(v2)' \subseteq Con!Active(v2)
      BY <1>7, <1>8, <3>2, <3>3 DEF Con!Active
    <3>5. ConfFits(x)'
      BY <1>7, <3>1, <3>4, OthersFit
    <3> QED BY <2>1, <3>5 DEF ConfFits
  <2> QED BY <2>2, <2>3
<1>10. OnePuts'
  <2>1. ASSUME NEW u \in Requests, NEW v \in Requests, NEW kind \in Con!Kinds,
               Puts(v3'[u], kind), Puts(v3'[v], kind)
        PROVE  u = v
    <3>1. u # t /\ v # t
      BY <1>3, <1>5, <2>1 DEF Puts, Underway
    <3> QED BY <1>3, <2>1, <3>1 DEF ConfInv, OnePuts
  <2> QED BY <2>1 DEF OnePuts, Puts
<1> QED BY <1>6, <1>7, <1>8, <1>9, <1>10 DEF ConfInv, Con!Active

(* A draft is not in force.                                                *)
LEMMA CreateDraftKeeps ==
  ASSUME ConfInv, Con!CreateDraft
  PROVE  ConfInv'
<1>1. v1' = Append(v1, "draft") /\ UNCHANGED <<v2, v3>>
  BY DEF Con!CreateDraft
<1>2. /\ v1' \in Seq({"draft", "active", "retired"}) /\ DOMAIN v1 \subseteq DOMAIN v1'
      /\ DOMAIN v1' = 1 .. Len(v1) + 1 /\ v1'[Len(v1) + 1] = "draft"
      /\ \A i \in DOMAIN v1 : v1'[i] = v1[i]
  BY <1>1 DEF ConfInv
<1>3. Con!Active(v1') = Con!Active(v1)
  <2>1. DOMAIN v1' = DOMAIN v1 \cup {Len(v1) + 1}
    BY <1>2 DEF ConfInv
  <2> QED BY <1>2, <2>1 DEF Con!Active
<1>4. Con!Active(v1)' = Con!Active(v1) /\ Con!Active(v2)' = Con!Active(v2)
  BY <1>1, <1>3 DEF Con!Active
<1>5. ASSUME NEW u \in Requests PROVE ConfFits(v3[u])'
  <2>1. PICK x : x = v3[u] /\ x = v3'[u]
    BY <1>1
  <2>2. ConfFits(x)'
    BY <1>2, <1>4, <2>1, OthersFit DEF ConfInv
  <2> QED BY <2>1, <2>2 DEF ConfFits
<1>6. \E i \in DOMAIN v1' : Con!Active(v1)' = {i}
  BY <1>2, <1>4 DEF ConfInv
<1>7. \A i, j \in Con!Active(v2)' : i = j
  BY <1>4 DEF ConfInv
<1> QED BY <1>1, <1>2, <1>5, <1>6, <1>7 DEF ConfInv, OnePuts, Puts

LEMMA ConfStarts == Con!ConfInit => ConfInv
<1> SUFFICES ASSUME Con!ConfInit PROVE ConfInv
  OBVIOUS
<1>1. v1 = <<"active">> /\ v2 = <<>> /\ v3 = [t \in Requests |-> Con!Free]
  BY DEF Con!ConfInit
<1>2. Con!Active(v1) = {1} /\ Con!Active(v2) = {} /\ 1 \in DOMAIN v1
  BY <1>1 DEF Con!Active
<1>3. v1 \in Seq({"draft", "active", "retired"}) /\ v2 \in Seq({"active", "retired"})
  BY <1>1
<1> QED BY <1>1, <1>2, <1>3, FreeFits DEF ConfInv, OnePuts

LEMMA ConfStep ==
  ASSUME ConfInv, [Con!ConfNext]_Con!confVars
  PROVE  ConfInv'
<1>1. CASE UNCHANGED <<v1, v2, v3>>
  BY <1>1 DEF ConfInv, ConfFits, OnePuts, Puts, Con!Active
<1>2. CASE Con!ConfNext
  <2>1. CASE Con!CreateDraft
    BY <2>1, CreateDraftKeeps
  <2>2. ASSUME NEW t \in Requests, NEW p \in Processes, NEW id \in DOMAIN v1,
               Con!Begin(t, p, "activate", id)
        PROVE  ConfInv'
    <3>1. id \in Nat
      BY DEF ConfInv
    <3> QED BY <2>2, <3>1, BeginKeeps DEF Con!Kinds
  <2>3. ASSUME NEW t \in Requests, NEW p \in Processes, NEW kind \in {"set", "remove"},
               Con!Begin(t, p, kind, 0)
        PROVE  ConfInv'
    BY <2>3, BeginKeeps DEF Con!Kinds
  <2>4. ASSUME NEW t \in Requests, Con!ClearAfter(t) \/ Con!Rollback(t) PROVE ConfInv'
    BY <2>4, ConfRest DEF Con!ClearAfter, Con!Rollback
  <2>5. ASSUME NEW p \in Processes, Con!ResolveOverride(p) \/ Con!KeepResolved(p) \/ Con!ExpireCopy(p)
        PROVE  ConfInv'
    BY <1>1, <2>5 DEF Con!ResolveOverride, Con!KeepResolved, Con!ExpireCopy
  <2> QED BY <1>2, <2>1, <2>2, <2>3, <2>4, <2>5, RetirePreviousKeeps, WriteKeeps, CommitKeeps DEF Con!ConfNext
<1> QED BY <1>1, <1>2 DEF Con!confVars

(* Whatever activations, overrides and removals overlap, one version of a  *)
(* default is active and at most one override (config.service.ts): the     *)
(* unique index on the active row is enough, although nothing is locked    *)
(* to decide.                                                              *)
THEOREM OneConfigurationInForce == Con!ConfInit /\ [][Con!ConfNext]_Con!confVars => []Con!OneInForce
<1>1. Con!ConfInit /\ [][Con!ConfNext]_Con!confVars => []ConfInv
  BY ConfStarts, ConfStep, PTL
<1>2. ConfInv => Con!OneInForce
  <2> SUFFICES ASSUME ConfInv PROVE Con!OneInForce
    OBVIOUS
  <2>1. PICK i : Con!Active(v1) = {i}
    BY DEF ConfInv
  <2>2. Cardinality({i}) = 1 /\ Cardinality({}) = 0
    BY FS_Singleton, FS_EmptySet
  <2>4. \A S : Con!Cardinality(S) = Cardinality(S)
    BY DEF Con!Cardinality, Cardinality
  <2>3. Cardinality(Con!Active(v2)) <= 1
    <3>1. CASE Con!Active(v2) = {}
      BY <2>2, <3>1
    <3>2. CASE Con!Active(v2) # {}
      <4>0. PICK j : j \in Con!Active(v2)
        BY <3>2
      <4>1. Con!Active(v2) = {j}
        BY <4>0 DEF ConfInv
      <4>2. Cardinality({j}) = 1
        BY FS_Singleton
      <4> QED BY <4>1, <4>2
    <3> QED BY <3>1, <3>2
  <2> QED BY <2>1, <2>2, <2>3, <2>4 DEF Con!OneInForce
<1> QED BY <1>1, <1>2, PTL

-----------------------------------------------------------------------------
(* One article of the knowledge base (Knowledge).                          *)

Status == {"draft", "in_review", "published", "retired"}
Article == [status : Status, version : 1 .. MaxArticleVersion, published : Nat]
Version == [text : 1 .. MaxTexts, author : People, frozen : BOOLEAN]
Page == {Kno!NoPage} \cup
        [at : {"read"}, by : People, version : Nat, status : Status, text : 1 .. MaxTexts]
Publication == [text : Nat, status : Status \cup {"none"}, by : People \cup {"nobody"}, admin : BOOLEAN]

ArticleShape ==
  /\ v1 \in Article
  /\ v2 \in Seq(Version) /\ Len(v2) > 0
  /\ v7 \in Seq(Publication) /\ Len(v7) = Len(v2)
  /\ v3 \in [Requests -> Page]
  /\ v4 \in 1 .. MaxTexts /\ v5 \subseteq 1 .. MaxTexts
  /\ v6 \subseteq (1 .. MaxTexts) \X (1 .. MaxTexts) /\ v8 \in BOOLEAN

(* A reader whose version number is still the article's has read its       *)
(* status, and its text unless an edit passed that moved nothing else.     *)
StillReads(p, now, newest, silent) ==
  p.at = "read" =>
    /\ p.version <= now.version
    /\ p.version = now.version =>
         /\ p.status = now.status
         /\ p.text = newest \/ (now.status # "in_review" /\ newest \in silent)

PagesCurrent ==
  \A t \in Requests : StillReads(v3[t], v1, Kno!Newest.text, v5)

ArticleInv ==
  /\ ArticleShape
  /\ PagesCurrent
  /\ Kno!PublishedAsRead
  /\ Kno!EditsAreSeen
  /\ Kno!ReviewerDiffers
  /\ Kno!VersionsInOrder

(* create of knowledge.module.ts: a draft with one version that nobody has  *)
(* read yet.                                                               *)
LEMMA ArticleStarts ==
  ASSUME Kno!KnowledgeConstants, Kno!KnowledgeInit
  PROVE  ArticleInv
<1>1. PICK u \in People : v2 = <<[text |-> 1, author |-> u, frozen |-> FALSE]>>
  BY DEF Kno!KnowledgeInit
<1>2. /\ v1 = [status |-> "draft", version |-> 1, published |-> 0]
      /\ v3 = [t \in Requests |-> Kno!NoPage] /\ v4 = 1 /\ v5 = {} /\ v6 = {}
      /\ v7 = <<Kno!NotShown>> /\ v8 = FALSE
  BY DEF Kno!KnowledgeInit
<1>3. /\ [text |-> 1, author |-> u, frozen |-> FALSE] \in Version
      /\ v1 \in Article /\ Kno!NotShown \in Publication
  BY <1>2 DEF Kno!KnowledgeConstants, Version, Article, Publication, Status, Kno!NotShown
<1>4. Len(v2) = 1 /\ v2[1].frozen = FALSE /\ DOMAIN v2 = {1} /\ v2 \in Seq(Version)
  BY <1>1, <1>3
<1>5. v7 \in Seq(Publication) /\ Len(v7) = 1
  BY <1>2, <1>3
<1>6. ArticleShape
  <2>1. v3 \in [Requests -> Page]
    BY <1>2 DEF Page
  <2>2. v4 \in 1 .. MaxTexts
    BY <1>2 DEF Kno!KnowledgeConstants
  <2>3. v5 \subseteq 1 .. MaxTexts /\ v6 \subseteq (1 .. MaxTexts) \X (1 .. MaxTexts)
    BY <1>2
  <2>4. Len(v7) = Len(v2) /\ Len(v2) > 0 /\ v8 \in BOOLEAN
    <3>1. v8 \in BOOLEAN
      BY <1>2
    <3> QED BY <1>4, <1>5, <3>1
  <2> QED BY <1>3, <1>4, <1>5, <2>1, <2>2, <2>3, <2>4 DEF ArticleShape
<1>7. PagesCurrent
  BY <1>2 DEF PagesCurrent, StillReads, Kno!NoPage
<1>8. Kno!VersionsInOrder
  BY <1>2, <1>4 DEF Kno!VersionsInOrder, Kno!HasDraft, Kno!Newest
<1> QED BY <1>2, <1>4, <1>6, <1>7, <1>8 DEF ArticleInv, Kno!PublishedAsRead, Kno!EditsAreSeen, Kno!ReviewerDiffers

(* The request is over; what the others have read may be overtaken.        *)
LEMMA PagesStayCurrent ==
  ASSUME PagesCurrent, v3 \in [Requests -> Page], NEW t \in Requests,
         v3' = [v3 EXCEPT ![t] = Kno!NoPage],
         v1.version \in Nat, v1'.version \in Nat, v1.version <= v1'.version,
         v5 \subseteq v5',
         v1'.version = v1.version =>
           /\ v1'.status = v1.status
           /\ \/ Kno!Newest.text' = Kno!Newest.text
              \/ v1.status # "in_review" /\ Kno!Newest.text' \in v5'
  PROVE  PagesCurrent' /\ v3' \in [Requests -> Page]
<1>1. PICK now, newest, silent : now = v1' /\ newest = Kno!Newest.text' /\ silent = v5'
  OBVIOUS
<1>2. ASSUME NEW u \in Requests PROVE StillReads(v3'[u], now, newest, silent)
  <2>1. CASE u = t
    BY <2>1 DEF StillReads, Kno!NoPage
  <2>2. CASE u # t
    <3>1. v3'[u] = v3[u] /\ v3[u] \in Page
      BY <2>2
    <3>2. StillReads(v3[u], v1, Kno!Newest.text, v5)
      BY DEF PagesCurrent
    <3>3. v3[u].at = "read" => v3[u].version \in Nat
      BY <3>1 DEF Page, Kno!NoPage
    <3> QED BY <1>1, <3>1, <3>2, <3>3 DEF StillReads
  <2> QED BY <2>1, <2>2
<1>3. v3' \in [Requests -> Page]
  BY DEF Page
<1> QED BY <1>1, <1>2, <1>3 DEF PagesCurrent

(* updateVersioned of repository.base.ts with something to assign.          *)
LEMMA Bumped ==
  ASSUME Kno!KnowledgeConstants, ArticleShape, NEW p, NEW status \in Status, NEW published \in Nat,
         Kno!Versioned(p, status, published)
  PROVE  /\ p.version = v1.version
         /\ v1' \in Article /\ v1'.version = v1.version + 1
         /\ v1'.status = status /\ v1'.published = published
         /\ v1.version \in Nat /\ v1'.version \in Nat
<1>1. /\ v1 \in Article /\ v1.version \in Nat /\ v1.version + 1 \in 1 .. MaxArticleVersion
      /\ p.version = v1.version
  BY DEF ArticleShape, Article, Kno!Versioned, Kno!KnowledgeConstants
<1>2. v1' = [status |-> status, version |-> v1.version + 1, published |-> published]
  BY DEF Kno!Versioned
<1> QED BY <1>1, <1>2 DEF Article

(* Who reads now reads what is there.                                      *)
LEMMA ReadKeeps ==
  ASSUME ArticleInv, NEW t \in Requests, NEW u \in People, Kno!ReadArticle(t, u)
  PROVE  ArticleInv'
<1>1. PICK p : p = [at |-> "read", by |-> u, version |-> v1.version,
                    status |-> v1.status, text |-> Kno!Newest.text]
  OBVIOUS
<1>2. v3' = [v3 EXCEPT ![t] = p]
      /\ UNCHANGED <<v1, v2, v4, v5, v6, v7, v8>>
  BY <1>1 DEF Kno!ReadArticle
<1>3. ArticleShape
  BY DEF ArticleInv
<1>4. Kno!Newest \in Version
  BY <1>3 DEF ArticleShape, Kno!Newest
<1>5. p \in Page /\ StillReads(p, v1, Kno!Newest.text, v5)
  BY <1>1, <1>3, <1>4 DEF ArticleShape, Article, Page, Version, StillReads
<1>6. v3' \in [Requests -> Page]
      /\ \A v \in Requests : v3'[v] = IF v = t THEN p ELSE v3[v]
  BY <1>2, <1>3, <1>5 DEF ArticleShape
<1>7. ArticleShape'
  BY <1>2, <1>3, <1>6 DEF ArticleShape
<1>8. PagesCurrent'
  BY <1>2, <1>5, <1>6 DEF ArticleInv, PagesCurrent, StillReads, Kno!Newest
<1> QED BY <1>2, <1>7, <1>8 DEF ArticleInv, Kno!PublishedAsRead, Kno!EditsAreSeen, Kno!ReviewerDiffers,
            Kno!VersionsInOrder, Kno!HasDraft, Kno!Newest

(* The versions stay as they are: only the article moves, or only the page. *)
LEMMA VersionsStay ==
  ASSUME ArticleInv, NEW t \in Requests, v3' = [v3 EXCEPT ![t] = Kno!NoPage],
         UNCHANGED <<v2, v4, v5, v6, v7>>,
         v1' \in Article, v1'.published = v1.published,
         v1'.version = v1.version => v1' = v1,
         v1.version <= v1'.version,
         v8' \in BOOLEAN, v8' => v1'.status = "retired"
  PROVE  ArticleInv'
<1>1. ArticleShape /\ v1.version \in Nat /\ v1'.version \in Nat
  BY DEF ArticleInv, ArticleShape, Article
<1>2. PagesCurrent' /\ v3' \in [Requests -> Page]
  BY <1>1, PagesStayCurrent DEF ArticleInv, ArticleShape, Kno!Newest
<1>3. ArticleShape'
  BY <1>1, <1>2 DEF ArticleShape
<1> QED BY <1>2, <1>3 DEF ArticleInv, Kno!PublishedAsRead, Kno!EditsAreSeen, Kno!ReviewerDiffers,
            Kno!VersionsInOrder, Kno!HasDraft, Kno!Newest

(* A page is closed.                                                       *)
LEMMA LeaveKeeps ==
  ASSUME ArticleInv, NEW t \in Requests, Kno!Leave(t)
  PROVE  ArticleInv'
<1>1. v1 \in Article /\ v1.version <= v1.version /\ v8 \in BOOLEAN
      /\ (v8 => v1.status = "retired")
  BY DEF ArticleInv, ArticleShape, Article, Kno!VersionsInOrder
<1> QED BY <1>1, VersionsStay DEF Kno!Leave

(* submit: the status moves, and with it the version number.               *)
LEMMA SubmitKeeps ==
  ASSUME Kno!KnowledgeConstants, ArticleInv, NEW t \in Requests, Kno!Submit(t)
  PROVE  ArticleInv'
<1>1. ArticleShape /\ v1.published \in Nat /\ "in_review" \in Status
  BY DEF ArticleInv, ArticleShape, Article, Status
<1>2. v1' \in Article /\ v1'.version = v1.version + 1 /\ v1.version \in Nat
      /\ v1'.published = v1.published
  BY <1>1, Bumped DEF Kno!Submit
<1>3. v8 \in BOOLEAN /\ ~v8
  BY <1>1 DEF ArticleShape, ArticleInv, Kno!VersionsInOrder, Kno!Submit
<1>4. v1'.version # v1.version /\ v1.version <= v1'.version
  BY <1>2
<1> QED BY <1>2, <1>3, <1>4, VersionsStay DEF Kno!Submit

(* retire: from any status, for good.                                      *)
LEMMA RetireKeeps ==
  ASSUME Kno!KnowledgeConstants, ArticleInv, NEW t \in Requests, Kno!Retire(t)
  PROVE  ArticleInv'
<1>1. ArticleShape /\ v1.published \in Nat /\ "retired" \in Status
  BY DEF ArticleInv, ArticleShape, Article, Status
<1>2. v1' \in Article /\ v1'.version = v1.version + 1 /\ v1.version \in Nat
      /\ v1'.published = v1.published /\ v1'.status = "retired"
  BY <1>1, Bumped DEF Kno!Retire
<1>3. v1'.version # v1.version /\ v1.version <= v1'.version
  BY <1>2
<1> QED BY <1>2, <1>3, VersionsStay DEF Kno!Retire

(* The draft is written over, or appended to what is published: in both     *)
(* cases the frozen versions before it stay.                               *)
LEMMA DraftWritten ==
  ASSUME ArticleInv, NEW row \in Version, row.frozen = FALSE,
         v2' = IF Kno!HasDraft THEN [v2 EXCEPT ![Len(v2)] = row] ELSE Append(v2, row),
         v7' = IF Kno!HasDraft THEN v7 ELSE Append(v7, Kno!NotShown)
  PROVE  \E m \in Nat \ {0} :
           /\ v2' \in Seq(Version) /\ Len(v2') = m /\ v2'[m] = row
           /\ v7' \in Seq(Publication) /\ Len(v7') = m
           /\ \A i \in 1 .. m - 1 :
                /\ i \in DOMAIN v2 /\ v2[i].frozen
                /\ v2'[i] = v2[i] /\ v7'[i] = v7[i]
           /\ v1.published = m - 1
<1>1. PICK n \in Nat \ {0} : n = Len(v2)
  BY DEF ArticleInv, ArticleShape
<1>2. /\ v2 \in Seq(Version) /\ v7 \in Seq(Publication) /\ Len(v7) = n
      /\ \A i \in 1 .. n - 1 : v2[i].frozen
      /\ v1.published = IF Kno!HasDraft THEN n - 1 ELSE n
      /\ ~Kno!HasDraft => v2[n].frozen
  BY <1>1 DEF ArticleInv, ArticleShape, Kno!VersionsInOrder, Kno!HasDraft, Kno!Newest
<1>3. CASE Kno!HasDraft
  <2>1. v2' = [v2 EXCEPT ![n] = row] /\ v7' = v7
    BY <1>1, <1>3
  <2>2. v2' \in Seq(Version) /\ Len(v2') = n /\ v2'[n] = row
        /\ \A i \in 1 .. n - 1 : i \in DOMAIN v2 /\ v2'[i] = v2[i]
    BY <1>1, <1>2, <2>1
  <2> QED BY <1>1, <1>2, <1>3, <2>1, <2>2
<1>4. CASE ~Kno!HasDraft
  <2>1. v2' = Append(v2, row) /\ v7' = Append(v7, Kno!NotShown)
    BY <1>4
  <2>2. Kno!NotShown \in Publication
    BY DEF Kno!NotShown, Publication
  <2>3. v2' \in Seq(Version) /\ Len(v2') = n + 1 /\ v2'[n + 1] = row
        /\ \A i \in 1 .. n : i \in DOMAIN v2 /\ v2'[i] = v2[i]
    BY <1>1, <1>2, <2>1
  <2>4. v7' \in Seq(Publication) /\ Len(v7') = n + 1
        /\ \A i \in 1 .. n : v7'[i] = v7[i]
    BY <1>1, <1>2, <2>1, <2>2
  <2>5. \A i \in 1 .. n : v2[i].frozen
    BY <1>1, <1>2, <1>4
  <2>6. v1.published = (n + 1) - 1 /\ (n + 1) - 1 = n /\ n + 1 \in Nat \ {0}
    BY <1>1, <1>2, <1>4
  <2> QED BY <2>3, <2>4, <2>5, <2>6
<1> QED BY <1>3, <1>4

(* updateDraft: an edit that assigns to the article compares the number;    *)
(* one that does not is remembered in unversioned.                         *)
LEMMA UpdateKeeps ==
  ASSUME Kno!KnowledgeConstants, ArticleInv, NEW t \in Requests,
         NEW writes \in BOOLEAN, NEW fields \in BOOLEAN, Kno!UpdateDraft(t, writes, fields)
  PROVE  ArticleInv'
<1>1. PICK p, text, row : /\ p = v3[t]
                          /\ text = (IF writes THEN v4 + 1 ELSE Kno!Newest.text)
                          /\ row = [text |-> text, author |-> p.by, frozen |-> FALSE]
  OBVIOUS
<1>2. /\ p.at = "read" /\ v1.status # "retired"
      /\ v4' = (IF writes THEN v4 + 1 ELSE v4) /\ v4' <= MaxTexts
      /\ IF Kno!Assigns(fields)
         THEN Kno!Versioned(p, IF v1.status = "in_review" THEN "draft" ELSE v1.status, v1.published)
         ELSE v1' = v1
      /\ v2' = (IF Kno!HasDraft THEN [v2 EXCEPT ![Len(v2)] = row] ELSE Append(v2, row))
      /\ v7' = (IF Kno!HasDraft THEN v7 ELSE Append(v7, Kno!NotShown))
      /\ v5' = (IF writes /\ ~Kno!Assigns(fields) THEN v5 \cup {text} ELSE v5)
      /\ v6' = (IF writes /\ Kno!Newest.text # p.text THEN v6 \cup {<<Kno!Newest.text, text>>} ELSE v6)
      /\ v3' = [v3 EXCEPT ![t] = Kno!NoPage]
      /\ v8' = v8
  BY <1>1 DEF Kno!UpdateDraft
<1>3. ArticleShape /\ p \in Page /\ Kno!Newest \in Version
  BY <1>1 DEF ArticleInv, ArticleShape, Kno!Newest
<1>4. p.by \in People
  BY <1>2, <1>3 DEF Page, Kno!NoPage
<1>5. v4 \in Nat /\ Kno!Newest.text \in 1 .. MaxTexts /\ v4' \in 1 .. MaxTexts /\ text \in 1 .. MaxTexts
  BY <1>1, <1>2, <1>3 DEF ArticleShape, Version, Kno!KnowledgeConstants
<1>6. row \in Version /\ row.frozen = FALSE /\ row.text = text
  BY <1>1, <1>4, <1>5 DEF Version
<1>7. PICK m \in Nat \ {0} :
           /\ v2' \in Seq(Version) /\ Len(v2') = m /\ v2'[m] = row
           /\ v7' \in Seq(Publication) /\ Len(v7') = m
           /\ \A i \in 1 .. m - 1 :
                /\ i \in DOMAIN v2 /\ v2[i].frozen
                /\ v2'[i] = v2[i] /\ v7'[i] = v7[i]
           /\ v1.published = m - 1
  BY <1>2, <1>6, DraftWritten
<1>8. Kno!Newest' = row /\ Kno!Newest.text' = text /\ Kno!HasDraft'
  BY <1>6, <1>7 DEF Kno!Newest, Kno!HasDraft
<1>9. /\ v1' \in Article /\ v1'.published = m - 1
      /\ v1.version \in Nat /\ v1'.version \in Nat /\ v1.version <= v1'.version
      /\ IF Kno!Assigns(fields) THEN v1'.version # v1.version /\ p.version = v1.version
                                ELSE v1' = v1 /\ v1.status # "in_review"
  <2>1. v1 \in Article /\ v1.published \in Nat /\ v1.version \in Nat
    BY <1>3 DEF ArticleShape, Article
  <2>2. CASE Kno!Assigns(fields)
    <3>1. PICK status \in Status : Kno!Versioned(p, status, v1.published)
      BY <1>2, <2>1, <2>2 DEF Article, Status
    <3>2. /\ p.version = v1.version /\ v1' \in Article /\ v1'.version = v1.version + 1
          /\ v1'.published = v1.published
      BY <1>3, <2>1, <3>1, Bumped
    <3> QED BY <1>7, <2>1, <2>2, <3>2
  <2>3. CASE ~Kno!Assigns(fields)
    BY <1>2, <1>7, <2>1, <2>3 DEF Kno!Assigns
  <2> QED BY <2>2, <2>3
<1>10. v5 \subseteq v5' /\ v5' \subseteq 1 .. MaxTexts
       /\ v6' \subseteq (1 .. MaxTexts) \X (1 .. MaxTexts)
  BY <1>2, <1>3, <1>5 DEF ArticleShape
<1>11. PagesCurrent' /\ v3' \in [Requests -> Page]
  <2>1. v1'.version = v1.version =>
           /\ v1'.status = v1.status
           /\ text = Kno!Newest.text \/ (v1.status # "in_review" /\ text \in v5')
    BY <1>1, <1>2, <1>9
  <2> QED BY <1>2, <1>3, <1>8, <1>9, <1>10, <2>1, PagesStayCurrent DEF ArticleInv, ArticleShape
<1>12. ArticleShape'
  BY <1>2, <1>3, <1>5, <1>7, <1>9, <1>10, <1>11 DEF ArticleShape
<1>13. Kno!EditsAreSeen'
  <2>1. ASSUME NEW e \in v6 PROVE \E x \in v5' : x \in {e[1], e[2]}
    BY <1>10 DEF ArticleInv, Kno!EditsAreSeen
  <2>2. ASSUME writes, Kno!Newest.text # p.text
        PROVE  \E x \in v5' : x \in {Kno!Newest.text, text}
    <3>1. CASE Kno!Assigns(fields)
      <4>1. StillReads(p, v1, Kno!Newest.text, v5)
        BY <1>1 DEF ArticleInv, PagesCurrent
      <4>2. Kno!Newest.text \in v5
        BY <1>2, <1>9, <2>2, <3>1, <4>1 DEF StillReads
      <4> QED BY <1>10, <4>2
    <3>2. CASE ~Kno!Assigns(fields)
      BY <1>2, <2>2, <3>2
    <3> QED BY <3>1, <3>2
  <2>3. ASSUME NEW e \in v6' PROVE \E x \in v5' : x \in {e[1], e[2]}
    <3>1. CASE e \in v6
      BY <2>1, <3>1
    <3>2. CASE e \notin v6
      <4>1. writes /\ Kno!Newest.text # p.text /\ e = <<Kno!Newest.text, text>>
        BY <1>2, <2>3, <3>2
      <4> QED BY <2>2, <4>1
    <3> QED BY <3>1, <3>2
  <2> QED BY <2>3 DEF Kno!EditsAreSeen
<1>14. ASSUME NEW i \in DOMAIN v2', v2'[i].frozen
       PROVE  i \in DOMAIN v2 /\ v2'[i] = v2[i] /\ v7'[i] = v7[i]
  BY <1>6, <1>7, <1>14
<1>15. Kno!PublishedAsRead'
  BY <1>10, <1>14 DEF ArticleInv, Kno!PublishedAsRead
<1>16. Kno!ReviewerDiffers'
  BY <1>14 DEF ArticleInv, Kno!ReviewerDiffers
<1>17. Kno!VersionsInOrder'
  <2>1. v8' = FALSE
    BY <1>2, <1>3 DEF ArticleInv, ArticleShape, Kno!VersionsInOrder
  <2> QED BY <1>7, <1>8, <1>9, <2>1 DEF Kno!VersionsInOrder
<1> QED BY <1>11, <1>12, <1>13, <1>15, <1>16, <1>17 DEF ArticleInv

(* publish: the number compared says what the reviewer has read.           *)
LEMMA PublishKeeps ==
  ASSUME Kno!KnowledgeConstants, ArticleInv, NEW t \in Requests, NEW admin \in BOOLEAN, Kno!Publish(t, admin)
  PROVE  ArticleInv'
<1>1. PICK p : p = v3[t]
  OBVIOUS
<1>2. PICK n \in Nat \ {0} : n = Len(v2)
  BY DEF ArticleInv, ArticleShape
<1>3. PICK row, how : /\ row = [v2[n] EXCEPT !.frozen = TRUE]
                      /\ how = [text |-> p.text, status |-> p.status, by |-> p.by, admin |-> admin]
  OBVIOUS
<1>4. /\ p.at = "read" /\ v1.status # "retired" /\ Kno!HasDraft
      /\ Kno!Newest = v2[n] /\ (v2[n].author = p.by => admin)
      /\ Kno!Versioned(p, "published", n)
      /\ v2' = [v2 EXCEPT ![n] = row] /\ v7' = [v7 EXCEPT ![n] = how]
      /\ v3' = [v3 EXCEPT ![t] = Kno!NoPage]
      /\ UNCHANGED <<v4, v5, v6, v8>>
  BY <1>1, <1>2, <1>3 DEF Kno!Publish, Kno!Newest
<1>5. /\ ArticleShape /\ p \in Page /\ v2[n] \in Version /\ n \in DOMAIN v2
      /\ v7 \in Seq(Publication) /\ Len(v7) = n
  BY <1>1, <1>2 DEF ArticleInv, ArticleShape
<1>6. p.by \in People /\ p.status \in Status /\ p.text \in Nat
  BY <1>4, <1>5 DEF Page, Kno!NoPage
<1>7. row \in Version /\ row.frozen = TRUE /\ row.text = v2[n].text /\ row.author = v2[n].author
  BY <1>3, <1>5 DEF Version
<1>8. how \in Publication /\ how.text = p.text /\ how.status = p.status /\ how.by = p.by /\ how.admin = admin
  BY <1>3, <1>6 DEF Publication
<1>9. /\ v2' \in Seq(Version) /\ Len(v2') = n /\ DOMAIN v2' = DOMAIN v2 /\ v2'[n] = row
      /\ \A i \in DOMAIN v2 : i # n => v2'[i] = v2[i]
  BY <1>2, <1>4, <1>5, <1>7 DEF ArticleShape
<1>10. /\ v7' \in Seq(Publication) /\ Len(v7') = n /\ v7'[n] = how
       /\ \A i \in DOMAIN v2 : i # n => v7'[i] = v7[i]
  BY <1>2, <1>4, <1>5, <1>8 DEF ArticleShape
<1>11. /\ v1' \in Article /\ v1'.published = n /\ p.version = v1.version
       /\ v1.version \in Nat /\ v1'.version = v1.version + 1
  BY <1>4, <1>5, Bumped DEF Status
<1>12. v1'.version \in Nat /\ v1.version <= v1'.version /\ v1'.version # v1.version
  BY <1>11
<1>13. PagesCurrent' /\ v3' \in [Requests -> Page]
  BY <1>4, <1>5, <1>11, <1>12, PagesStayCurrent DEF ArticleInv, ArticleShape
<1>14. ArticleShape'
  BY <1>2, <1>4, <1>5, <1>9, <1>10, <1>11, <1>13 DEF ArticleShape
<1>15. StillReads(p, v1, v2[n].text, v5)
  BY <1>1, <1>4 DEF ArticleInv, PagesCurrent
<1>16. how.text # row.text => how.status # "in_review" /\ row.text \in v5
  BY <1>4, <1>7, <1>8, <1>11, <1>15 DEF StillReads
<1>17. Kno!PublishedAsRead'
  <2>1. ASSUME NEW i \in DOMAIN v2', v2'[i].frozen, v7'[i].text # v2'[i].text
        PROVE  v7'[i].status # "in_review" /\ v2'[i].text \in v5'
    <3>1. CASE i = n
      BY <1>4, <1>9, <1>10, <1>16, <2>1, <3>1
    <3>2. CASE i # n
      BY <1>4, <1>9, <1>10, <2>1, <3>2 DEF ArticleInv, Kno!PublishedAsRead
    <3> QED BY <3>1, <3>2
  <2> QED BY <2>1 DEF Kno!PublishedAsRead
<1>18. Kno!ReviewerDiffers'
  <2>1. ASSUME NEW i \in DOMAIN v2', v2'[i].frozen
        PROVE  v7'[i].by # v2'[i].author \/ v7'[i].admin
    <3>1. CASE i = n
      BY <1>4, <1>7, <1>8, <1>9, <1>10, <3>1
    <3>2. CASE i # n
      BY <1>9, <1>10, <2>1, <3>2 DEF ArticleInv, Kno!ReviewerDiffers
    <3> QED BY <3>1, <3>2
  <2> QED BY <2>1 DEF Kno!ReviewerDiffers
<1>19. Kno!VersionsInOrder'
  <2>1. v8' = FALSE
    BY <1>4, <1>5 DEF ArticleInv, ArticleShape, Kno!VersionsInOrder
  <2>2. ~Kno!HasDraft'
    BY <1>7, <1>9 DEF Kno!HasDraft, Kno!Newest
  <2>3. \A i \in 1 .. n - 1 : v2'[i].frozen
    BY <1>2, <1>5, <1>9 DEF ArticleInv, ArticleShape, Kno!VersionsInOrder
  <2> QED BY <1>9, <1>11, <2>1, <2>2, <2>3 DEF Kno!VersionsInOrder
<1>20. Kno!EditsAreSeen'
  BY <1>4 DEF ArticleInv, Kno!EditsAreSeen
<1> QED BY <1>13, <1>14, <1>17, <1>18, <1>19, <1>20 DEF ArticleInv

(* Every operation of knowledge.module.ts keeps it.                        *)
LEMMA ArticleStep ==
  ASSUME Kno!KnowledgeConstants, ArticleInv, [Kno!KnowledgeNext]_(Kno!articleVars)
  PROVE  ArticleInv'
<1>1. CASE UNCHANGED Kno!articleVars
  BY <1>1 DEF Kno!articleVars, ArticleInv, ArticleShape, PagesCurrent, StillReads, Kno!PublishedAsRead,
              Kno!EditsAreSeen, Kno!ReviewerDiffers, Kno!VersionsInOrder, Kno!HasDraft, Kno!Newest
<1>2. CASE Kno!KnowledgeNext
  BY <1>2, ReadKeeps, LeaveKeeps, UpdateKeeps, SubmitKeeps, PublishKeeps, RetireKeeps DEF Kno!KnowledgeNext
<1> QED BY <1>1, <1>2

(* What everybody who has an article of knowledge.module.ts on a page has   *)
(* read is current as long as the version number they hold is, but for      *)
(* texts written without moving it.                                        *)
THEOREM ArticleInvariant ==
  ASSUME Kno!KnowledgeConstants
  PROVE  Kno!KnowledgeInit /\ [][Kno!KnowledgeNext]_(Kno!articleVars) => []ArticleInv
<1>1. Kno!KnowledgeInit => ArticleInv
  BY ArticleStarts
<1>2. ArticleInv /\ [Kno!KnowledgeNext]_(Kno!articleVars) => ArticleInv'
  BY ArticleStep
<1> QED BY <1>1, <1>2, PTL

(* Whoever edits, submits, publishes and retires, in any order: a reviewer  *)
(* publishes the text they have read (always after a submission), nobody    *)
(* writes over an unread text, both unless an edit of knowledge.module.ts   *)
(* assigned nothing to the article and so escaped the version number; two   *)
(* people have handled what is published, an administrator's own apart; the *)
(* newest frozen version is in force; a retired article stays retired.      *)
THEOREM ArticlesAreReviewed ==
  ASSUME Kno!KnowledgeConstants
  PROVE  Kno!KnowledgeInit /\ [][Kno!KnowledgeNext]_(Kno!articleVars) =>
           [](/\ Kno!KnowledgeTypeOK /\ Kno!PublishedAsRead /\ Kno!EditsAreSeen
              /\ Kno!ReviewerDiffers /\ Kno!VersionsInOrder)
<1>1. ArticleInv => /\ Kno!KnowledgeTypeOK /\ Kno!PublishedAsRead /\ Kno!EditsAreSeen
                    /\ Kno!ReviewerDiffers /\ Kno!VersionsInOrder
  <2> SUFFICES ASSUME ArticleInv PROVE Kno!KnowledgeTypeOK
    BY DEF ArticleInv
  <2>1. ArticleShape /\ Kno!VersionsInOrder
    BY DEF ArticleInv
  <2>2. v1 \in Article /\ v1.published \in 0 .. Len(v2)
    BY <2>1 DEF ArticleShape, Article, Kno!VersionsInOrder
  <2>3. v1 \in [status : Status, version : 1 .. MaxArticleVersion, published : 0 .. Len(v2)]
    BY <2>2 DEF Article
  <2>4. \A t \in Requests : v3[t].at \in {"closed", "read"}
    BY <2>1 DEF ArticleShape, Page, Kno!NoPage
  <2> QED BY <2>1, <2>3, <2>4 DEF ArticleShape, Kno!KnowledgeTypeOK, Status, Version
<1> QED BY <1>1, ArticleInvariant, PTL

-----------------------------------------------------------------------------
(* Out-of-scope work (Sco): v1 the flags, v2 who holds a ticket's row, v3  *)
(* and v4 the allowance and its holder, v5 the record, v6 the requests.    *)

Answers == {"flagged", "withdrawn", "approved", "declined"}
Flag == [scope : {"none", "flagged"} \cup Sco!Decisions, by : People \cup {"system", None},
         version : Nat, detected : BOOLEAN, closed : BOOLEAN]
Event == [event : Answers, by : People \cup {"system"}, seen : Nat, minutes : 0..1]
Holding == {"locked", "period", "ready", "swept"}
ScopeRequest == [op : Answers \cup {"idle", "sweep"}, at : Holding \cup {"start", "seen"},
                 ticket : ScopeTickets \cup {None}, by : People \cup {None}, version : Nat,
                 seen : Nat, minutes : 0..1, period : Nat]

ScopeShape ==
  /\ v1 \in [ScopeTickets -> Flag]
  /\ v2 \in [ScopeTickets -> Requests \cup {None}]
  /\ v3 \in [minutes : Nat, version : Nat]
  /\ v4 \in Requests \cup {None}
  /\ v5 \in [ScopeTickets -> Seq(Event)]
  /\ v6 \in [Requests -> ScopeRequest]

(* What a request is made of at each of its stages.                        *)
RequestFits(r) ==
  /\ r.at = "start" => r = Sco!NoFlag
  /\ r.at # "start" => r.ticket \in ScopeTickets
  /\ r.at = "swept" => r.op = "sweep"
  /\ r.at \notin {"start", "swept"} => r.op \in Answers /\ r.by \in People
  /\ r.at \in {"locked", "period"} => r.minutes = 1

(* The row locks are those of the requests past the lock.                  *)
LocksFit(t) ==
  /\ \A k \in ScopeTickets : v2[k] = t <=> v6[t].at \in Holding /\ v6[t].ticket = k
  /\ v4 = t <=> v6[t].at = "ready" /\ v6[t].minutes = 1

(* While it holds the row a request may still act, and a page of the       *)
(* present version has seen the whole record.                              *)
ActsOn(r) ==
  /\ r.at \in {"locked", "period", "ready"} => Sco!MayAct(r, v1[r.ticket])
  /\ r.at = "swept" => v1[r.ticket].scope = "none" /\ ~v1[r.ticket].detected
  /\ r.at \notin {"start", "swept"} =>
       /\ r.version <= v1[r.ticket].version
       /\ r.version = v1[r.ticket].version => r.seen = Len(v5[r.ticket])

EntryFits(told, i) ==
  /\ told[i].event = "flagged" <=> i % 2 = 1
  /\ told[i].seen = i - 1
  /\ told[i].event \in Sco!Decisions => told[i].by # told[i - 1].by

(* The record of one ticket and its column.                                *)
StoryOf(flag, told) ==
  /\ \A i \in 1 .. Len(told) : EntryFits(told, i)
  /\ flag.scope = IF Len(told) = 0 THEN "none"
                  ELSE IF told[Len(told)].event = "withdrawn" THEN "none" ELSE told[Len(told)].event
  /\ flag.scope = "flagged" => flag.by = told[Len(told)].by
  /\ ~flag.detected => \A i \in 1 .. Len(told) : told[i].by # "system"
  /\ \A i, j \in 1 .. Len(told) : told[i].by = "system" /\ told[j].by = "system" => i = j

ScopeInv ==
  /\ ScopeShape
  /\ \A t \in Requests : RequestFits(v6[t]) /\ LocksFit(t) /\ ActsOn(v6[t])
  /\ \A k \in ScopeTickets : StoryOf(v1[k], v5[k])
  /\ IsFiniteSet(Sco!Granted)
  /\ v3.minutes = Cardinality(Sco!Granted)

-----------------------------------------------------------------------------
(* Steps that leave the tickets, their record and the allowance alone      *)

LEMMA QuietKeepsScope ==
  ASSUME ScopeInv, ScopeShape', UNCHANGED <<v1, v3, v5>>,
         \A t \in Requests : RequestFits(v6'[t]) /\ LocksFit(t)' /\ ActsOn(v6'[t])
  PROVE  ScopeInv'
<1>1. (Sco!Granted)' = Sco!Granted
  BY DEF Sco!Granted
<1>2. \A r : ActsOn(r)' <=> ActsOn(r)
  BY DEF ActsOn
<1> QED BY <1>1, <1>2 DEF ScopeInv, StoryOf

LEMMA ScopeStarts == ASSUME Sco!ScopeInit, Sco!ScopeConstants PROVE ScopeInv
<1> USE DEF Sco!ScopeInit, Sco!NoFlag
<1>1. ScopeShape
  <2>1. \A k \in ScopeTickets : v5[k] \in Seq(Event)
    OBVIOUS
  <2> QED BY <2>1 DEF ScopeShape, Flag, ScopeRequest
<1>2. ASSUME NEW t \in Requests PROVE RequestFits(v6[t]) /\ LocksFit(t) /\ ActsOn(v6[t])
  BY DEF RequestFits, LocksFit, ActsOn, Sco!ScopeConstants, Holding
<1>3. ASSUME NEW k \in ScopeTickets PROVE StoryOf(v1[k], v5[k])
  BY DEF StoryOf
<1>4. Sco!Granted = {}
  BY DEF Sco!Granted
<1>5. IsFiniteSet({}) /\ Cardinality({}) = 0
  BY FS_EmptySet
<1> QED BY <1>1, <1>2, <1>3, <1>4, <1>5 DEF ScopeInv

LEMMA SeeKeeps ==
  ASSUME ScopeInv, Sco!ScopeConstants, NEW t \in Requests, Sco!SeeTicket(t) PROVE ScopeInv'
<1>1. PICK k \in ScopeTickets, by \in People, op \in {"flagged", "withdrawn", "approved", "declined"},
           minutes \in 0..1 :
        /\ minutes > 0 => op = "approved"
        /\ (op = "flagged") # (v1[k].scope = "flagged")
        /\ v6' = [v6 EXCEPT ![t] =
             [Sco!NoFlag EXCEPT !.op = op, !.at = "seen", !.ticket = k, !.by = by,
                !.version = v1[k].version, !.seen = Sco!Told(k), !.minutes = minutes]]
  BY DEF Sco!SeeTicket
<1>2. UNCHANGED <<v1, v2, v3, v4, v5>> /\ v6[t] = Sco!NoFlag
  BY DEF Sco!SeeTicket
<1>3. v1[k].version \in Nat /\ Sco!Told(k) = Len(v5[k]) /\ Len(v5[k]) \in Nat /\ op \in Answers
  BY DEF ScopeInv, ScopeShape, Flag, Answers, Sco!Told
<1>4. PICK r : r = [Sco!NoFlag EXCEPT !.op = op, !.at = "seen", !.ticket = k, !.by = by,
                      !.version = v1[k].version, !.seen = Sco!Told(k), !.minutes = minutes]
  OBVIOUS
<1>5. r \in ScopeRequest
  BY <1>3, <1>4 DEF Sco!NoFlag, ScopeRequest, Holding
<1>6. r.at = "seen" /\ r.op \in Answers /\ r.ticket = k /\ r.by = by /\ r.version = v1[k].version /\ r.seen = Len(v5[k])
  BY <1>3, <1>4 DEF Sco!NoFlag
<1>7. v6' = [v6 EXCEPT ![t] = r]
  BY <1>1, <1>4
<1>8. ScopeShape'
  BY <1>2, <1>5, <1>7 DEF ScopeInv, ScopeShape
<1>9. ASSUME NEW u \in Requests PROVE RequestFits(v6'[u]) /\ LocksFit(u)' /\ ActsOn(v6'[u])
  <2>0. RequestFits(v6[u]) /\ LocksFit(u) /\ ActsOn(v6[u])
    BY DEF ScopeInv
  <2>1. CASE u = t
    <3>1. v6'[t] = r
      BY <1>7 DEF ScopeInv, ScopeShape
    <3>2. RequestFits(r) /\ ActsOn(r)
      BY <1>3, <1>6 DEF RequestFits, ActsOn
    <3>3. LocksFit(t)'
      BY <1>2, <1>6, <2>0, <2>1, <3>1 DEF LocksFit, Holding, Sco!NoFlag
    <3> QED BY <2>1, <3>1, <3>2, <3>3
  <2>2. CASE u # t
    BY <1>2, <1>7, <2>0, <2>2 DEF ScopeInv, ScopeShape, RequestFits, LocksFit, ActsOn
  <2> QED BY <2>1, <2>2
<1> QED BY <1>2, <1>8, <1>9, QuietKeepsScope

LEMMA LockKeeps ==
  ASSUME ScopeInv, Sco!ScopeConstants, NEW t \in Requests, Sco!LockTicket(t) PROVE ScopeInv'
<1>1. PICK at \in {"locked", "ready"} :
        /\ at = (IF v6[t].minutes > 0 THEN "locked" ELSE "ready")
        /\ v6' = [v6 EXCEPT ![t].at = at]
  BY DEF Sco!LockTicket
<1>2. /\ UNCHANGED <<v1, v3, v4, v5>> /\ v6[t].at = "seen" /\ v2[v6[t].ticket] = None
      /\ v2' = [v2 EXCEPT ![v6[t].ticket] = t] /\ Sco!MayAct(v6[t], v1[v6[t].ticket])
  BY DEF Sco!LockTicket
<1>3. v6[t] \in ScopeRequest /\ v6[t].ticket \in ScopeTickets /\ RequestFits(v6[t]) /\ LocksFit(t) /\ ActsOn(v6[t])
  BY <1>2 DEF ScopeInv, ScopeShape, RequestFits
<1>4. v6'[t] = [v6[t] EXCEPT !.at = at]
  BY <1>1 DEF ScopeInv, ScopeShape
<1>5. ScopeShape'
  BY <1>1, <1>2, <1>3 DEF ScopeInv, ScopeShape, ScopeRequest, Holding
<1>6. ASSUME NEW u \in Requests PROVE RequestFits(v6'[u]) /\ LocksFit(u)' /\ ActsOn(v6'[u])
  <2>1. CASE u = t
    <3>1. RequestFits(v6'[t])
      BY <1>1, <1>2, <1>3, <1>4 DEF RequestFits, ScopeRequest
    <3>2. LocksFit(t)'
      BY <1>1, <1>2, <1>3, <1>4 DEF ScopeInv, ScopeShape, LocksFit, Holding, ScopeRequest
    <3>3. ActsOn(v6'[t])
      BY <1>1, <1>2, <1>3, <1>4 DEF ActsOn, ScopeRequest, Sco!MayAct
    <3> QED BY <2>1, <3>1, <3>2, <3>3
  <2>2. CASE u # t
    BY <1>1, <1>2, <1>3, <2>2 DEF ScopeInv, ScopeShape, RequestFits, LocksFit, ActsOn, Sco!ScopeConstants
  <2> QED BY <2>1, <2>2
<1> QED BY <1>2, <1>5, <1>6, QuietKeepsScope

LEMMA ReadAllowanceKeeps ==
  ASSUME ScopeInv, Sco!ScopeConstants, NEW t \in Requests, Sco!ReadAllowance(t) PROVE ScopeInv'
<1>1. /\ UNCHANGED <<v1, v2, v3, v4, v5>> /\ v6[t].at = "locked"
      /\ v6' = [v6 EXCEPT ![t].at = "period", ![t].period = v3.version]
  BY DEF Sco!ReadAllowance
<1>2. v6[t] \in ScopeRequest /\ v3.version \in Nat
  BY DEF ScopeInv, ScopeShape
<1>3. PICK r \in ScopeRequest :
        /\ v6' = [v6 EXCEPT ![t] = r] /\ r.at = "period" /\ r.op = v6[t].op /\ r.ticket = v6[t].ticket
        /\ r.by = v6[t].by /\ r.version = v6[t].version /\ r.seen = v6[t].seen /\ r.minutes = v6[t].minutes
  <2>1. PICK q : q = [v6[t] EXCEPT !.at = "period", !.period = v3.version]
    OBVIOUS
  <2>2. q \in ScopeRequest
    BY <1>2, <2>1 DEF ScopeRequest, Holding
  <2>3. /\ q.at = "period" /\ q.op = v6[t].op /\ q.ticket = v6[t].ticket /\ q.by = v6[t].by
        /\ q.version = v6[t].version /\ q.seen = v6[t].seen /\ q.minutes = v6[t].minutes
    BY <1>2, <2>1 DEF ScopeRequest
  <2>4. v6' = [v6 EXCEPT ![t] = q]
    BY <1>1, <2>1 DEF ScopeInv, ScopeShape
  <2> QED BY <2>2, <2>3, <2>4
<1>4. ScopeShape' /\ v6'[t] = r
  BY <1>1, <1>3 DEF ScopeInv, ScopeShape
<1>5. ASSUME NEW u \in Requests PROVE RequestFits(v6'[u]) /\ LocksFit(u)' /\ ActsOn(v6'[u])
  <2>1. CASE u = t
    <3>1. RequestFits(v6[t]) /\ LocksFit(t) /\ ActsOn(v6[t])
      BY DEF ScopeInv
    <3>2. RequestFits(v6'[t]) /\ LocksFit(t)'
      BY <1>1, <1>2, <1>3, <1>4, <3>1 DEF RequestFits, LocksFit, Holding
    <3>3. ActsOn(v6'[t])
      BY <1>1, <1>2, <1>3, <1>4, <3>1 DEF ActsOn, Sco!MayAct
    <3> QED BY <2>1, <3>2, <3>3
  <2>2. CASE u # t
    BY <1>1, <2>2 DEF ScopeInv, ScopeShape, RequestFits, LocksFit, ActsOn
  <2> QED BY <2>1, <2>2
<1> QED BY <1>1, <1>4, <1>5, QuietKeepsScope

LEMMA AddMinutesKeeps ==
  ASSUME ScopeInv, Sco!ScopeConstants, NEW t \in Requests, Sco!AddCarriedOverMinutes(t) PROVE ScopeInv'
<1>1. /\ UNCHANGED <<v1, v2, v3, v5>> /\ v6[t].at = "period" /\ v4 = None /\ v4' = t
      /\ v6' = [v6 EXCEPT ![t].at = "ready"]
  BY DEF Sco!AddCarriedOverMinutes
<1>2. v6[t] \in ScopeRequest
  BY DEF ScopeInv, ScopeShape
<1>3. v6'[t] = [v6[t] EXCEPT !.at = "ready"]
  BY <1>1 DEF ScopeInv, ScopeShape
<1>4. ScopeShape'
  BY <1>1, <1>2, <1>3 DEF ScopeInv, ScopeShape, ScopeRequest, Holding
<1>5. ASSUME NEW u \in Requests PROVE RequestFits(v6'[u]) /\ LocksFit(u)' /\ ActsOn(v6'[u])
  <2>0. RequestFits(v6[u]) /\ LocksFit(u) /\ ActsOn(v6[u])
    BY DEF ScopeInv
  <2>1. CASE u = t
    <3>2. RequestFits(v6'[t]) /\ LocksFit(t)'
      BY <1>1, <1>2, <1>3, <2>0, <2>1 DEF RequestFits, LocksFit, Holding, ScopeRequest
    <3>3. ActsOn(v6'[t])
      BY <1>1, <1>2, <1>3, <2>0, <2>1 DEF ActsOn, ScopeRequest, Sco!MayAct
    <3> QED BY <2>1, <3>2, <3>3
  <2>2. CASE u # t
    BY <1>1, <2>0, <2>2 DEF ScopeInv, ScopeShape, RequestFits, LocksFit, ActsOn, Sco!ScopeConstants
  <2> QED BY <2>1, <2>2
<1> QED BY <1>1, <1>4, <1>5, QuietKeepsScope

LEMMA SweepKeeps ==
  ASSUME ScopeInv, Sco!ScopeConstants, NEW t \in Requests, Sco!Sweep(t) PROVE ScopeInv'
<1>0. PICK k \in ScopeTickets :
        /\ Sco!Candidate(k) /\ v2' = [v2 EXCEPT ![k] = t]
        /\ v6' = [v6 EXCEPT ![t] = [Sco!NoFlag EXCEPT !.op = "sweep", !.at = "swept", !.ticket = k]]
  BY DEF Sco!Sweep
<1>1. /\ Sco!Candidate(k) /\ v2' = [v2 EXCEPT ![k] = t]
      /\ v6' = [v6 EXCEPT ![t] =
           [op |-> "sweep", at |-> "swept", ticket |-> k, by |-> None, version |-> 0, seen |-> 0,
            minutes |-> 0, period |-> 0]]
  <2>1. PICK q : q = [Sco!NoFlag EXCEPT !.op = "sweep", !.at = "swept", !.ticket = k]
    OBVIOUS
  <2>2. q = [op |-> "sweep", at |-> "swept", ticket |-> k, by |-> None, version |-> 0, seen |-> 0,
             minutes |-> 0, period |-> 0]
    BY <2>1 DEF Sco!NoFlag
  <2>3. v6' = [v6 EXCEPT ![t] = q]
    BY <1>0, <2>1
  <2> QED BY <1>0, <2>2, <2>3
<1>2. UNCHANGED <<v1, v3, v4, v5>> /\ v6[t] = Sco!NoFlag
  BY DEF Sco!Sweep
<1>3. v2[k] = None /\ v1[k].scope = "none" /\ ~v1[k].detected
  BY <1>1 DEF Sco!Candidate
<1>4. ScopeShape'
  BY <1>1, <1>2 DEF ScopeInv, ScopeShape, ScopeRequest, Holding
<1>5. ASSUME NEW u \in Requests PROVE RequestFits(v6'[u]) /\ LocksFit(u)' /\ ActsOn(v6'[u])
  <2>0. RequestFits(v6[u]) /\ LocksFit(u) /\ ActsOn(v6[u])
    BY DEF ScopeInv
  <2>1. CASE u = t
    BY <1>1, <1>2, <1>3, <2>0, <2>1
       DEF ScopeInv, ScopeShape, RequestFits, LocksFit, ActsOn, Holding, Sco!NoFlag
  <2>2. CASE u # t
    BY <1>1, <1>2, <1>3, <2>0, <2>2 DEF ScopeInv, ScopeShape, RequestFits, LocksFit, ActsOn, Sco!ScopeConstants
  <2> QED BY <2>1, <2>2
<1> QED BY <1>2, <1>4, <1>5, QuietKeepsScope

LEMMA AbortScopeKeeps ==
  ASSUME ScopeInv, Sco!ScopeConstants, NEW t \in Requests, Sco!AbortScope(t) PROVE ScopeInv'
<1>1. /\ UNCHANGED <<v1, v3, v5>> /\ v6' = [v6 EXCEPT ![t] = Sco!NoFlag]
      /\ v2' = [k \in ScopeTickets |-> IF v2[k] = t THEN None ELSE v2[k]]
      /\ v4' = IF v4 = t THEN None ELSE v4
  BY DEF Sco!AbortScope
<1>4. ScopeShape'
  BY <1>1 DEF ScopeInv, ScopeShape, ScopeRequest, Sco!NoFlag
<1>5. ASSUME NEW u \in Requests PROVE RequestFits(v6'[u]) /\ LocksFit(u)' /\ ActsOn(v6'[u])
  <2>0. RequestFits(v6[u]) /\ LocksFit(u) /\ ActsOn(v6[u])
    BY DEF ScopeInv
  <2>1. CASE u = t
    BY <1>1, <2>0, <2>1
       DEF ScopeInv, ScopeShape, RequestFits, LocksFit, ActsOn, Holding, Sco!NoFlag, Sco!ScopeConstants
  <2>2. CASE u # t
    BY <1>1, <2>0, <2>2 DEF ScopeInv, ScopeShape, RequestFits, LocksFit, ActsOn, Sco!ScopeConstants
  <2> QED BY <2>1, <2>2
<1> QED BY <1>1, <1>4, <1>5, QuietKeepsScope

-----------------------------------------------------------------------------
(* Steps that write a ticket                                               *)

(* One more entry, of somebody who may act on where the story stands.      *)
LEMMA StoryGrows ==
  ASSUME NEW flag, NEW next, NEW told \in Seq(Event), NEW e \in Event, StoryOf(flag, told),
         e.seen = Len(told),
         e.event = "flagged" <=> flag.scope # "flagged",
         e.event \in Sco!Decisions => e.by # flag.by,
         e.by = "system" => ~flag.detected,
         next.scope = IF e.event = "withdrawn" THEN "none" ELSE e.event,
         next.scope = "flagged" => next.by = e.by,
         ~next.detected => ~flag.detected /\ e.by # "system"
  PROVE  StoryOf(next, Append(told, e))
<1>1. PICK n, longer :
        /\ n \in Nat /\ n = Len(told) /\ longer = Append(told, e) /\ Len(longer) = n + 1 /\ longer[n + 1] = e
        /\ \A i \in 1 .. n : longer[i] = told[i]
  <2>1. /\ Len(told) \in Nat /\ Len(Append(told, e)) = Len(told) + 1
        /\ Append(told, e)[Len(told) + 1] = e
        /\ \A i \in 1 .. Len(told) : Append(told, e)[i] = told[i]
    OBVIOUS
  <2> QED BY <2>1
<1>2. n % 2 = 1 <=> flag.scope = "flagged"
  <2>1. CASE n = 0
    BY <1>1, <2>1 DEF StoryOf
  <2>2. CASE n # 0
    <3>1. n \in 1 .. n
      BY <1>1, <2>2
    <3>2. told[n].event = "flagged" <=> n % 2 = 1
      BY <1>1, <3>1 DEF StoryOf, EntryFits
    <3>3. flag.scope = IF told[n].event = "withdrawn" THEN "none" ELSE told[n].event
      BY <1>1, <2>2 DEF StoryOf
    <3> QED BY <3>2, <3>3
  <2> QED BY <2>1, <2>2
<1>3. (n + 1) % 2 = 1 <=> ~(n % 2 = 1)
  BY <1>1
<1>4. ASSUME NEW i \in 1 .. n + 1
      PROVE  EntryFits(longer, i)
  <2>1. CASE i \in 1 .. n
    <3>1. EntryFits(told, i)
      BY <1>1, <2>1 DEF StoryOf
    <3>2. CASE i = 1
      BY <1>1, <2>1, <3>1, <3>2 DEF Sco!Decisions, EntryFits
    <3>3. CASE i # 1
      <4>1. i - 1 \in 1 .. n
        BY <1>1, <2>1, <3>3
      <4>2. longer[i - 1] = told[i - 1] /\ longer[i] = told[i]
        BY <1>1, <2>1, <4>1
      <4> QED BY <3>1, <4>2 DEF EntryFits
    <3> QED BY <3>2, <3>3
  <2>2. CASE i = n + 1
    <3>1. longer[i] = e
      BY <1>1, <2>2
    <3>2. e.event \in Sco!Decisions => n \in 1 .. n /\ flag.by = told[n].by
      <4>1. e.event \in Sco!Decisions => flag.scope = "flagged"
        BY DEF Sco!Decisions
      <4>2. flag.scope = "flagged" => n # 0 /\ flag.by = told[n].by
        BY <1>1 DEF StoryOf
      <4> QED BY <1>1, <4>1, <4>2
    <3>3. longer[i].event \in Sco!Decisions => longer[i].by # longer[i - 1].by
      BY <1>1, <2>2, <3>1, <3>2
    <3>4. longer[i].event = "flagged" <=> i % 2 = 1
      BY <1>2, <1>3, <2>2, <3>1
    <3>5. longer[i].seen = i - 1
      BY <1>1, <2>2, <3>1
    <3> QED BY <3>3, <3>4, <3>5 DEF EntryFits
  <2>3. i \in 1 .. n \/ i = n + 1
    BY <1>1
  <2> QED BY <2>1, <2>2, <2>3
<1>5. ~next.detected => \A i \in 1 .. n + 1 : longer[i].by # "system"
  BY <1>1 DEF StoryOf
<1>6. \A i, j \in 1 .. n + 1 :
        longer[i].by = "system" /\ longer[j].by = "system" => i = j
  <2>1. e.by = "system" => \A i \in 1 .. n : told[i].by # "system"
    BY <1>1 DEF StoryOf
  <2>2. \A i, j \in 1 .. n : told[i].by = "system" /\ told[j].by = "system" => i = j
    BY <1>1 DEF StoryOf
  <2>3. \A i \in 1 .. n + 1 : i \in 1 .. n \/ i = n + 1
    BY <1>1
  <2> QED BY <1>1, <2>1, <2>2, <2>3
<1>7. n + 1 # 0
  BY <1>1
<1>8. next.scope = IF longer[n + 1].event = "withdrawn" THEN "none" ELSE longer[n + 1].event
  BY <1>1
<1>9. next.scope = "flagged" => next.by = longer[n + 1].by
  BY <1>1
<1>10. StoryOf(next, longer)
  BY <1>1, <1>4, <1>5, <1>6, <1>7, <1>8, <1>9 DEF StoryOf
<1> QED BY <1>1, <1>10

(* The granted approvals, when the record of k grows by e.                 *)
LEMMA GrantedGrows ==
  ASSUME ScopeShape, NEW k \in ScopeTickets, NEW e \in Event,
         v5' = [v5 EXCEPT ![k] = Append(v5[k], e)],
         IsFiniteSet(Sco!Granted)
  PROVE  /\ IsFiniteSet(Sco!Granted')
         /\ Cardinality(Sco!Granted') = Cardinality(Sco!Granted) + e.minutes
<1> DEFINE n == Len(v5[k])
<1> DEFINE now == <<k, n + 1>>
<1>0. v5[k] \in Seq(Event) /\ e.minutes \in 0..1
  BY DEF ScopeShape, Event
<1>1. n \in Nat /\ v5[k] \in Seq(Event) /\ e.minutes \in 0..1
  BY <1>0
<1>2. /\ \A m \in ScopeTickets : v5'[m] = IF m = k THEN Append(v5[k], e) ELSE v5[m]
      /\ DOMAIN v5'[k] = 1 .. n + 1 /\ DOMAIN v5[k] = 1 .. n
      /\ v5'[k][n + 1] = e /\ \A i \in 1 .. n : v5'[k][i] = v5[k][i]
  BY <1>1 DEF ScopeShape
<1>3. \A p : p \in Sco!Granted <=>
        \E m \in ScopeTickets : \E i \in DOMAIN v5[m] : p = <<m, i>> /\ v5[m][i].minutes = 1
  BY DEF Sco!Granted
<1>4. \A p : p \in Sco!Granted' <=>
        \E m \in ScopeTickets : \E i \in DOMAIN v5'[m] : p = <<m, i>> /\ v5'[m][i].minutes = 1
  BY DEF Sco!Granted
<1>5. now \notin Sco!Granted
  BY <1>1, <1>2, <1>3
<1>6. CASE e.minutes = 1
  <2>1. Sco!Granted' = Sco!Granted \cup {now}
    <3>1. ASSUME NEW p \in Sco!Granted' PROVE p \in Sco!Granted \cup {now}
      <4>1. PICK m \in ScopeTickets : \E i \in DOMAIN v5'[m] : p = <<m, i>> /\ v5'[m][i].minutes = 1
        BY <1>4
      <4> QED BY <1>1, <1>2, <1>3, <4>1
    <3>2. ASSUME NEW p \in Sco!Granted PROVE p \in Sco!Granted'
      <4>1. PICK m \in ScopeTickets : \E i \in DOMAIN v5[m] : p = <<m, i>> /\ v5[m][i].minutes = 1
        BY <1>3
      <4> QED BY <1>1, <1>2, <1>4, <4>1
    <3>3. now \in Sco!Granted'
      BY <1>1, <1>2, <1>4, <1>6
    <3> QED BY <3>1, <3>2, <3>3
  <2> QED BY <1>5, <1>6, <2>1, FS_AddElement
<1>7. CASE e.minutes = 0
  <2>1. Sco!Granted' = Sco!Granted
    <3>1. ASSUME NEW p \in Sco!Granted' PROVE p \in Sco!Granted
      <4>1. PICK m \in ScopeTickets : \E i \in DOMAIN v5'[m] : p = <<m, i>> /\ v5'[m][i].minutes = 1
        BY <1>4
      <4> QED BY <1>1, <1>2, <1>3, <1>7, <4>1
    <3>2. ASSUME NEW p \in Sco!Granted PROVE p \in Sco!Granted'
      <4>1. PICK m \in ScopeTickets : \E i \in DOMAIN v5[m] : p = <<m, i>> /\ v5[m][i].minutes = 1
        BY <1>3
      <4> QED BY <1>1, <1>2, <1>4, <4>1
    <3> QED BY <3>1, <3>2
  <2> QED BY <1>7, <2>1, FS_CardinalityType
<1> QED BY <1>1, <1>6, <1>7

(* The requests of other transactions, when t writes ticket k.             *)
LEMMA OtherRequestsFit ==
  ASSUME ScopeInv, NEW t \in Requests, NEW u \in Requests, u # t, NEW k \in ScopeTickets, v2[k] = t,
         NEW flag, v1' = [v1 EXCEPT ![k] = flag], flag.version = v1[k].version + 1,
         \A m \in ScopeTickets : m # k => v5'[m] = v5[m],
         v2' = [v2 EXCEPT ![k] = None], None \notin Requests,
         v6' = [v6 EXCEPT ![t] = Sco!NoFlag],
         v4' = v4 \/ (v4' = None /\ v4 = t)
  PROVE  RequestFits(v6'[u]) /\ LocksFit(u)' /\ ActsOn(v6[u])'
<1>1. RequestFits(v6[u]) /\ LocksFit(u) /\ ActsOn(v6[u]) /\ v6'[u] = v6[u] /\ v6[u] \in ScopeRequest
  BY DEF ScopeInv, ScopeShape
<1>2. LocksFit(u)'
  BY <1>1 DEF ScopeInv, ScopeShape, LocksFit
<1>3. v1[k].version \in Nat /\ v6[u].version \in Nat
  BY <1>1 DEF ScopeInv, ScopeShape, Flag, ScopeRequest
<1>4. v6[u].ticket = k => v6[u].at \in {"start", "seen"}
  BY <1>1 DEF LocksFit, Holding, ScopeRequest
<1>5. CASE v6[u].ticket = k /\ v6[u].at # "start"
  <2>1. v6[u].at = "seen" /\ v6[u].version <= v1[k].version /\ v1'[k].version = v1[k].version + 1
    BY <1>1, <1>4, <1>5 DEF ActsOn, ScopeInv, ScopeShape
  <2> QED BY <1>1, <1>2, <1>3, <1>5, <2>1 DEF ActsOn
<1>6. CASE v6[u].ticket # k /\ v6[u].at # "start"
  <2>1. /\ v6[u].ticket \in ScopeTickets /\ v1'[v6[u].ticket] = v1[v6[u].ticket]
        /\ v5'[v6[u].ticket] = v5[v6[u].ticket]
    BY <1>1, <1>6 DEF RequestFits, ScopeInv, ScopeShape
  <2> QED BY <1>1, <1>2, <2>1 DEF ActsOn, Sco!MayAct
<1>7. CASE v6[u].at = "start"
  BY <1>1, <1>2, <1>7 DEF ActsOn
<1> QED BY <1>5, <1>6, <1>7

LEMMA CommitScopeKeeps ==
  ASSUME ScopeInv, Sco!ScopeConstants, NEW t \in Requests, Sco!CommitScope(t) PROVE ScopeInv'
<1> DEFINE r == v6[t]
<1> DEFINE k == v6[t].ticket
<1>1. /\ r.at = "ready" /\ r.version = v1[k].version
      /\ v1' = [v1 EXCEPT ![k] = Sco!Answered(v1[k], r)]
      /\ v5' = [v5 EXCEPT ![k] = Append(v5[k], [event |-> r.op, by |-> r.by, seen |-> r.seen, minutes |-> r.minutes])]
      /\ v3' = IF v4 = t THEN [minutes |-> v3.minutes + r.minutes, version |-> v3.version + 1] ELSE v3
      /\ v4' = IF v4 = t THEN None ELSE v4
      /\ v2' = [v2 EXCEPT ![k] = None]
      /\ v6' = [v6 EXCEPT ![t] = Sco!NoFlag]
  BY DEF Sco!CommitScope, Sco!Fresh
<1>2. r \in ScopeRequest /\ RequestFits(r) /\ LocksFit(t) /\ ActsOn(r)
  BY DEF ScopeInv, ScopeShape
<1>3. k \in ScopeTickets /\ r.op \in Answers /\ r.by \in People /\ r.minutes \in 0..1 /\ r.seen \in Nat
  BY <1>1, <1>2 DEF RequestFits, ScopeRequest
<1>4. v2[k] = t /\ (v4 = t <=> r.minutes = 1) /\ Sco!MayAct(r, v1[k]) /\ r.seen = Len(v5[k])
  BY <1>1, <1>2, <1>3 DEF LocksFit, ActsOn, Holding
<1>5. v1[k] \in Flag /\ v5[k] \in Seq(Event) /\ v3 \in [minutes : Nat, version : Nat]
  BY <1>3 DEF ScopeInv, ScopeShape
<1>6. PICK e \in Event :
        /\ e = [event |-> r.op, by |-> r.by, seen |-> r.seen, minutes |-> r.minutes]
        /\ e.event = r.op /\ e.by = r.by /\ e.seen = r.seen /\ e.minutes = r.minutes
  <2>1. [event |-> r.op, by |-> r.by, seen |-> r.seen, minutes |-> r.minutes] \in Event
    BY <1>3 DEF Event
  <2> QED BY <2>1
<1>7. PICK flag \in Flag :
        /\ flag = Sco!Answered(v1[k], r) /\ flag.version = v1[k].version + 1
        /\ flag.scope = (IF r.op = "withdrawn" THEN "none" ELSE r.op)
        /\ flag.by = (IF r.op = "flagged" THEN r.by ELSE v1[k].by) /\ flag.detected = v1[k].detected
  <2>0. PICK n \in Nat, scope \in {"none", "flagged"} \cup Sco!Decisions, by \in People \cup {"system", None} :
          /\ n = v1[k].version + 1 /\ scope = (IF r.op = "withdrawn" THEN "none" ELSE r.op)
          /\ by = (IF r.op = "flagged" THEN r.by ELSE v1[k].by)
    BY <1>3, <1>5 DEF Flag, Answers, Sco!Decisions
  <2>1. PICK flag : flag = [v1[k] EXCEPT !.scope = scope, !.version = n, !.by = by]
    OBVIOUS
  <2>2. flag \in Flag
    BY <1>5, <2>1 DEF Flag
  <2>3. /\ flag.version = v1[k].version + 1 /\ flag.detected = v1[k].detected
        /\ flag.scope = (IF r.op = "withdrawn" THEN "none" ELSE r.op)
        /\ flag.by = (IF r.op = "flagged" THEN r.by ELSE v1[k].by)
    BY <1>5, <2>0, <2>1 DEF Flag
  <2>4. flag = Sco!Answered(v1[k], r)
    BY <1>5, <2>0, <2>1 DEF Sco!Answered, Flag
  <2> QED BY <2>2, <2>3, <2>4
<1>8. v1' = [v1 EXCEPT ![k] = flag] /\ v5' = [v5 EXCEPT ![k] = Append(v5[k], e)]
  BY <1>1, <1>6, <1>7
<1> HIDE DEF r, k
<1>9. ScopeShape'
  <2>1. v3' \in [minutes : Nat, version : Nat]
    BY <1>1, <1>3, <1>5
  <2>2. Append(v5[k], e) \in Seq(Event)
    BY <1>5, <1>6
  <2>3. Sco!NoFlag \in ScopeRequest
    BY DEF Sco!NoFlag, ScopeRequest
  <2> QED BY <1>1, <1>3, <1>8, <2>1, <2>2, <2>3 DEF ScopeInv, ScopeShape
<1>10. ASSUME NEW u \in Requests PROVE RequestFits(v6'[u]) /\ LocksFit(u)' /\ ActsOn(v6[u])'
  <2>1. CASE u = t
    <3>1. v6'[t] = Sco!NoFlag
      BY <1>1 DEF ScopeInv, ScopeShape
    <3>2. LocksFit(t)'
      BY <1>1, <1>2, <1>3, <1>4, <3>1 DEF ScopeInv, ScopeShape, LocksFit, Holding, Sco!NoFlag, Sco!ScopeConstants, k, r
    <3> QED BY <2>1, <3>1, <3>2 DEF RequestFits, ActsOn, Sco!NoFlag
  <2>2. CASE u # t
    <3>1. \A m \in ScopeTickets : m # k => v5'[m] = v5[m]
      BY <1>8 DEF ScopeInv, ScopeShape
    <3>2. v4' = v4 \/ (v4' = None /\ v4 = t)
      BY <1>1
    <3>3. v2' = [v2 EXCEPT ![k] = None] /\ v6' = [v6 EXCEPT ![t] = Sco!NoFlag] /\ None \notin Requests
      BY <1>1 DEF Sco!ScopeConstants
    <3>4. k \in ScopeTickets /\ v2[k] = t /\ v1' = [v1 EXCEPT ![k] = flag] /\ flag.version = v1[k].version + 1
      BY <1>3, <1>4, <1>7, <1>8
    <3> QED BY <2>2, <3>1, <3>2, <3>3, <3>4, OtherRequestsFit
  <2> QED BY <2>1, <2>2
<1>11. ASSUME NEW m \in ScopeTickets PROVE StoryOf(v1[m], v5[m])'
  <2>1. CASE m = k
    <3>1. v1'[k] = flag /\ v5'[k] = Append(v5[k], e) /\ StoryOf(v1[k], v5[k])
      BY <1>3, <1>8 DEF ScopeInv, ScopeShape
    <3>2. e.event = "flagged" <=> v1[k].scope # "flagged"
      BY <1>3, <1>4, <1>6 DEF Sco!MayAct, Answers
    <3>3. e.event \in Sco!Decisions => e.by # v1[k].by
      BY <1>3, <1>4, <1>6 DEF Sco!MayAct, Sco!Decisions
    <3>4. e.by # "system"
      BY <1>3, <1>6 DEF Sco!ScopeConstants
    <3>5. flag.scope = IF e.event = "withdrawn" THEN "none" ELSE e.event
      BY <1>6, <1>7
    <3>6. flag.scope = "flagged" => flag.by = e.by
      BY <1>6, <1>7
    <3>7. ~flag.detected => ~v1[k].detected /\ e.by # "system"
      BY <1>7, <3>4
    <3>8. StoryOf(flag, Append(v5[k], e))
      BY <1>4, <1>5, <1>6, <3>1, <3>2, <3>3, <3>4, <3>5, <3>6, <3>7, StoryGrows
    <3> QED BY <2>1, <3>1, <3>8
  <2>2. CASE m # k
    BY <1>8, <2>2 DEF ScopeInv, ScopeShape
  <2> QED BY <2>1, <2>2
<1>12. IsFiniteSet(Sco!Granted') /\ Cardinality(Sco!Granted') = Cardinality(Sco!Granted) + e.minutes
  BY <1>3, <1>6, <1>8, GrantedGrows DEF ScopeInv
<1>13. v3'.minutes = v3.minutes + e.minutes
  BY <1>1, <1>3, <1>4, <1>5, <1>6
<1> QED BY <1>9, <1>10, <1>11, <1>12, <1>13 DEF ScopeInv

LEMMA RaiseKeeps ==
  ASSUME ScopeInv, Sco!ScopeConstants, NEW t \in Requests, Sco!Raise(t) PROVE ScopeInv'
<1>1. PICK k : k = v6[t].ticket
  OBVIOUS
<1>2. v6[t] \in ScopeRequest /\ RequestFits(v6[t]) /\ LocksFit(t) /\ ActsOn(v6[t]) /\ v6[t].at = "swept"
  BY DEF ScopeInv, ScopeShape, Sco!Raise
<1>3. k \in ScopeTickets /\ v2[k] = t /\ v4 # t /\ v1[k].scope = "none" /\ ~v1[k].detected
  BY <1>1, <1>2 DEF RequestFits, LocksFit, ActsOn, Holding
<1>5. v1[k] \in Flag /\ v5[k] \in Seq(Event)
  BY <1>3 DEF ScopeInv, ScopeShape
<1>6. PICK e \in Event :
        /\ e = [event |-> "flagged", by |-> "system", seen |-> Len(v5[k]), minutes |-> 0]
        /\ e.event = "flagged" /\ e.by = "system" /\ e.seen = Len(v5[k]) /\ e.minutes = 0
  <2>1. Len(v5[k]) \in Nat
    BY <1>5
  <2>2. [event |-> "flagged", by |-> "system", seen |-> Len(v5[k]), minutes |-> 0] \in Event
    BY <2>1 DEF Event, Answers
  <2> QED BY <2>2
<1>7. PICK flag \in Flag :
        /\ flag = Sco!Detected(v1[k])
        /\ flag.version = v1[k].version + 1 /\ flag.scope = "flagged" /\ flag.by = "system" /\ flag.detected
  <2>0. PICK n \in Nat : n = v1[k].version + 1
    BY <1>5 DEF Flag
  <2>1. PICK flag : flag = [v1[k] EXCEPT !.scope = "flagged", !.by = "system", !.detected = TRUE, !.version = n]
    OBVIOUS
  <2>2. flag \in Flag
    BY <1>5, <2>1 DEF Flag
  <2>3. flag.version = v1[k].version + 1 /\ flag.scope = "flagged" /\ flag.by = "system" /\ flag.detected
    BY <1>5, <2>0, <2>1 DEF Flag
  <2>4. flag = Sco!Detected(v1[k])
    BY <1>5, <2>0, <2>1 DEF Flag, Sco!Detected
  <2> QED BY <2>2, <2>3, <2>4
<1>8. /\ v1' = [v1 EXCEPT ![k] = flag] /\ v5' = [v5 EXCEPT ![k] = Append(v5[k], e)]
      /\ v2' = [v2 EXCEPT ![k] = None] /\ v6' = [v6 EXCEPT ![t] = Sco!NoFlag] /\ UNCHANGED <<v3, v4>>
  <2>1. v1' = [v1 EXCEPT ![k] = Sco!Detected(v1[k])]
    BY <1>1 DEF Sco!Raise
  <2>3. v5' = [v5 EXCEPT ![k] = Append(v5[k], [event |-> "flagged", by |-> "system", seen |-> Len(v5[k]),
                                               minutes |-> 0])]
    BY <1>1 DEF Sco!Raise, Sco!Told
  <2>2. v2' = [v2 EXCEPT ![k] = None] /\ v6' = [v6 EXCEPT ![t] = Sco!NoFlag] /\ UNCHANGED <<v3, v4>>
    BY <1>1 DEF Sco!Raise
  <2> QED BY <1>6, <1>7, <2>1, <2>2, <2>3
<1>9. ScopeShape'
  <2>2. Append(v5[k], e) \in Seq(Event)
    BY <1>5, <1>6
  <2>3. Sco!NoFlag \in ScopeRequest
    BY DEF Sco!NoFlag, ScopeRequest
  <2> QED BY <1>3, <1>8, <2>2, <2>3 DEF ScopeInv, ScopeShape
<1>10. ASSUME NEW u \in Requests PROVE RequestFits(v6'[u]) /\ LocksFit(u)' /\ ActsOn(v6[u])'
  <2>1. CASE u = t
    <3>1. v6'[t] = Sco!NoFlag
      BY <1>8 DEF ScopeInv, ScopeShape
    <3>2. LocksFit(t)'
      BY <1>1, <1>2, <1>3, <1>8, <3>1 DEF ScopeInv, ScopeShape, LocksFit, Holding, Sco!NoFlag, Sco!ScopeConstants
    <3> QED BY <2>1, <3>1, <3>2 DEF RequestFits, ActsOn, Sco!NoFlag
  <2>2. CASE u # t
    <3>1. \A m \in ScopeTickets : m # k => v5'[m] = v5[m]
      BY <1>8 DEF ScopeInv, ScopeShape
    <3> QED BY <1>3, <1>7, <1>8, <2>2, <3>1, OtherRequestsFit DEF Sco!ScopeConstants
  <2> QED BY <2>1, <2>2
<1>11. ASSUME NEW m \in ScopeTickets PROVE StoryOf(v1[m], v5[m])'
  <2>1. CASE m = k
    <3>1. v1'[k] = flag /\ v5'[k] = Append(v5[k], e) /\ StoryOf(v1[k], v5[k])
      BY <1>3, <1>8 DEF ScopeInv, ScopeShape
    <3>2. e.event \notin Sco!Decisions
      BY <1>6 DEF Sco!Decisions
    <3>3. StoryOf(flag, Append(v5[k], e))
      <4>1. e.event = "flagged" <=> v1[k].scope # "flagged"
        BY <1>3, <1>6
      <4>2. flag.scope = IF e.event = "withdrawn" THEN "none" ELSE e.event
        BY <1>6, <1>7
      <4>3. flag.scope = "flagged" => flag.by = e.by
        BY <1>6, <1>7
      <4>4. ~flag.detected => ~v1[k].detected /\ e.by # "system"
        BY <1>7
      <4>5. e.by = "system" => ~v1[k].detected
        BY <1>3
      <4>6. v5[k] \in Seq(Event) /\ e.seen = Len(v5[k])
        BY <1>5, <1>6
      <4> QED BY <3>1, <3>2, <4>1, <4>2, <4>3, <4>4, <4>5, <4>6, StoryGrows
    <3> QED BY <2>1, <3>1, <3>3
  <2>2. CASE m # k
    BY <1>8, <2>2 DEF ScopeInv, ScopeShape
  <2> QED BY <2>1, <2>2
<1>12. IsFiniteSet(Sco!Granted') /\ Cardinality(Sco!Granted') = Cardinality(Sco!Granted) + e.minutes
  BY <1>3, <1>6, <1>8, GrantedGrows DEF ScopeInv
<1>13. v3'.minutes = v3.minutes + e.minutes
  BY <1>6, <1>8 DEF ScopeInv, ScopeShape
<1> QED BY <1>9, <1>10, <1>11, <1>12, <1>13 DEF ScopeInv

LEMMA CloseTicketKeeps ==
  ASSUME ScopeInv, Sco!ScopeConstants, Sco!CloseTicket PROVE ScopeInv'
<1>1. PICK k \in ScopeTickets :
        v2[k] = None /\ v1' = [v1 EXCEPT ![k].closed = TRUE, ![k].version = @ + 1]
  BY DEF Sco!CloseTicket
<1>2. UNCHANGED <<v2, v3, v4, v5, v6>> /\ v1[k] \in Flag
  BY DEF Sco!CloseTicket, ScopeInv, ScopeShape
<1>3. PICK flag \in Flag :
        /\ v1' = [v1 EXCEPT ![k] = flag] /\ flag.version = v1[k].version + 1 /\ flag.scope = v1[k].scope
        /\ flag.by = v1[k].by /\ flag.detected = v1[k].detected
  <2>0. PICK n \in Nat : n = v1[k].version + 1
    BY <1>2 DEF Flag
  <2>1. PICK flag : flag = [v1[k] EXCEPT !.closed = TRUE, !.version = n]
    OBVIOUS
  <2>2. flag \in Flag
    BY <1>2, <2>1 DEF Flag
  <2>3. /\ flag.version = v1[k].version + 1 /\ flag.scope = v1[k].scope
        /\ flag.by = v1[k].by /\ flag.detected = v1[k].detected
    BY <1>2, <2>0, <2>1 DEF Flag
  <2>4. v1' = [v1 EXCEPT ![k] = flag]
    BY <1>1, <2>0, <2>1 DEF ScopeInv, ScopeShape, Flag
  <2> QED BY <2>2, <2>3, <2>4
<1>4. ScopeShape'
  BY <1>2, <1>3 DEF ScopeInv, ScopeShape
<1>5. ASSUME NEW u \in Requests PROVE RequestFits(v6'[u]) /\ LocksFit(u)' /\ ActsOn(v6[u])'
  <2>1. RequestFits(v6[u]) /\ LocksFit(u) /\ ActsOn(v6[u]) /\ v6[u] \in ScopeRequest
    BY DEF ScopeInv, ScopeShape
  <2>2. LocksFit(u)' /\ v6'[u] = v6[u]
    BY <1>2, <2>1 DEF LocksFit
  <2>3. v1[k].version \in Nat /\ v6[u].version \in Nat /\ v1'[k] = flag
    BY <1>2, <1>3, <2>1 DEF Flag, ScopeRequest, ScopeInv, ScopeShape
  <2>4. v6[u].ticket = k => v6[u].at \in {"start", "seen"}
    BY <1>1, <2>1 DEF LocksFit, Holding, ScopeRequest, Sco!ScopeConstants
  <2>5. CASE v6[u].at = "start"
    BY <2>1, <2>2, <2>5 DEF ActsOn
  <2>6. CASE v6[u].ticket = k /\ v6[u].at # "start"
    BY <1>2, <1>3, <2>1, <2>2, <2>3, <2>4, <2>6 DEF ActsOn
  <2>7. CASE v6[u].ticket # k /\ v6[u].at # "start"
    <3>1. v6[u].ticket \in ScopeTickets /\ v1'[v6[u].ticket] = v1[v6[u].ticket]
      BY <1>3, <2>1, <2>7 DEF RequestFits, ScopeInv, ScopeShape
    <3> QED BY <1>2, <2>1, <2>2, <3>1 DEF ActsOn, Sco!MayAct
  <2> QED BY <2>5, <2>6, <2>7
<1>6. ASSUME NEW m \in ScopeTickets PROVE StoryOf(v1[m], v5[m])'
  <2>1. StoryOf(v1[m], v5[m]) /\ v1'[m] = IF m = k THEN flag ELSE v1[m]
    BY <1>3 DEF ScopeInv, ScopeShape
  <2> QED BY <1>2, <1>3, <2>1 DEF StoryOf
<1>7. Sco!Granted' = Sco!Granted
  BY <1>2 DEF Sco!Granted
<1> QED BY <1>2, <1>4, <1>5, <1>6, <1>7 DEF ScopeInv

LEMMA ScopeStep == ASSUME ScopeInv, Sco!ScopeConstants, [Sco!ScopeNext]_(Sco!scopeVars) PROVE ScopeInv'
<1>1. CASE UNCHANGED Sco!scopeVars
  <2>1. UNCHANGED <<v1, v2, v3, v4, v5, v6>>
    BY <1>1 DEF Sco!scopeVars
  <2>2. ScopeShape' /\ Sco!Granted' = Sco!Granted
    BY <2>1 DEF ScopeInv, ScopeShape, Sco!Granted
  <2> QED BY <2>1, <2>2 DEF ScopeInv, LocksFit, ActsOn
<1>2. CASE Sco!ScopeNext
  BY <1>2, SeeKeeps, LockKeeps, ReadAllowanceKeeps, AddMinutesKeeps, CommitScopeKeeps, SweepKeeps, RaiseKeeps,
     AbortScopeKeeps, CloseTicketKeeps DEF Sco!ScopeNext
<1> QED BY <1>1, <1>2

LEMMA ScopeIsSafe ==
  ASSUME ScopeInv
  PROVE  Sco!RecordTellsStory /\ Sco!DecidedWhatWasSeen /\ Sco!AllowancesAddUp /\ Sco!DetectedOnce
<1>1. \A k \in ScopeTickets : StoryOf(v1[k], v5[k]) /\ v5[k] \in Seq(Event) /\ DOMAIN v5[k] = 1 .. Len(v5[k])
  BY DEF ScopeInv, ScopeShape
<1>2. \A S : Sco!Cardinality(S) = Cardinality(S)
  BY DEF Sco!Cardinality, Cardinality
<1>3. Sco!RecordTellsStory
  BY <1>1 DEF Sco!RecordTellsStory, StoryOf, EntryFits, Sco!Told
<1>4. Sco!DecidedWhatWasSeen
  BY <1>1, SMTT(30) DEF Sco!DecidedWhatWasSeen, StoryOf, EntryFits
<1>5. Sco!AllowancesAddUp
  BY <1>2 DEF ScopeInv, Sco!AllowancesAddUp
<1>6. ASSUME NEW k \in ScopeTickets PROVE Cardinality({i \in DOMAIN v5[k] : v5[k][i].by = "system"}) <= 1
  <2> DEFINE found == {i \in DOMAIN v5[k] : v5[k][i].by = "system"}
  <2>1. CASE found = {}
    BY <2>1, FS_EmptySet
  <2>2. CASE found # {}
    <3>1. PICK i : i \in found
      BY <2>2
    <3>2. found = {i}
      BY <1>1, <3>1 DEF StoryOf
    <3> QED BY <3>2, FS_Singleton
  <2> QED BY <2>1, <2>2
<1>7. Sco!DetectedOnce
  BY <1>2, <1>6 DEF Sco!DetectedOnce
<1> QED BY <1>3, <1>4, <1>5, <1>7

-----------------------------------------------------------------------------
(* Renewals (Ren): v1 the engagement, v2 the sweep that holds it, v3 the   *)
(* day, v4 the requests, v5 the alerts sent, v6 whether today is swept.    *)

Standing == {"active", "expiring", "ended"}
RenewalRequest == [op : {"idle", "sweep", "patch"}, day : 0 .. MaxToday, version : Nat,
                   date : RenewalDates \cup {None, 0}, notice : NoticePeriods \cup {None, 0},
                   status : Standing \cup {None}]

RenewalShape ==
  /\ Ren!RenewalTypeOK
  /\ v4 \in [Requests -> RenewalRequest]
  /\ v6 \in BOOLEAN

(* Only a date inside the horizon makes an engagement expire.              *)
DateFits(date, status) ==
  status = "expiring" => date # None /\ date <= v3 + Ren!Horizon

EditFits(t) ==
  LET r == v4[t] IN
  /\ r.op = "idle" => r = Ren!NoEdit
  /\ r.op = "sweep" => r.day <= v3
  /\ v2 = t <=> r.op = "sweep"
  /\ r.op = "patch" =>
       /\ r.date \in RenewalDates \cup {None} /\ r.notice \in NoticePeriods \cup {None}
       /\ r.status \in Standing
       /\ r.notice # None => r.date # None
       /\ r.version <= v1.version
       /\ r.version = v1.version => DateFits(r.date, r.status)

RenewalInv ==
  /\ RenewalShape
  /\ \A t \in Requests : EditFits(t)
  /\ v1.notice # None => v1.date # None
  /\ DateFits(v1.date, v1.status)
  /\ v2 # None => v1.date # None /\ v1.status # "ended"
  /\ Ren!AlertsOncePerDate
  /\ Ren!SweptOwesNothing

LEMMA HorizonIsWidest ==
  ASSUME Ren!RenewalConstants PROVE Ren!Horizon \in Leads /\ \A k \in Leads : Ren!Horizon >= k
<1>1. Ren!Horizon = CHOOSE x \in Leads : \A y \in Leads : x >= y
  BY DEF Ren!Horizon, Ren!Max
<1> QED BY <1>1 DEF Ren!RenewalConstants

(* Dates, days and leads are numbers.                                      *)
LEMMA RenewalNumbers ==
  ASSUME RenewalShape, Ren!RenewalConstants
  PROVE  /\ v3 \in Int /\ Ren!Horizon \in Nat /\ Ren!Keys \subseteq Nat
         /\ v1.date \in Int \cup {None} /\ v1.notice \in Nat \cup {None} /\ v1.version \in Nat
         /\ v1.status \in Standing /\ v1.fired \subseteq Ren!Keys /\ v2 \in Requests \cup {None}
         /\ v5 \in [Ren!Keys -> Nat] /\ v6 \in BOOLEAN /\ v4 \in [Requests -> RenewalRequest]
         /\ None \notin Requests /\ MaxToday \in Nat /\ v3 \in 0 .. MaxToday
<1>1. Leads \subseteq Nat /\ RenewalDates \subseteq Int /\ NoticePeriods \subseteq Nat /\ MaxToday \in Nat /\ None \notin Requests
  BY DEF Ren!RenewalConstants
<1>2. v3 \in Int /\ Ren!Horizon \in Nat /\ Ren!Keys \subseteq Nat
  <2>1. v3 \in 0 .. MaxToday
    BY DEF RenewalShape, Ren!RenewalTypeOK
  <2>2. Ren!Horizon \in Nat
    BY <1>1, HorizonIsWidest
  <2>3. Ren!Keys \subseteq Nat
    BY <1>1 DEF Ren!Keys, Ren!NoticeBoundary
  <2> QED BY <1>1, <2>1, <2>2, <2>3
<1>3. /\ v1.date \in RenewalDates \cup {None} /\ v1.notice \in NoticePeriods \cup {None} /\ v1.version \in Nat
      /\ v1.status \in Standing /\ v1.fired \subseteq Ren!Keys
  BY DEF RenewalShape, Ren!RenewalTypeOK, Standing
<1> QED BY <1>1, <1>2, <1>3 DEF RenewalShape, Ren!RenewalTypeOK

LEMMA RenewalStarts == ASSUME Ren!RenewalInit, Ren!RenewalConstants PROVE RenewalInv
<1>1. PICK date \in RenewalDates :
        v1 = [date |-> date, notice |-> None, status |-> Ren!StatusFor(date, 0), fired |-> {}, version |-> 1]
  BY DEF Ren!RenewalInit
<1>2. date \in Int /\ MaxToday \in Nat
  BY DEF Ren!RenewalConstants
<1>3. v2 = None /\ v3 = 0 /\ v4 = [t \in Requests |-> Ren!NoEdit] /\ v5 = [k \in Ren!Keys |-> 0] /\ v6 = FALSE
  BY DEF Ren!RenewalInit
<1>4. Ren!StatusFor(date, 0) \in Standing
  BY DEF Ren!StatusFor, Standing
<1>5. RenewalShape
  <2>1. v1 \in [date : RenewalDates \cup {None}, notice : NoticePeriods \cup {None},
                status : {"active", "expiring", "ended"}, fired : SUBSET Ren!Keys, version : Nat]
    BY <1>1, <1>4 DEF Standing
  <2>2. Ren!NoEdit \in RenewalRequest
    BY <1>2 DEF Ren!NoEdit, RenewalRequest
  <2>3. v3 \in 0 .. MaxToday /\ v2 \in Requests \cup {None} /\ v5 \in [Ren!Keys -> Nat]
    BY <1>2, <1>3
  <2>4. v4 \in [Requests -> RenewalRequest] /\ v6 \in BOOLEAN
    BY <1>3, <2>2
  <2> QED BY <2>1, <2>3, <2>4 DEF RenewalShape, Ren!RenewalTypeOK
<1>6. DateFits(v1.date, v1.status)
  <2>1. v1.date = date /\ v1.status = Ren!StatusFor(date, 0)
    BY <1>1
  <2>2. Ren!StatusFor(date, 0) = "expiring" => date # None /\ date - 0 <= Ren!Horizon
    BY DEF Ren!StatusFor, Ren!Days
  <2>3. Ren!Horizon \in Nat
    BY <1>5, RenewalNumbers
  <2> QED BY <1>2, <1>3, <2>1, <2>2, <2>3 DEF DateFits
<1>7. ASSUME NEW t \in Requests PROVE EditFits(t)
  BY <1>3, <1>5, RenewalNumbers DEF EditFits, Ren!NoEdit
<1>8. Ren!AlertsOncePerDate /\ Ren!SweptOwesNothing
  BY <1>1, <1>3 DEF Ren!AlertsOncePerDate, Ren!SweptOwesNothing
<1>9. v1.notice = None
  BY <1>1
<1> QED BY <1>3, <1>5, <1>6, <1>7, <1>8, <1>9 DEF RenewalInv

LEMMA DueForReviewKeeps ==
  ASSUME RenewalInv, Ren!RenewalConstants, NEW t \in Requests, Ren!DueForReview(t)
  PROVE  RenewalInv'
<1>1. /\ v4[t] = Ren!NoEdit /\ v2 = None /\ v2' = t /\ UNCHANGED <<v1, v3, v5, v6>>
      /\ v1.date # None /\ v1.status # "ended"
      /\ v4' = [v4 EXCEPT ![t] = [Ren!NoEdit EXCEPT !.op = "sweep", !.day = v3]]
  BY DEF Ren!DueForReview, Ren!Review
<1>2. PICK r \in RenewalRequest : r = [Ren!NoEdit EXCEPT !.op = "sweep", !.day = v3] /\ r.op = "sweep" /\ r.day = v3
  <2>1. v3 \in 0 .. MaxToday
    BY DEF RenewalInv, RenewalShape, Ren!RenewalTypeOK
  <2>2. PICK r : r = [Ren!NoEdit EXCEPT !.op = "sweep", !.day = v3]
    OBVIOUS
  <2>3. r \in RenewalRequest
    BY <2>1, <2>2 DEF RenewalRequest, Ren!NoEdit
  <2>4. r.op = "sweep" /\ r.day = v3
    BY <2>2 DEF Ren!NoEdit
  <2> QED BY <2>2, <2>3, <2>4
<1>3. v4' = [v4 EXCEPT ![t] = r] /\ v4 \in [Requests -> RenewalRequest]
  BY <1>1, <1>2 DEF RenewalInv, RenewalShape
<1>4. RenewalShape'
  BY <1>1, <1>3 DEF RenewalInv, RenewalShape, Ren!RenewalTypeOK
<1>5. ASSUME NEW u \in Requests PROVE EditFits(u)'
  <2>1. v3 <= v3
    BY RenewalNumbers DEF RenewalInv
  <2>2. CASE u = t
    <3>1. v4'[t] = r /\ v2' = t /\ v3' = v3
      BY <1>1, <1>3
    <3> QED BY <1>2, <2>1, <2>2, <3>1 DEF EditFits
  <2>3. CASE u # t
    <3>1. v4'[u] = v4[u] /\ EditFits(u) /\ u # None
      BY <1>3, <2>3, RenewalNumbers DEF RenewalInv
    <3> QED BY <1>1, <2>3, <3>1 DEF EditFits, DateFits
  <2> QED BY <2>2, <2>3
<1>6. (DateFits(v1.date, v1.status) /\ Ren!AlertsOncePerDate /\ Ren!SweptOwesNothing)'
  BY <1>1 DEF RenewalInv, DateFits, Ren!AlertsOncePerDate, Ren!SweptOwesNothing, Ren!LongNotice
<1> QED BY <1>1, <1>4, <1>5, <1>6 DEF RenewalInv

LEMMA NothingDueKeeps ==
  ASSUME RenewalInv, Ren!RenewalConstants, Ren!NothingDue PROVE RenewalInv'
<1>1. v6' = TRUE /\ UNCHANGED <<v1, v2, v3, v4, v5>> /\ ~Ren!Review(v1, v3)
  BY DEF Ren!NothingDue
<1>2. RenewalShape'
  <2>1. v6' \in BOOLEAN
    BY <1>1
  <2> QED BY <1>1, <2>1 DEF RenewalInv, RenewalShape, Ren!RenewalTypeOK
<1>3. Ren!SweptOwesNothing'
  <2>1. SUFFICES ASSUME v1.date # None, v1.status # "ended"
                 PROVE  /\ Ren!AlertsDue(v1, v3) \subseteq (IF Ren!LongNotice THEN {Ren!NoticeBoundary} ELSE {})
                        /\ v1.status = Ren!StatusFor(v1.date, v3)
    BY <1>1 DEF Ren!SweptOwesNothing, Ren!LongNotice
  <2>2. v1.date \in Int /\ v3 \in Int /\ Ren!Horizon \in Nat /\ v1.notice \in Nat \cup {None}
    BY <2>1, RenewalNumbers DEF RenewalInv
  <2>3. v1.date > v3 + Ren!Horizon
    BY <1>1, <2>1, <2>2 DEF Ren!Review
  <2>4. v1.status = "active"
    BY <2>1, <2>2, <2>3, RenewalNumbers DEF RenewalInv, DateFits, Standing
  <2>5. v1.status = Ren!StatusFor(v1.date, v3)
    BY <2>1, <2>2, <2>3, <2>4 DEF Ren!StatusFor, Ren!Days
  <2>6. ASSUME NEW k \in Ren!AlertsDue(v1, v3) PROVE Ren!LongNotice /\ k = Ren!NoticeBoundary
    <3>1. k \in Ren!Keys /\ k \in Nat
      BY RenewalNumbers DEF RenewalInv, Ren!AlertsDue
    <3>2. k = Ren!NoticeBoundary
      <4>1. SUFFICES ASSUME k # Ren!NoticeBoundary PROVE FALSE
        OBVIOUS
      <4>2. k \in Leads /\ v1.date - v3 <= k
        BY <3>1, <4>1 DEF Ren!AlertsDue, Ren!Days, Ren!Keys
      <4> QED BY <2>2, <2>3, <3>1, <4>2, HorizonIsWidest
    <3>3. v1.notice # None /\ v1.date - v3 <= v1.notice
      BY <3>2 DEF Ren!AlertsDue, Ren!Days
    <3> QED BY <2>2, <2>3, <3>2, <3>3 DEF Ren!LongNotice
  <2> QED BY <2>5, <2>6
<1>4. (\A t \in Requests : EditFits(t))' /\ (DateFits(v1.date, v1.status) /\ Ren!AlertsOncePerDate)'
  BY <1>1 DEF RenewalInv, EditFits, DateFits, Ren!AlertsOncePerDate
<1> QED BY <1>1, <1>2, <1>3, <1>4 DEF RenewalInv

LEMMA NextTodayKeeps ==
  ASSUME RenewalInv, Ren!RenewalConstants, Ren!NextToday PROVE RenewalInv'
<1>1. v3 < MaxToday /\ v3' = v3 + 1 /\ v6' = FALSE /\ UNCHANGED <<v1, v2, v4, v5>>
  BY DEF Ren!NextToday
<1>2. v3 \in 0 .. MaxToday /\ MaxToday \in Nat /\ Ren!Horizon \in Nat /\ v4 \in [Requests -> RenewalRequest]
  BY RenewalNumbers DEF RenewalInv, RenewalShape, Ren!RenewalTypeOK, Ren!RenewalConstants
<1>3. RenewalShape'
  <2>1. v3' \in 0 .. MaxToday
    BY <1>1, <1>2
  <2>2. v6' \in BOOLEAN
    BY <1>1
  <2> QED BY <1>1, <2>1, <2>2 DEF RenewalInv, RenewalShape, Ren!RenewalTypeOK
<1>4. \A date \in Int \cup {None} : \A status : DateFits(date, status) => DateFits(date, status)'
  BY <1>1, <1>2 DEF DateFits
<1>5. ASSUME NEW t \in Requests PROVE EditFits(t)'
  <2>1. EditFits(t) /\ v4[t] \in RenewalRequest /\ v4'[t] = v4[t]
    BY <1>1, <1>2 DEF RenewalInv
  <2>2. v4[t].op = "sweep" => v4[t].day <= v3 + 1
    BY <1>2, <2>1 DEF EditFits, RenewalRequest
  <2>3. v4[t].op = "patch" => v4[t].date \in Int \cup {None}
    BY <2>1 DEF EditFits, Ren!RenewalConstants
  <2> QED BY <1>1, <1>4, <2>1, <2>2, <2>3 DEF EditFits
<1>6. DateFits(v1.date, v1.status)'
  BY <1>1, <1>4, RenewalNumbers DEF RenewalInv
<1>7. Ren!AlertsOncePerDate' /\ Ren!SweptOwesNothing'
  BY <1>1 DEF RenewalInv, Ren!AlertsOncePerDate, Ren!SweptOwesNothing
<1> QED BY <1>1, <1>3, <1>5, <1>6, <1>7 DEF RenewalInv

LEMMA AbortRenewalKeeps ==
  ASSUME RenewalInv, Ren!RenewalConstants, NEW t \in Requests, Ren!AbortRenewal(t)
  PROVE  RenewalInv'
<1>1. /\ v2' = (IF v2 = t THEN None ELSE v2) /\ v4' = [v4 EXCEPT ![t] = Ren!NoEdit] /\ UNCHANGED <<v1, v3, v5, v6>>
  BY DEF Ren!AbortRenewal
<1>2. Ren!NoEdit \in RenewalRequest /\ v4 \in [Requests -> RenewalRequest]
  BY DEF Ren!NoEdit, RenewalRequest, Ren!RenewalConstants, RenewalInv, RenewalShape
<1>3. RenewalShape'
  BY <1>1, <1>2 DEF RenewalInv, RenewalShape, Ren!RenewalTypeOK
<1>4. ASSUME NEW u \in Requests PROVE EditFits(u)'
  <2>1. EditFits(u)
    BY DEF RenewalInv
  <2>2. CASE u = t
    <3>1. v4'[u] = Ren!NoEdit /\ v2' # u
      BY <1>1, <1>2, <2>2, RenewalNumbers DEF RenewalInv
    <3> QED BY <3>1 DEF EditFits, Ren!NoEdit
  <2>3. CASE u # t
    <3>1. v4'[u] = v4[u] /\ (v2' = u <=> v2 = u)
      BY <1>1, <1>2, <2>3, RenewalNumbers DEF RenewalInv
    <3> QED BY <1>1, <2>1, <3>1 DEF EditFits, DateFits
  <2> QED BY <2>2, <2>3
<1>5. (DateFits(v1.date, v1.status) /\ Ren!AlertsOncePerDate /\ Ren!SweptOwesNothing)'
  BY <1>1 DEF RenewalInv, DateFits, Ren!AlertsOncePerDate, Ren!SweptOwesNothing, Ren!LongNotice
<1>6. v2' # None => v2 # None
  BY <1>1
<1> QED BY <1>1, <1>3, <1>4, <1>5, <1>6 DEF RenewalInv

LEMMA ReadEngagementKeeps ==
  ASSUME RenewalInv, Ren!RenewalConstants, NEW t \in Requests, Ren!ReadEngagement(t)
  PROVE  RenewalInv'
<1>1. PICK date \in RenewalDates \cup {None}, notice \in NoticePeriods \cup {None},
           status \in {v1.status, "active", "ended"} :
        /\ notice # None => date # None
        /\ v4' = [v4 EXCEPT ![t] =
             [op |-> "patch", day |-> 0, version |-> v1.version, date |-> date, notice |-> notice,
              status |-> IF status = v1.status /\ date # v1.date THEN Ren!StatusFor(date, v3) ELSE status]]
  BY DEF Ren!ReadEngagement
<1>2. UNCHANGED <<v1, v2, v3, v5, v6>> /\ v4[t] = Ren!NoEdit
  BY DEF Ren!ReadEngagement
<1>3. PICK s : s = IF status = v1.status /\ date # v1.date THEN Ren!StatusFor(date, v3) ELSE status
  OBVIOUS
<1>4. PICK r : r = [op |-> "patch", day |-> 0, version |-> v1.version, date |-> date, notice |-> notice, status |-> s]
  OBVIOUS
<1>5. s \in Standing
  BY <1>3, RenewalNumbers DEF RenewalInv, Ren!StatusFor, Standing
<1>6. r \in RenewalRequest
  BY <1>4, <1>5, RenewalNumbers DEF RenewalInv, RenewalRequest
<1>7. v4' = [v4 EXCEPT ![t] = r] /\ v4 \in [Requests -> RenewalRequest]
  BY <1>1, <1>3, <1>4, RenewalNumbers DEF RenewalInv
<1>8. RenewalShape'
  BY <1>2, <1>6, <1>7 DEF RenewalInv, RenewalShape, Ren!RenewalTypeOK
<1>9. DateFits(date, s)
  <2>1. CASE status = v1.status /\ date # v1.date
    <3>1. s = Ren!StatusFor(date, v3)
      BY <1>3, <2>1
    <3>2. s = "expiring" => date # None /\ date - v3 <= Ren!Horizon
      BY <3>1 DEF Ren!StatusFor, Ren!Days
    <3>3. v3 \in Int /\ Ren!Horizon \in Nat /\ (date # None => date \in Int)
      BY RenewalNumbers DEF RenewalInv, Ren!RenewalConstants
    <3> QED BY <3>2, <3>3 DEF DateFits
  <2>2. CASE status = v1.status /\ date = v1.date
    BY <1>3, <2>2 DEF RenewalInv
  <2>3. CASE status # v1.status
    BY <1>3, <2>3 DEF DateFits
  <2> QED BY <2>1, <2>2, <2>3
<1>10. ASSUME NEW u \in Requests PROVE EditFits(u)'
  <2>1. EditFits(u) /\ v1.version <= v1.version
    BY RenewalNumbers DEF RenewalInv
  <2>2. CASE u = t
    <3>1. v4'[u] = r /\ v2' # u
      BY <1>2, <1>7, <2>1, <2>2 DEF EditFits, Ren!NoEdit
    <3>2. DateFits(date, s)'
      BY <1>2, <1>9 DEF DateFits
    <3> QED BY <1>1, <1>2, <1>4, <1>5, <2>1, <3>1, <3>2 DEF EditFits
  <2>3. CASE u # t
    <3>1. v4'[u] = v4[u]
      BY <1>7, <2>3
    <3> QED BY <1>2, <2>1, <3>1 DEF EditFits, DateFits
  <2> QED BY <2>2, <2>3
<1>11. (DateFits(v1.date, v1.status) /\ Ren!AlertsOncePerDate /\ Ren!SweptOwesNothing)'
  BY <1>2 DEF RenewalInv, DateFits, Ren!AlertsOncePerDate, Ren!SweptOwesNothing, Ren!LongNotice
<1> QED BY <1>2, <1>8, <1>10, <1>11 DEF RenewalInv

LEMMA PatchEngagementKeeps ==
  ASSUME RenewalInv, Ren!RenewalConstants, NEW t \in Requests, Ren!PatchEngagement(t)
  PROVE  RenewalInv'
<1>1. PICK r \in RenewalRequest : r = v4[t]
  BY RenewalNumbers DEF RenewalInv
<1>2. /\ r.op = "patch" /\ v2 = None /\ r.version = v1.version /\ UNCHANGED <<v2, v3>>
      /\ v1' = [date |-> r.date, notice |-> r.notice, status |-> r.status, fired |-> Ren!Ledger(r.date # v1.date),
                version |-> r.version + 1]
      /\ v5' = IF r.date # v1.date THEN [k \in Ren!Keys |-> 0] ELSE v5
      /\ v6' = FALSE /\ v4' = [v4 EXCEPT ![t] = Ren!NoEdit]
  BY <1>1 DEF Ren!PatchEngagement
<1>3. PICK fired \in SUBSET Ren!Keys : fired = IF r.date # v1.date THEN {} ELSE v1.fired
  BY RenewalNumbers DEF RenewalInv
<1>4. /\ v1'.date = r.date /\ v1'.notice = r.notice /\ v1'.status = r.status /\ v1'.fired = fired
      /\ v1'.version = v1.version + 1 /\ v1.version \in Nat
  BY <1>2, <1>3, RenewalNumbers DEF Ren!Ledger, RenewalInv
<1>5. /\ r.date \in RenewalDates \cup {None} /\ r.notice \in NoticePeriods \cup {None} /\ r.status \in Standing
      /\ (r.notice # None => r.date # None) /\ DateFits(r.date, r.status)
  BY <1>1, <1>2 DEF RenewalInv, EditFits
<1>6. RenewalShape'
  <2>1. v1' = [date |-> r.date, notice |-> r.notice, status |-> r.status, fired |-> fired, version |-> v1.version + 1]
    BY <1>2, <1>3 DEF Ren!Ledger
  <2>2. v1' \in [date : RenewalDates \cup {None}, notice : NoticePeriods \cup {None},
                 status : {"active", "expiring", "ended"}, fired : SUBSET Ren!Keys, version : Nat]
    BY <1>4, <1>5, <2>1 DEF Standing
  <2>3. v5' \in [Ren!Keys -> Nat] /\ v4 \in [Requests -> RenewalRequest]
    BY <1>2, RenewalNumbers DEF RenewalInv
  <2>4. Ren!NoEdit \in RenewalRequest
    BY RenewalNumbers DEF RenewalInv, Ren!NoEdit, RenewalRequest
  <2>5. v6' \in BOOLEAN
    BY <1>2
  <2> QED BY <1>2, <2>2, <2>3, <2>4, <2>5 DEF RenewalInv, RenewalShape, Ren!RenewalTypeOK
<1>7. ASSUME NEW u \in Requests PROVE EditFits(u)'
  <2>0. EditFits(u) /\ u # None /\ v4 \in [Requests -> RenewalRequest]
    BY RenewalNumbers DEF RenewalInv
  <2>1. CASE u = t
    <3>1. v4'[u] = Ren!NoEdit /\ v2' # u
      BY <1>2, <2>0, <2>1
    <3> QED BY <3>1 DEF EditFits, Ren!NoEdit
  <2>2. CASE u # t
    <3>1. v4'[u] = v4[u] /\ v4[u] \in RenewalRequest /\ v4[u].version \in Nat
      BY <1>2, <2>0, <2>2 DEF RenewalRequest
    <3>2. v4[u].op = "patch" => v4[u].version <= v1.version
      BY <2>0 DEF EditFits
    <3>3. v4[u].op = "patch" => v4[u].version <= v1'.version /\ v4[u].version # v1'.version
      BY <1>4, <3>1, <3>2
    <3> QED BY <1>2, <2>0, <3>1, <3>3 DEF EditFits
  <2> QED BY <2>1, <2>2
<1>8. DateFits(v1.date, v1.status)'
  BY <1>2, <1>4, <1>5 DEF DateFits
<1>9. Ren!AlertsOncePerDate'
  BY <1>2, <1>3, <1>4 DEF RenewalInv, Ren!AlertsOncePerDate
<1>10. Ren!SweptOwesNothing'
  BY <1>2 DEF Ren!SweptOwesNothing
<1> QED BY <1>2, <1>4, <1>5, <1>6, <1>7, <1>8, <1>9, <1>10 DEF RenewalInv

LEMMA StampKeeps ==
  ASSUME RenewalInv, Ren!RenewalConstants, NEW t \in Requests, Ren!Stamp(t)
  PROVE  RenewalInv'
<1>1. PICK day, due, status :
        /\ day = v4[t].day /\ due = Ren!AlertsDue(v1, day) /\ status = Ren!StatusFor(v1.date, day)
        /\ v4[t].op = "sweep"
        /\ v1' = (IF due = {} /\ status = v1.status THEN v1
                  ELSE [v1 EXCEPT !.fired = @ \cup due, !.status = status, !.version = @ + 1])
        /\ v5' = [k \in Ren!Keys |-> v5[k] + (IF k \in due THEN 1 ELSE 0)]
        /\ v6' = (day = v3) /\ v2' = None /\ v4' = [v4 EXCEPT ![t] = Ren!NoEdit] /\ UNCHANGED v3
  BY DEF Ren!Stamp
<1>2. /\ v4[t] \in RenewalRequest /\ day <= v3 /\ day \in Nat /\ v2 = t /\ v1.date # None
      /\ (v1.notice # None => v1.date # None)
  BY <1>1, RenewalNumbers DEF RenewalInv, EditFits, RenewalRequest
<1>3. /\ v1.date \in Int /\ v1.notice \in Nat \cup {None} /\ v1.version \in Nat /\ v1.fired \subseteq Ren!Keys
      /\ v3 \in Int /\ Ren!Horizon \in Nat /\ v4 \in [Requests -> RenewalRequest] /\ v5 \in [Ren!Keys -> Nat]
      /\ None \notin Requests /\ v1.status \in Standing
  BY <1>2, RenewalNumbers DEF RenewalInv
<1>4. status \in Standing /\ due \subseteq Ren!Keys /\ due \cap v1.fired = {}
  BY <1>1 DEF Ren!StatusFor, Standing, Ren!AlertsDue
<1>5. PICK version \in {v1.version, v1.version + 1} :
        v1' = [v1 EXCEPT !.fired = v1.fired \cup due, !.status = status, !.version = version]
  <2>1. v1 \in [date : RenewalDates \cup {None}, notice : NoticePeriods \cup {None},
                status : {"active", "expiring", "ended"}, fired : SUBSET Ren!Keys, version : Nat]
    BY DEF RenewalInv, RenewalShape, Ren!RenewalTypeOK
  <2>2. CASE due = {} /\ status = v1.status
    <3>1. v1' = v1 /\ v1.fired \cup due = v1.fired
      BY <1>1, <2>2
    <3> QED BY <2>1, <2>2, <3>1
  <2>3. CASE ~(due = {} /\ status = v1.status)
    <3>1. v1' = [v1 EXCEPT !.fired = @ \cup due, !.status = status, !.version = @ + 1]
      BY <1>1, <2>3
    <3> QED BY <2>1, <3>1
  <2> QED BY <2>2, <2>3
<1>6. /\ v1'.date = v1.date /\ v1'.notice = v1.notice /\ v1'.status = status /\ v1'.fired = v1.fired \cup due
      /\ v1'.version = version /\ version \in Nat /\ v1.version <= version
  BY <1>3, <1>5 DEF RenewalInv, RenewalShape, Ren!RenewalTypeOK
<1>7. RenewalShape'
  <2>1. v1.fired \cup due \in SUBSET Ren!Keys /\ v1 \in [date : RenewalDates \cup {None}, notice : NoticePeriods \cup {None},
                 status : {"active", "expiring", "ended"}, fired : SUBSET Ren!Keys, version : Nat]
    BY <1>3, <1>4 DEF RenewalInv, RenewalShape, Ren!RenewalTypeOK
  <2>2. v1' \in [date : RenewalDates \cup {None}, notice : NoticePeriods \cup {None},
                 status : {"active", "expiring", "ended"}, fired : SUBSET Ren!Keys, version : Nat]
    BY <1>4, <1>5, <1>6, <2>1 DEF Standing
  <2>3. v5' \in [Ren!Keys -> Nat]
    BY <1>1, <1>3
  <2>4. Ren!NoEdit \in RenewalRequest
    BY RenewalNumbers DEF RenewalInv, Ren!NoEdit, RenewalRequest
  <2>5. v6' \in BOOLEAN
    BY <1>1
  <2>6. v4' \in [Requests -> RenewalRequest]
    BY <1>1, <1>3, <2>4
  <2> QED BY <1>1, <2>2, <2>3, <2>5, <2>6 DEF RenewalInv, RenewalShape, Ren!RenewalTypeOK
<1>8. DateFits(v1.date, status)
  <2>1. status = "expiring" => v1.date - day <= Ren!Horizon
    BY <1>1 DEF Ren!StatusFor, Ren!Days
  <2> QED BY <1>2, <1>3, <2>1 DEF DateFits
<1>9. ASSUME NEW u \in Requests PROVE EditFits(u)'
  <2>0. EditFits(u) /\ u # None
    BY <1>3 DEF RenewalInv
  <2>1. CASE u = t
    <3>1. v4'[u] = Ren!NoEdit /\ v2' # u
      BY <1>1, <1>3, <2>0, <2>1
    <3> QED BY <3>1 DEF EditFits, Ren!NoEdit
  <2>2. CASE u # t
    <3>1. v4'[u] = v4[u] /\ v4[u] \in RenewalRequest /\ v4[u].op # "sweep" /\ v2' # u
      BY <1>1, <1>2, <1>3, <2>0, <2>2 DEF EditFits
    <3>2. v4[u].version \in Nat
      BY <3>1 DEF RenewalRequest
    <3>3. v4[u].op = "patch" => v4[u].version <= version /\ (v4[u].version = version => v4[u].version = v1.version)
      BY <1>3, <1>5, <1>6, <2>0, <3>2 DEF EditFits
    <3> QED BY <1>1, <1>6, <2>0, <3>1, <3>3 DEF EditFits, DateFits
  <2> QED BY <2>1, <2>2
<1>10. DateFits(v1.date, v1.status)'
  BY <1>1, <1>6, <1>8 DEF DateFits
<1>11. Ren!AlertsOncePerDate'
  <2>1. ASSUME NEW k \in Ren!Keys PROVE v5'[k] = IF k \in v1'.fired THEN 1 ELSE 0
    <3>1. v5[k] = IF k \in v1.fired THEN 1 ELSE 0
      BY DEF RenewalInv, Ren!AlertsOncePerDate
    <3>2. v5'[k] = v5[k] + (IF k \in due THEN 1 ELSE 0)
      BY <1>1
    <3>3. k \in v1'.fired <=> k \in v1.fired \/ k \in due
      BY <1>6
    <3>4. ~(k \in v1.fired /\ k \in due)
      BY <1>4
    <3> QED BY <3>1, <3>2, <3>3, <3>4
  <2> QED BY <2>1 DEF Ren!AlertsOncePerDate
<1>12. Ren!SweptOwesNothing'
  <2>1. CASE day # v3
    BY <1>1, <2>1 DEF Ren!SweptOwesNothing
  <2>2. CASE day = v3
    <3>1. Ren!AlertsDue(v1', v3) = {}
      BY <1>1, <1>6, <2>2 DEF Ren!AlertsDue
    <3>2. v1'.status = Ren!StatusFor(v1'.date, v3)
      BY <1>1, <1>6, <2>2
    <3>3. Ren!AlertsDue(v1, v3)' = {} /\ v1'.status = Ren!StatusFor(v1.date, v3)'
      BY <1>1, <3>1, <3>2 DEF Ren!AlertsDue, Ren!StatusFor, Ren!Days
    <3> QED BY <3>3 DEF Ren!SweptOwesNothing
  <2> QED BY <2>1, <2>2
<1>13. v1'.notice # None => v1'.date # None
  BY <1>2, <1>6
<1> QED BY <1>1, <1>7, <1>9, <1>10, <1>11, <1>12, <1>13 DEF RenewalInv

LEMMA RenewalStep ==
  ASSUME RenewalInv, Ren!RenewalConstants, [Ren!RenewalNext]_(Ren!renewalVars) PROVE RenewalInv'
<1>1. CASE UNCHANGED Ren!renewalVars
  <2>1. UNCHANGED <<v1, v2, v3, v4, v5, v6>>
    BY <1>1 DEF Ren!renewalVars
  <2> QED BY <2>1 DEF RenewalInv, RenewalShape, Ren!RenewalTypeOK, EditFits, DateFits, Ren!AlertsOncePerDate,
                      Ren!SweptOwesNothing, Ren!LongNotice
<1>2. CASE Ren!RenewalNext
  BY <1>2, DueForReviewKeeps, StampKeeps, ReadEngagementKeeps, PatchEngagementKeeps, AbortRenewalKeeps,
     NothingDueKeeps, NextTodayKeeps DEF Ren!RenewalNext
<1> QED BY <1>1, <1>2

-----------------------------------------------------------------------------
(* Both parts of the contracts                                             *)

CommercialInv == (part = "scope" => ScopeInv) /\ (part = "renewals" => RenewalInv)

LEMMA CommercialStep ==
  ASSUME CommercialInv, Sco!ScopeConstants, Ren!RenewalConstants, [CommercialNext /\ UNCHANGED part]_vars
  PROVE  CommercialInv'
<1>1. part' = part
  BY DEF vars
<1>2. CASE part = "scope"
  <2>1. [Sco!ScopeNext]_(Sco!scopeVars)
    BY <1>2 DEF CommercialNext, vars, Sco!scopeVars
  <2> QED BY <1>1, <1>2, <2>1, ScopeStep DEF CommercialInv
<1>3. CASE part = "renewals"
  <2>1. [Ren!RenewalNext]_(Ren!renewalVars)
    BY <1>3 DEF CommercialNext, vars, Ren!renewalVars
  <2> QED BY <1>1, <1>3, <2>1, RenewalStep DEF CommercialInv
<1> QED BY <1>1, <1>2, <1>3 DEF CommercialInv

(* What holds of the scope record and its requests, and of an engagement    *)
(* and its sweep, at every step of tickets.service.ts flagScope and         *)
(* decideScope and of renewal-jobs.ts: a request past the lock may still    *)
(* act on the flag, a page of the present version has seen the whole        *)
(* record, and only a date inside the horizon makes an engagement expire.   *)
THEOREM CommercialInvariant ==
  ASSUME Sco!ScopeConstants, Ren!RenewalConstants
  PROVE  CommercialSpec => []CommercialInv
<1>1. CommercialInit => CommercialInv
  BY ScopeStarts, RenewalStarts DEF CommercialInit, CommercialInv
<1>2. CommercialInv /\ [CommercialNext /\ UNCHANGED part]_vars => CommercialInv'
  BY CommercialStep
<1> QED BY <1>1, <1>2, PTL DEF CommercialSpec

(* For any tickets, people, requests, leads and dates: the record of        *)
(* out-of-scope work tells one story that the ticket's column agrees with,  *)
(* a decision is of the flag its maker saw and never by who raised it, the  *)
(* period holds each granted allowance once, the sweep detects a ticket     *)
(* once (tickets.service.ts flagScope, decideScope); an alert is sent once  *)
(* per renewal date, and after a sweep nothing is owed that its reading     *)
(* reaches (renewal-jobs.ts alertDue).                                      *)
THEOREM ContractsAreSafe ==
  ASSUME Sco!ScopeConstants, Ren!RenewalConstants
  PROVE  CommercialSpec => []CommercialHolds
<1>1. CommercialInv => CommercialHolds
  BY ScopeIsSafe DEF CommercialInv, CommercialHolds, RenewalInv
<1> QED BY <1>1, CommercialInvariant, PTL

-----------------------------------------------------------------------------
(* One file of a ticket (Att): v1 what was uploaded, v2 the row, v3 who    *)
(* holds it, v4 the store, v5 the requests, v6 and v7 the announcements    *)
(* and those before the removal, v8 and v9 the histories.                  *)

File == [state : {"absent", "pending", "clean", "quarantined"}, key : Att!Keys, size : Att!Sizes,
         digest : BOOLEAN, removed : BOOLEAN]
Working == {"sized", "encoded", "scanned"}
Bytes == {"encoded", "scanned"}
FileRequest == [at : Working \cup {"idle", "headed"}, head : Att!Sizes, row : File]

FilesShape ==
  /\ v1 \in [kind : Att!Kinds, rebuilt : Att!Sizes]
  /\ v2 \in File
  /\ v3 \in Requests \cup {None}
  /\ v4 \in [Att!Keys -> {None, "uploaded", "rebuilt"}]
  /\ v5 \in [Requests -> FileRequest]
  /\ v6 \in Nat
  /\ v8 \in BOOLEAN /\ v9 \in BOOLEAN

Served == IF v1.kind = "image" THEN "rebuilt" ELSE "uploaded"
Refused == v1.kind \in Att!Bad

(* The row is held by the request that works on it, but for a connector's   *)
(* file that has no row yet.                                               *)
HolderFits(t) ==
  /\ v5[t].at = "idle" => v5[t] = Att!Idle
  /\ v3 = t => v5[t].at \in Working
  /\ v5[t].at \in Working => v3 = t \/ (v2.state = "absent" /\ v5[t].at # "sized")

NoOther == \A t, u \in Requests : v5[t].at # "idle" /\ v5[u].at # "idle" => t = u

(* The committed row, before and after a verdict.                          *)
RowFits ==
  /\ v2.state = "absent" =>
       /\ ~v2.removed /\ v3 = None /\ NoOther
       /\ \A t \in Requests : v5[t].at # "headed"
  /\ v2.state \in {"absent", "pending"} => v2.key = "first" /\ v2.size = Att!DeclaredSize
  /\ Refused => v2.state # "clean"
  /\ ~Refused => v2.state # "quarantined" /\ v2.key = "first"
  /\ v2.state = "quarantined" => v2.key = "quarantine"

StoreFits ==
  /\ \A k \in Att!Keys : v4[k] = "rebuilt" => v1.kind = "image"
  /\ ~Refused => v4["quarantine"] = None
  /\ ~v8 /\ v2.state \in {"absent", "pending"} /\ (\A t \in Requests : v5[t].at \notin Bytes) =>
       v4["quarantine"] = None /\ v4["first"] \in {None, "uploaded"}

(* A request that works on the bytes.                                      *)
BytesFit(t) ==
  LET row == v5[t].row IN
  /\ v5[t].at \in {"sized", "encoded"} => row.key = v2.key
  /\ v5[t].at \in Bytes /\ ~Refused => v4["first"] = Served
  /\ v5[t].at = "scanned" =>
       IF Refused THEN /\ row.state = "quarantined" /\ row.key = "quarantine"
                       /\ v4["quarantine"] # None /\ v4["first"] = None
       ELSE row.state = "clean" /\ row.key = "first"

(* Sizes, while no two requests confirmed at once.                         *)
SizesFit ==
  ~v9 =>
    /\ NoOther
    /\ \A t \in Requests :
         /\ v5[t].at = "headed" => v4[v2.key] # None /\ v5[t].head = Att!SizeOf(v4[v2.key])
         /\ v5[t].at = "sized" => v5[t].row.size = Att!SizeOf(v4[v2.key])
         /\ v5[t].at \in Bytes => v5[t].row.size = Att!SizeOf(Served)
    /\ v2.state \in {"clean", "quarantined"} => v2.size = Att!SizeOf(Served)

Silence ==
  /\ v6 > 0 => v2.state = "clean"
  /\ v2.removed => v6 = v7 /\ \A t \in Requests : v5[t].at \notin Working

FilesInv ==
  /\ FilesShape
  /\ \A t \in Requests : HolderFits(t) /\ BytesFit(t)
  /\ RowFits /\ StoreFits /\ SizesFit /\ Silence
  /\ Att!VerdictFitsObject

LEMMA FileOf ==
  ASSUME NEW s \in {"absent", "pending", "clean", "quarantined"}, NEW k \in Att!Keys, NEW z \in Att!Sizes,
         NEW d \in BOOLEAN, NEW r \in BOOLEAN
  PROVE  [state |-> s, key |-> k, size |-> z, digest |-> d, removed |-> r] \in File
BY DEF File

LEMMA AbsentIsFile == Att!Absent \in File
<1>1. FALSE \in BOOLEAN /\ Att!DeclaredSize \in Att!Sizes /\ "first" \in Att!Keys
  BY DEF Att!Sizes, Att!DeclaredSize, Att!Keys
<1> QED BY <1>1, FileOf DEF Att!Absent

LEMMA WithState ==
  ASSUME NEW f \in File, NEW s \in {"absent", "pending", "clean", "quarantined"}, NEW q,
         q = [f EXCEPT !.state = s]
  PROVE  /\ q \in File
         /\ q.state = s /\ q.key = f.key /\ q.size = f.size /\ q.digest = f.digest /\ q.removed = f.removed
<1>1. q \in File
  BY DEF File
<1>2. q.state = s /\ q.key = f.key /\ q.size = f.size
  BY DEF File
<1>3. q.digest = f.digest /\ q.removed = f.removed
  BY DEF File
<1> QED BY <1>1, <1>2, <1>3

LEMMA IdleIsRequest == Att!Idle \in FileRequest
BY AbsentIsFile DEF Att!Idle, FileRequest, Att!Sizes

LEMMA SilentAtFirst ==
  ASSUME v6 = 0, v7 = 0, \A t \in Requests : v5[t].at \notin Working
  PROVE  Silence
BY DEF Silence

LEMMA FilesStart ==
  ASSUME Att!AttachmentsInit, Att!AttachmentsConstants
  PROVE  FilesInv
<1> USE DEF Att!AttachmentsInit, Att!Absent, Att!Idle, Att!Kinds, Att!Keys, Att!Sizes, Att!DeclaredSize
<1>1. v2 \in File
  BY AbsentIsFile
<1>a. Att!Idle \in FileRequest
  BY IdleIsRequest
<1>b. v5 = [t \in Requests |-> Att!Idle]
  OBVIOUS
<1>2. FilesShape
  <2>1. v5 \in [Requests -> FileRequest]
    BY <1>a, <1>b
  <2> QED BY <1>1, <2>1 DEF FilesShape
<1>3. \A t \in Requests : v5[t].at = "idle" /\ v3 # t
  BY DEF Att!AttachmentsConstants
<1>4. \A t \in Requests : HolderFits(t) /\ BytesFit(t)
  BY <1>3 DEF HolderFits, BytesFit, Working, Bytes
<1>5. RowFits
  BY <1>3 DEF RowFits, NoOther
<1>6. StoreFits
  BY DEF StoreFits, Att!AttachmentsConstants
<1>7. SizesFit
  BY <1>3 DEF SizesFit, NoOther, Bytes
<1>8. v2.state = "absent" /\ v6 = 0 /\ v7 = 0
  OBVIOUS
<1>9. Silence /\ Att!VerdictFitsObject
  <2>1. \A t \in Requests : v5[t].at \notin Working
    BY <1>3 DEF Working
  <2>2. Silence
    BY <1>8, <2>1, SilentAtFirst
  <2> QED BY <2>2, <1>8 DEF Att!VerdictFitsObject
<1> QED BY <1>2, <1>4, <1>5, <1>6, <1>7, <1>9 DEF FilesInv

LEMMA PresignKeeps ==
  ASSUME FilesInv, Att!Presign
  PROVE  FilesInv'
<1> USE DEF Att!Presign
<1>1. \A t \in Requests : v5[t].at = "idle" /\ v5'[t] = v5[t]
  BY DEF Att!Idle
<1>2. /\ v2' \in File /\ v2'.state = "pending" /\ v2'.key = "first"
      /\ v2'.size = Att!DeclaredSize /\ v2'.removed = FALSE
  BY AbsentIsFile, WithState, ZenonT(60) DEF Att!Absent
<1>3. FilesShape' /\ v3 = None
  BY <1>2 DEF FilesInv, FilesShape, RowFits
<1>4. \A t \in Requests : HolderFits(t)' /\ BytesFit(t)'
  BY <1>1, <1>3 DEF HolderFits, BytesFit, Working, Bytes, FilesInv
<1>5. RowFits' /\ SizesFit'
  BY <1>1, <1>2 DEF RowFits, SizesFit, NoOther, Bytes, Refused, Att!DeclaredSize
<1>6. StoreFits'
  BY <1>1 DEF StoreFits, FilesInv, Refused, Bytes
<1>7. Silence' /\ Att!VerdictFitsObject'
  BY <1>2 DEF Silence, FilesInv, Att!VerdictFitsObject
<1> QED BY <1>3, <1>4, <1>5, <1>6, <1>7 DEF FilesInv

LEMMA UploadKeeps ==
  ASSUME FilesInv, Att!Upload, Att!AttachmentsConstants
  PROVE  FilesInv'
<1> USE DEF Att!Upload
<1>1. /\ v4' \in [Att!Keys -> {None, "uploaded", "rebuilt"}]
      /\ v4'["first"] = "uploaded" /\ v4'["quarantine"] = None /\ v4["first"] = None /\ v4["quarantine"] = None
  BY DEF FilesInv, FilesShape, Att!Keys
<1>2. FilesShape'
  BY <1>1 DEF FilesInv, FilesShape
<1>3. \A t \in Requests : v5[t].at \in Bytes => Refused
  BY <1>1 DEF FilesInv, BytesFit, Served, Att!AttachmentsConstants
<1>4. \A t \in Requests : v5[t].at # "scanned"
  BY <1>1, <1>3 DEF FilesInv, BytesFit, Bytes
<1>5. \A t \in Requests : HolderFits(t)' /\ BytesFit(t)'
  BY <1>1, <1>3, <1>4 DEF FilesInv, HolderFits, BytesFit, Working, Bytes, Refused
<1>6. RowFits' /\ StoreFits' /\ Silence' /\ Att!VerdictFitsObject'
  BY <1>1 DEF FilesInv, RowFits, StoreFits, Silence, NoOther, Refused, Att!VerdictFitsObject, Att!Keys
<1>7. SizesFit'
  <2>1. v2.key = "first"
    BY DEF FilesInv, RowFits
  <2>2. Served' = Served /\ \A o : Att!SizeOf(o)' = Att!SizeOf(o)
    BY DEF Served, Att!SizeOf
  <2>3. Att!SizeOf("uploaded") = Att!SizeOf(None)
    BY DEF Att!SizeOf, Att!AttachmentsConstants
  <2>4. ~v9 => \A t \in Requests : v5[t].at # "headed"
    BY <1>1, <2>1 DEF FilesInv, SizesFit
  <2> QED BY <1>1, <2>1, <2>2, <2>3, <2>4 DEF FilesInv, SizesFit, NoOther
<1> QED BY <1>2, <1>5, <1>6, <1>7 DEF FilesInv

LEMMA RemoveKeeps ==
  ASSUME FilesInv, Att!Remove, Att!AttachmentsConstants
  PROVE  FilesInv'
<1> USE DEF Att!Remove
<1>1. /\ v2' \in File /\ v2'.removed /\ v2'.state = v2.state /\ v2'.key = v2.key /\ v2'.size = v2.size
      /\ v3' = v3 /\ v4' = v4 /\ v5' = v5 /\ v6' = v6 /\ v7' = v6 /\ v1' = v1 /\ v8' = v8 /\ v9' = v9
  BY DEF FilesInv, FilesShape, File
<1>2. FilesShape'
  BY <1>1 DEF FilesInv, FilesShape
<1>3. Served' = Served /\ Refused' = Refused /\ \A o : Att!SizeOf(o)' = Att!SizeOf(o)
  BY DEF Served, Refused, Att!SizeOf
<1>4. \A t \in Requests : HolderFits(t)' /\ BytesFit(t)'
  BY <1>1, <1>3 DEF FilesInv, HolderFits, BytesFit
<1>5. RowFits' /\ StoreFits' /\ SizesFit' /\ Att!VerdictFitsObject'
  BY <1>1, <1>3 DEF FilesInv, RowFits, StoreFits, SizesFit, NoOther, Att!VerdictFitsObject
<1>6. Silence'
  BY <1>1 DEF FilesInv, Silence, HolderFits, Att!AttachmentsConstants
<1> QED BY <1>2, <1>4, <1>5, <1>6 DEF FilesInv

LEMMA OneWorker ==
  ASSUME FilesInv, Att!AttachmentsConstants, NEW t \in Requests, v5[t].at \in Working
  PROVE  /\ v3 \in {t, None}
         /\ v2.state # "absent" => v3 = t
         /\ v2.state = "absent" => v5[t].at # "sized"
         /\ ~v2.removed
         /\ \A u \in Requests : u # t => v5[u].at \notin Working
         /\ v5[t].at # "idle"
<1>1. v2.state # "absent" => v3 = t
  BY DEF FilesInv, HolderFits
<1>2. v2.state = "absent" => v3 = None /\ NoOther /\ v5[t].at # "sized"
  BY DEF FilesInv, HolderFits, RowFits, Att!AttachmentsConstants
<1>3. v5[t].at # "idle"
  BY DEF Working
<1>4. \A u \in Requests : u # t => v5[u].at \notin Working
  BY <1>1, <1>2, <1>3 DEF FilesInv, HolderFits, NoOther, Working
<1>5. ~v2.removed
  BY DEF FilesInv, Silence
<1> QED BY <1>1, <1>2, <1>3, <1>4, <1>5

LEMMA ConfirmKeeps ==
  ASSUME FilesInv, Att!AttachmentsConstants, NEW t \in Requests, Att!Confirm(t)
  PROVE  FilesInv'
<1> USE DEF Att!Confirm
<1>1. PICK q : q = [Att!Idle EXCEPT !.at = "headed", !.head = Att!SizeOf(v4[v2.key]), !.row = v2]
  OBVIOUS
<1>2. v2 \in File /\ v2.key \in Att!Keys /\ v4[v2.key] # None /\ v2.state # "absent" /\ ~v2.removed
  BY DEF FilesInv, FilesShape, File
<1>3. Att!SizeOf(v4[v2.key]) \in Att!Sizes
  BY DEF FilesInv, FilesShape, Att!SizeOf, Att!Sizes, Att!DeclaredSize
<1>4. q \in FileRequest /\ q.at = "headed" /\ q.head = Att!SizeOf(v4[v2.key])
  BY <1>1, <1>2, <1>3, IdleIsRequest DEF FileRequest
<1>5. /\ v5' = [v5 EXCEPT ![t] = q] /\ v5[t].at = "idle"
      /\ v1' = v1 /\ v2' = v2 /\ v3' = v3 /\ v4' = v4 /\ v6' = v6 /\ v7' = v7 /\ v8' = v8
  BY <1>1 DEF Att!Idle
<1>6. v5' \in [Requests -> FileRequest] /\ v5'[t] = q /\ \A u \in Requests : u # t => v5'[u] = v5[u]
  BY <1>4, <1>5 DEF FilesInv, FilesShape
<1>7. v9' \in BOOLEAN /\ (~v9' => ~v9 /\ \A u \in Requests : v5[u].at = "idle")
  <2>1. v9' = (v9 \/ \E u \in Requests : v5[u] # Att!Idle)
    OBVIOUS
  <2>2. v9 \in BOOLEAN /\ Att!Idle.at = "idle"
    BY DEF FilesInv, FilesShape, Att!Idle
  <2>3. v9' \in BOOLEAN
    BY <2>1
  <2>4. ~v9' => ~v9 /\ \A u \in Requests : v5[u] = Att!Idle
    BY <2>1
  <2> QED BY <2>2, <2>3, <2>4
<1>8. Served' = Served /\ Refused' = Refused /\ \A o : Att!SizeOf(o)' = Att!SizeOf(o)
  BY <1>5 DEF Served, Refused, Att!SizeOf
<1>9. FilesShape'
  BY <1>5, <1>6, <1>7 DEF FilesInv, FilesShape
<1>10. \A u \in Requests : HolderFits(u)' /\ BytesFit(u)'
  BY <1>2, <1>4, <1>5, <1>6, <1>8 DEF FilesInv, HolderFits, BytesFit, Working, Bytes
<1>11. RowFits' /\ Silence' /\ Att!VerdictFitsObject'
  BY <1>2, <1>4, <1>5, <1>6, <1>8 DEF FilesInv, RowFits, Silence, Att!VerdictFitsObject, Working
<1>12. StoreFits'
  BY <1>2, <1>4, <1>5, <1>6, <1>8 DEF FilesInv, StoreFits, Bytes
<1>13. SizesFit'
  BY <1>2, <1>4, <1>5, <1>6, <1>7, <1>8 DEF FilesInv, SizesFit, NoOther, Bytes
<1> QED BY <1>9, <1>10, <1>11, <1>12, <1>13 DEF FilesInv

LEMMA SetSizeKeeps ==
  ASSUME FilesInv, Att!AttachmentsConstants, NEW t \in Requests, Att!SetSize(t)
  PROVE  FilesInv'
<1> USE DEF Att!SetSize, Att!Reread
<1>1. PICK r : r = [v2 EXCEPT !.size = v5[t].head]
  OBVIOUS
<1>2. PICK q : q = [v5[t] EXCEPT !.at = "sized", !.row = r]
  OBVIOUS
<1>3. v5[t] \in FileRequest /\ v2 \in File /\ v3 = None /\ v2.removed = FALSE /\ v5[t].at = "headed"
  BY DEF FilesInv, FilesShape, File
<1>4. r \in File /\ r.size = v5[t].head /\ r.key = v2.key /\ r.state = v2.state
  BY <1>1, <1>3 DEF File, FileRequest
<1>5. q \in FileRequest /\ q.at = "sized" /\ q.row = r
  BY <1>2, <1>3, <1>4 DEF FileRequest, Working
<1>6. /\ v5' = [v5 EXCEPT ![t] = q] /\ v3' = t
      /\ v1' = v1 /\ v2' = v2 /\ v4' = v4 /\ v6' = v6 /\ v7' = v7 /\ v8' = v8 /\ v9' = v9
  BY <1>1, <1>2
<1>7. v5' \in [Requests -> FileRequest] /\ v5'[t] = q /\ \A u \in Requests : u # t => v5'[u] = v5[u]
  BY <1>5, <1>6, ZenonT(60) DEF FilesInv, FilesShape
<1>8. Served' = Served /\ Refused' = Refused /\ \A o : Att!SizeOf(o)' = Att!SizeOf(o)
  BY <1>6 DEF Served, Refused, Att!SizeOf
<1>9. FilesShape'
  BY <1>6, <1>7 DEF FilesInv, FilesShape
<1>10. v2.state # "absent" /\ \A u \in Requests : v5[u].at \notin Working
  BY <1>3 DEF FilesInv, RowFits, HolderFits, Att!AttachmentsConstants
<1>11. \A u \in Requests : HolderFits(u)' /\ BytesFit(u)'
  BY <1>4, <1>5, <1>6, <1>7, <1>8, <1>10 DEF FilesInv, HolderFits, BytesFit, Working, Bytes
<1>12. RowFits' /\ Silence' /\ Att!VerdictFitsObject'
  BY <1>3, <1>5, <1>6, <1>7, <1>8, <1>10 DEF FilesInv, RowFits, Silence, Att!VerdictFitsObject
<1>13. StoreFits'
  BY <1>3, <1>5, <1>6, <1>7, <1>8 DEF FilesInv, StoreFits, Bytes
<1>14. SizesFit'
  BY <1>3, <1>4, <1>5, <1>6, <1>7, <1>8 DEF FilesInv, SizesFit, NoOther, Bytes
<1> QED BY <1>9, <1>11, <1>12, <1>13, <1>14 DEF FilesInv

LEMMA AbortFileKeeps ==
  ASSUME FilesInv, Att!AttachmentsConstants, NEW t \in Requests, Att!AbortFile(t)
  PROVE  FilesInv'
<1> USE DEF Att!AbortFile
<1>1. /\ v5' = [v5 EXCEPT ![t] = Att!Idle] /\ v3' = (IF v3 = t THEN None ELSE v3)
      /\ v1' = v1 /\ v2' = v2 /\ v4' = v4 /\ v6' = v6 /\ v7' = v7 /\ v9' = v9
  OBVIOUS
<1>2. v5' \in [Requests -> FileRequest] /\ v5'[t] = Att!Idle /\ \A u \in Requests : u # t => v5'[u] = v5[u]
  BY <1>1, IdleIsRequest DEF FilesInv, FilesShape
<1>3. Served' = Served /\ Refused' = Refused /\ \A o : Att!SizeOf(o)' = Att!SizeOf(o)
  BY <1>1 DEF Served, Refused, Att!SizeOf
<1>4. v8' \in BOOLEAN /\ (~v8' => ~v8 /\ v5[t].at \notin Bytes)
  BY DEF FilesInv, FilesShape, Bytes
<1>5. FilesShape'
  BY <1>1, <1>2, <1>4 DEF FilesInv, FilesShape
<1>6. Att!Idle.at = "idle"
  BY DEF Att!Idle
<1>7. \A u \in Requests : HolderFits(u)' /\ BytesFit(u)'
  BY <1>1, <1>2, <1>3, <1>6 DEF FilesInv, HolderFits, BytesFit, Working, Bytes, Att!AttachmentsConstants
<1>8. RowFits' /\ Silence' /\ Att!VerdictFitsObject'
  BY <1>1, <1>2, <1>3, <1>6 DEF FilesInv, RowFits, NoOther, Silence, Working, Att!VerdictFitsObject
<1>9. StoreFits'
  BY <1>1, <1>2, <1>3, <1>4, <1>6 DEF FilesInv, StoreFits, Bytes
<1>10. SizesFit'
  BY <1>1, <1>2, <1>3, <1>6 DEF FilesInv, SizesFit, NoOther, Bytes
<1> QED BY <1>5, <1>7, <1>8, <1>9, <1>10 DEF FilesInv

LEMMA ReEncodeKeeps ==
  ASSUME FilesInv, Att!AttachmentsConstants, NEW t \in Requests, Att!ReEncodeStored(t)
  PROVE  FilesInv'
<1> DEFINE row == v5[t].row
<1>1. v5[t].at = "sized" /\ v5[t] \in FileRequest /\ row \in File /\ v4[row.key] # None
  BY DEF FilesInv, FilesShape, FileRequest, Att!ReEncodeStored
<1>2. /\ v1' = v1 /\ v2' = v2 /\ v3' = v3 /\ v6' = v6 /\ v7' = v7 /\ v8' = v8 /\ v9' = v9
  BY DEF Att!ReEncodeStored
<1>3. Served' = Served /\ Refused' = Refused /\ \A o : Att!SizeOf(o)' = Att!SizeOf(o)
  BY <1>2 DEF Served, Refused, Att!SizeOf
<1>4. /\ v2.state # "absent" /\ v3 = t /\ ~v2.removed /\ row.key = v2.key /\ row.key \in Att!Keys
      /\ \A u \in Requests : u # t => v5[u].at \notin Working
  BY <1>1, OneWorker DEF Working, FilesInv, BytesFit, File
<1>5. ~Refused => row.key = "first"
  BY <1>4 DEF FilesInv, RowFits
<1>6. \E q \in FileRequest :
        /\ v5' = [v5 EXCEPT ![t] = q] /\ q.at = "encoded" /\ q.row.key = row.key
        /\ ~v9 => q.row.size = Att!SizeOf(Served)
  <2>1. CASE v1.kind # "image" \/ Att!Rebuilt(t)
    <3>1. PICK q : q = [v5[t] EXCEPT !.at = "encoded"]
      OBVIOUS
    <3>2. q \in FileRequest /\ q.at = "encoded" /\ q.row = row /\ v5' = [v5 EXCEPT ![t] = q]
      BY <1>1, <2>1, <3>1 DEF FileRequest, Working, Att!ReEncodeStored
    <3>3. ~v9 => row.size = Att!SizeOf(v4[row.key])
      BY <1>1, <1>4 DEF FilesInv, SizesFit
    <3>4. v4[row.key] \in {"uploaded", "rebuilt"} /\ (v4[row.key] = "rebuilt" => v1.kind = "image")
      BY <1>1, <1>4 DEF FilesInv, FilesShape, StoreFits
    <3>5. v4[row.key] = Served
      BY <2>1, <3>4 DEF Served, Att!Rebuilt
    <3> QED BY <3>2, <3>3, <3>5
  <2>2. CASE v1.kind = "image" /\ ~Att!Rebuilt(t)
    <3>1. PICK r : r = [row EXCEPT !.size = v1.rebuilt, !.digest = TRUE]
      OBVIOUS
    <3>2. PICK q : q = [v5[t] EXCEPT !.at = "encoded", !.row = r]
      OBVIOUS
    <3>3. v1.rebuilt \in Att!Sizes
      BY DEF FilesInv, FilesShape
    <3>4. r \in File
      BY <1>1, <3>1, <3>3 DEF File
    <3>5. r.key = row.key /\ r.size = v1.rebuilt
      BY <1>1, <3>1 DEF File
    <3>6. q \in FileRequest /\ q.at = "encoded" /\ q.row = r
      BY <1>1, <3>2, <3>4 DEF FileRequest, Working
    <3>7. v5' = [v5 EXCEPT ![t] = q]
      BY <2>2, <3>1, <3>2 DEF Att!ReEncodeStored
    <3>8. Att!SizeOf(Served) = v1.rebuilt
      BY <2>2 DEF Served, Att!SizeOf
    <3> QED BY <3>5, <3>6, <3>7, <3>8
  <2> QED BY <2>1, <2>2
<1>7. PICK q \in FileRequest :
        /\ v5' = [v5 EXCEPT ![t] = q] /\ q.at = "encoded" /\ q.row.key = row.key
        /\ ~v9 => q.row.size = Att!SizeOf(Served)
  BY <1>6
<1>8. v5' \in [Requests -> FileRequest] /\ v5'[t] = q /\ \A u \in Requests : u # t => v5'[u] = v5[u]
  BY <1>7 DEF FilesInv, FilesShape
<1>9. \/ v1.kind # "image" /\ v4' = v4
      \/ v1.kind = "image" /\ v4' = [v4 EXCEPT ![row.key] = "rebuilt"]
  <2>1. CASE v1.kind # "image"
    BY <2>1 DEF Att!ReEncodeStored
  <2>2. CASE v1.kind = "image" /\ Att!Rebuilt(t)
    <3>1. v4' = v4 /\ v4[row.key] = "rebuilt"
      BY <2>2 DEF Att!ReEncodeStored, Att!Rebuilt
    <3>2. v4 = [v4 EXCEPT ![row.key] = "rebuilt"]
      BY <3>1 DEF FilesInv, FilesShape
    <3> QED BY <2>2, <3>1, <3>2
  <2>3. CASE v1.kind = "image" /\ ~Att!Rebuilt(t)
    BY <2>3 DEF Att!ReEncodeStored
  <2> QED BY <2>1, <2>2, <2>3
<1>10. /\ v4' \in [Att!Keys -> {None, "uploaded", "rebuilt"}]
       /\ \A k \in Att!Keys : v4'[k] = "rebuilt" => v1.kind = "image"
       /\ ~Refused => v4'["first"] = Served /\ v4'["quarantine"] = v4["quarantine"]
       /\ Refused => v4' = v4
  <2>1. Refused => v1.kind # "image"
    BY DEF Refused, Att!Bad
  <2>2. v4 \in [Att!Keys -> {None, "uploaded", "rebuilt"}] /\ "first" \in Att!Keys /\ "quarantine" \in Att!Keys
    BY DEF FilesInv, FilesShape, Att!Keys
  <2>3. \A k \in Att!Keys : v4[k] = "rebuilt" => v1.kind = "image"
    BY DEF FilesInv, StoreFits
  <2>4. v1.kind # "image" /\ ~Refused => v4["first"] = "uploaded"
    BY <1>1, <1>5, <2>2, <2>3
  <2> QED BY <1>4, <1>5, <1>9, <2>1, <2>2, <2>3, <2>4 DEF Served
<1>11. FilesShape'
  BY <1>2, <1>8, <1>10 DEF FilesInv, FilesShape
<1>12. \A u \in Requests : HolderFits(u)' /\ BytesFit(u)'
  BY <1>2, <1>3, <1>4, <1>7, <1>8, <1>10 DEF FilesInv, HolderFits, BytesFit, Working, Bytes
<1>13. RowFits' /\ Silence'
  BY <1>2, <1>3, <1>4, <1>8 DEF FilesInv, RowFits, Silence
<1>14. Att!VerdictFitsObject'
  BY <1>2, <1>3, <1>10 DEF FilesInv, RowFits, Att!VerdictFitsObject, Refused, Served
<1>15. StoreFits'
  BY <1>2, <1>3, <1>7, <1>8, <1>10 DEF FilesInv, StoreFits, Bytes
<1>16. SizesFit'
  <2>1. ~v9 => \A u \in Requests : u # t => v5[u].at = "idle"
    BY <1>1 DEF FilesInv, SizesFit, NoOther
  <2> QED BY <1>2, <1>3, <1>7, <1>8, <2>1 DEF FilesInv, SizesFit, NoOther, Bytes
<1> QED BY <1>11, <1>12, <1>13, <1>14, <1>15, <1>16 DEF FilesInv

LEMMA IngestKeeps ==
  ASSUME FilesInv, Att!AttachmentsConstants, NEW t \in Requests, Att!Ingest(t)
  PROVE  FilesInv'
<1>1. /\ v2.state = "absent" /\ v3 = None /\ \A u \in Requests : v5[u].at = "idle"
      /\ v1' = v1 /\ v2' = v2 /\ v3' = v3 /\ v6' = v6 /\ v7' = v7 /\ v8' = v8 /\ v9' = v9
  BY DEF FilesInv, RowFits, Att!Ingest, Att!Idle
<1>2. Served' = Served /\ Refused' = Refused /\ \A o : Att!SizeOf(o)' = Att!SizeOf(o)
  BY <1>1 DEF Served, Refused, Att!SizeOf
<1>3. PICK r : r = [Att!Absent EXCEPT !.state = "pending", !.size = Att!SizeOf(Served)]
  OBVIOUS
<1>4. PICK q : q = [Att!Idle EXCEPT !.at = "encoded", !.row = r]
  OBVIOUS
<1>5. Att!SizeOf(Served) \in Att!Sizes
  BY DEF FilesInv, FilesShape, Att!SizeOf, Att!Sizes, Att!DeclaredSize
<1>6. r \in File /\ r.size = Att!SizeOf(Served) /\ r.key = "first" /\ r.state = "pending"
  <2>1. r \in File
    BY <1>3, <1>5, AbsentIsFile DEF File
  <2>2. r.size = Att!SizeOf(Served) /\ r.key = Att!Absent.key /\ r.state = "pending"
    BY <1>3, <1>5, AbsentIsFile DEF File
  <2> QED BY <2>1, <2>2 DEF Att!Absent
<1>7. q \in FileRequest /\ q.at = "encoded" /\ q.row = r
  BY <1>4, <1>6, IdleIsRequest DEF FileRequest, Working
<1>8. v5' = [v5 EXCEPT ![t] = q] /\ v4' = [v4 EXCEPT !["first"] = Served]
  BY <1>3, <1>4 DEF Att!Ingest, Served
<1>9. v5' \in [Requests -> FileRequest] /\ v5'[t] = q /\ \A u \in Requests : u # t => v5'[u] = v5[u]
  BY <1>7, <1>8 DEF FilesInv, FilesShape
<1>10. /\ v4' \in [Att!Keys -> {None, "uploaded", "rebuilt"}]
       /\ v4'["first"] = Served /\ v4'["quarantine"] = v4["quarantine"]
  BY <1>8 DEF FilesInv, FilesShape, Att!Keys, Served
<1>11. \A k \in Att!Keys : v4'[k] = "rebuilt" => v1.kind = "image"
  BY <1>10 DEF FilesInv, StoreFits, Served, Att!Keys
<1>12. FilesShape'
  BY <1>1, <1>9, <1>10 DEF FilesInv, FilesShape
<1>13. v2.key = "first"
  BY <1>1 DEF FilesInv, RowFits
<1>14. \A u \in Requests : HolderFits(u)' /\ BytesFit(u)'
  BY <1>1, <1>2, <1>6, <1>7, <1>9, <1>10, <1>13 DEF FilesInv, HolderFits, BytesFit, Working, Bytes
<1>15. RowFits'
  BY <1>1, <1>2, <1>7, <1>9 DEF FilesInv, RowFits, NoOther
<1>16. Silence' /\ Att!VerdictFitsObject'
  <2>1. ~v2.removed
    BY <1>1 DEF FilesInv, RowFits
  <2> QED BY <1>1, <1>2, <2>1 DEF FilesInv, Silence, Att!VerdictFitsObject
<1>17. StoreFits'
  BY <1>1, <1>2, <1>7, <1>9, <1>10, <1>11 DEF FilesInv, StoreFits, Bytes
<1>18. SizesFit'
  BY <1>1, <1>2, <1>6, <1>7, <1>9 DEF FilesInv, SizesFit, NoOther, Bytes
<1> QED BY <1>12, <1>14, <1>15, <1>16, <1>17, <1>18 DEF FilesInv

LEMMA ApplyScanKeeps ==
  ASSUME FilesInv, Att!AttachmentsConstants, NEW t \in Requests, Att!ApplyScan(t)
  PROVE  FilesInv'
<1> DEFINE row == v5[t].row
<1>1. v5[t].at = "encoded" /\ v5[t] \in FileRequest /\ row \in File /\ v4[row.key] # None
  BY DEF FilesInv, FilesShape, FileRequest, Att!ApplyScan
<1>2. /\ v1' = v1 /\ v2' = v2 /\ v3' = v3 /\ v6' = v6 /\ v7' = v7 /\ v8' = v8 /\ v9' = v9
  BY DEF Att!ApplyScan
<1>3. Served' = Served /\ Refused' = Refused /\ \A o : Att!SizeOf(o)' = Att!SizeOf(o)
  BY <1>2 DEF Served, Refused, Att!SizeOf
<1>4. /\ ~v2.removed /\ row.key = v2.key /\ row.key \in Att!Keys
      /\ v2.state # "absent" => v3 = t
      /\ \A u \in Requests : u # t => v5[u].at \notin Working
  BY <1>1, OneWorker DEF Working, FilesInv, BytesFit, File
<1>5. \A u \in Requests : u # t => v5[u].at \notin Bytes
  BY <1>4 DEF Working, Bytes
<1>6. \E q \in FileRequest :
        /\ v5' = [v5 EXCEPT ![t] = q] /\ q.at = "scanned" /\ q.row.size = row.size
        /\ IF Refused THEN q.row.state = "quarantined" /\ q.row.key = "quarantine"
           ELSE q.row.state = "clean" /\ q.row.key = row.key
  <2>1. CASE Refused
    <3>1. PICK r : r = [row EXCEPT !.state = "quarantined", !.key = "quarantine"]
      OBVIOUS
    <3>2. PICK q : q = [v5[t] EXCEPT !.at = "scanned", !.row = r]
      OBVIOUS
    <3>3. r \in File
      BY <1>1, <3>1 DEF File, Att!Keys
    <3>4. r.state = "quarantined" /\ r.key = "quarantine" /\ r.size = row.size
      BY <1>1, <3>1 DEF File
    <3>5. q \in FileRequest /\ q.at = "scanned" /\ q.row = r
      BY <1>1, <3>2, <3>3 DEF FileRequest, Working
    <3>6. v5' = [v5 EXCEPT ![t] = q]
      BY <2>1, <3>1, <3>2 DEF Att!ApplyScan, Refused
    <3> QED BY <2>1, <3>4, <3>5, <3>6
  <2>2. CASE ~Refused
    <3>1. PICK r : r = [row EXCEPT !.state = "clean"]
      OBVIOUS
    <3>2. PICK q : q = [v5[t] EXCEPT !.at = "scanned", !.row = r]
      OBVIOUS
    <3>3. r \in File /\ r.state = "clean" /\ r.key = row.key /\ r.size = row.size
      BY <1>1, <3>1, WithState
    <3>4. q \in FileRequest /\ q.at = "scanned" /\ q.row = r
      BY <1>1, <3>2, <3>3 DEF FileRequest, Working
    <3>5. v5' = [v5 EXCEPT ![t] = q]
      BY <2>2, <3>1, <3>2 DEF Att!ApplyScan, Refused
    <3> QED BY <2>2, <3>3, <3>4, <3>5
  <2> QED BY <2>1, <2>2
<1>7. PICK q \in FileRequest :
        /\ v5' = [v5 EXCEPT ![t] = q] /\ q.at = "scanned" /\ q.row.size = row.size
        /\ IF Refused THEN q.row.state = "quarantined" /\ q.row.key = "quarantine"
           ELSE q.row.state = "clean" /\ q.row.key = row.key
  BY <1>6
<1>8. v5' \in [Requests -> FileRequest] /\ v5'[t] = q /\ \A u \in Requests : u # t => v5'[u] = v5[u]
  BY <1>7 DEF FilesInv, FilesShape
<1>9. ~Refused => v4' = v4
  BY DEF Refused, Att!ApplyScan
<1>10. Refused => v4' = [k \in Att!Keys |-> IF k = "quarantine" THEN v4[row.key] ELSE None]
  BY DEF Refused, Att!ApplyScan
<1>11. /\ v4' \in [Att!Keys -> {None, "uploaded", "rebuilt"}]
       /\ Refused => v4'["quarantine"] # None /\ v4'["first"] = None
  BY <1>1, <1>4, <1>9, <1>10 DEF FilesInv, FilesShape, Att!Keys
<1>12. \A k \in Att!Keys : v4'[k] = "rebuilt" => v1.kind = "image"
  BY <1>4, <1>9, <1>10 DEF FilesInv, StoreFits, Att!AttachmentsConstants
<1>13. FilesShape'
  BY <1>2, <1>8, <1>11 DEF FilesInv, FilesShape
<1>14. ~Refused => row.key = "first" /\ v4["first"] = Served /\ v4'["first"] = Served
  BY <1>1, <1>4, <1>9 DEF FilesInv, RowFits, BytesFit, Bytes
<1>15. \A u \in Requests : HolderFits(u)'
  BY <1>1, <1>2, <1>4, <1>7, <1>8 DEF FilesInv, HolderFits, Working
<1>16. \A u \in Requests : BytesFit(u)'
  BY <1>2, <1>3, <1>4, <1>7, <1>8, <1>11, <1>14 DEF FilesInv, BytesFit, Working, Bytes
<1>17. RowFits'
  BY <1>1, <1>2, <1>3, <1>7, <1>8 DEF FilesInv, RowFits, NoOther
<1>18. Silence'
  BY <1>2, <1>4 DEF FilesInv, Silence
<1>19. Att!VerdictFitsObject'
  BY <1>2, <1>9, <1>11 DEF FilesInv, RowFits, Att!VerdictFitsObject, Refused
<1>20. StoreFits'
  BY <1>2, <1>3, <1>7, <1>8, <1>9, <1>12 DEF FilesInv, StoreFits, Bytes
<1>21. SizesFit'
  <2>1. ~v9 => \A u \in Requests : u # t => v5[u].at = "idle"
    BY <1>1 DEF FilesInv, SizesFit, NoOther
  <2> QED BY <1>1, <1>2, <1>3, <1>7, <1>8, <2>1 DEF FilesInv, SizesFit, NoOther, Bytes
<1> QED BY <1>13, <1>15, <1>16, <1>17, <1>18, <1>19, <1>20, <1>21 DEF FilesInv

LEMMA CommitFileKeeps ==
  ASSUME FilesInv, Att!AttachmentsConstants, NEW t \in Requests, Att!CommitFile(t)
  PROVE  FilesInv'
<1> DEFINE row == v5[t].row
<1>1. v5[t].at = "scanned" /\ row \in File
  BY DEF FilesInv, FilesShape, FileRequest, Att!CommitFile
<1>2. /\ v1' = v1 /\ v4' = v4 /\ v7' = v7 /\ v8' = v8 /\ v9' = v9 /\ v5' = [v5 EXCEPT ![t] = Att!Idle]
      /\ v6' = v6 + (IF row.state = "clean" THEN 1 ELSE 0) /\ v3' = (IF v3 = t THEN None ELSE v3)
  BY DEF Att!CommitFile
<1>3. Served' = Served /\ Refused' = Refused /\ \A o : Att!SizeOf(o)' = Att!SizeOf(o)
  BY <1>2 DEF Served, Refused, Att!SizeOf
<1>4. /\ v3 \in {t, None} /\ ~v2.removed
      /\ \A u \in Requests : u # t => v5[u].at \notin Working
  BY <1>1, OneWorker DEF Working
<1>5. v5' \in [Requests -> FileRequest] /\ v5'[t] = Att!Idle /\ \A u \in Requests : u # t => v5'[u] = v5[u]
  BY <1>2, IdleIsRequest DEF FilesInv, FilesShape
<1>6. Att!Idle.at = "idle" /\ v3' = None
  BY <1>2, <1>4 DEF Att!Idle
<1>7. \A u \in Requests : v5'[u].at \notin Working /\ v5'[u].at \notin Bytes
  BY <1>4, <1>5, <1>6 DEF Working, Bytes
<1>8. PICK r : r = [row EXCEPT !.removed = v2.removed]
  OBVIOUS
<1>9. v2' = r /\ v2.removed \in BOOLEAN
  BY <1>8 DEF Att!CommitFile, FilesInv, FilesShape, File
<1>10. r \in File
  BY <1>1, <1>8, <1>9 DEF File
<1>11. r.state = row.state /\ r.key = row.key /\ r.size = row.size
  BY <1>1, <1>8, <1>9 DEF File
<1>12. r.removed = v2.removed
  BY <1>1, <1>8, <1>9 DEF File
<1>13. IF Refused THEN /\ row.state = "quarantined" /\ row.key = "quarantine"
                       /\ v4["quarantine"] # None /\ v4["first"] = None
       ELSE row.state = "clean" /\ row.key = "first" /\ v4["first"] = Served
  BY <1>1 DEF FilesInv, BytesFit, Bytes
<1>14. v6 \in Nat /\ v6' \in Nat /\ (v6' > 0 => v6 > 0 \/ row.state = "clean")
  BY <1>2 DEF FilesInv, FilesShape
<1>15. FilesShape'
  BY <1>2, <1>5, <1>6, <1>9, <1>10, <1>14 DEF FilesInv, FilesShape
<1>16. \A u \in Requests : HolderFits(u)'
  BY <1>5, <1>6, <1>7 DEF FilesInv, HolderFits, Att!AttachmentsConstants
<1>17. \A u \in Requests : BytesFit(u)'
  BY <1>7 DEF BytesFit, Working, Bytes
<1>18. RowFits'
  BY <1>3, <1>9, <1>11, <1>13 DEF RowFits
<1>19. Silence'
  BY <1>4, <1>9, <1>11, <1>12, <1>13, <1>14 DEF FilesInv, Silence, RowFits
<1>20. Att!VerdictFitsObject'
  BY <1>2, <1>9, <1>11, <1>13 DEF Att!VerdictFitsObject, Refused, Served
<1>21. StoreFits'
  BY <1>2, <1>3, <1>9, <1>11, <1>13 DEF FilesInv, StoreFits
<1>22. SizesFit'
  <2>1. ~v9 => \A u \in Requests : u # t => v5[u].at = "idle"
    BY <1>1 DEF FilesInv, SizesFit, NoOther
  <2>2. ~v9 => row.size = Att!SizeOf(Served)
    BY <1>1 DEF FilesInv, SizesFit, Bytes
  <2> QED BY <1>2, <1>3, <1>5, <1>6, <1>9, <1>11, <2>1, <2>2 DEF SizesFit, NoOther, Bytes
<1> QED BY <1>15, <1>16, <1>17, <1>18, <1>19, <1>20, <1>21, <1>22 DEF FilesInv

LEMMA FilesMean ==
  ASSUME FilesInv, Att!AttachmentsConstants
  PROVE  /\ Att!VerdictFitsObject /\ Att!ConfirmStaysPossible /\ Att!SizeIsTrue
         /\ v6 > 0 => v2.state = "clean"
         /\ v2.removed => v6 = v7
<1>1. Att!VerdictFitsObject
  BY DEF FilesInv
<1>2. Att!ConfirmStaysPossible
  <2> SUFFICES ASSUME v2.state = "pending", \E k \in Att!Keys : v4[k] # None, ~v8,
                      \A t \in Requests : v5[t] = Att!Idle
               PROVE  v4[v2.key] # None /\ Att!SizeOf(v4[v2.key]) <= v2.size
    BY DEF Att!ConfirmStaysPossible
  <2>1. \A t \in Requests : v5[t].at \notin Bytes
    BY DEF Att!Idle, Bytes
  <2>2. v4["quarantine"] = None /\ v4["first"] \in {None, "uploaded"}
    BY <2>1 DEF FilesInv, StoreFits
  <2>3. v2.key = "first" /\ v2.size = Att!DeclaredSize /\ v4["first"] = "uploaded"
    BY <2>2 DEF FilesInv, RowFits, Att!Keys
  <2> QED BY <2>3 DEF Att!SizeOf, Att!DeclaredSize, Att!AttachmentsConstants
<1>3. Att!SizeIsTrue
  <2> SUFFICES ASSUME v2.state \in {"clean", "quarantined"}, ~v9
               PROVE  v2.size = Att!SizeOf(v4[v2.key])
    BY DEF Att!SizeIsTrue
  <2>1. v2.size = Att!SizeOf(Served)
    BY DEF FilesInv, SizesFit
  <2>2. CASE v2.state = "clean"
    BY <2>1, <2>2 DEF FilesInv, RowFits, Att!VerdictFitsObject, Served
  <2>3. CASE v2.state = "quarantined"
    <3>1. v2.key = "quarantine" /\ Refused /\ v1.kind # "image"
      BY <2>3 DEF FilesInv, RowFits, Refused, Att!Bad
    <3>2. v4["quarantine"] # "rebuilt"
      BY <3>1 DEF FilesInv, StoreFits, Att!Keys
    <3> QED BY <2>1, <3>1, <3>2 DEF Att!SizeOf, Served
  <2> QED BY <2>2, <2>3
<1> QED BY <1>1, <1>2, <1>3 DEF FilesInv, Silence

LEMMA FilesStep ==
  ASSUME FilesInv, Att!AttachmentsConstants, [Att!AttachmentsNext]_(Att!fileVars)
  PROVE  FilesInv'
<1>1. CASE Att!Presign
  BY <1>1, PresignKeeps
<1>2. CASE Att!Upload
  BY <1>2, UploadKeeps
<1>3. CASE Att!Remove
  BY <1>3, RemoveKeeps
<1>4. ASSUME NEW t \in Requests,
             \/ Att!Confirm(t) \/ Att!SetSize(t) \/ Att!ReEncodeStored(t) \/ Att!Ingest(t)
             \/ Att!ApplyScan(t) \/ Att!CommitFile(t) \/ Att!AbortFile(t)
      PROVE  FilesInv'
  BY <1>4, ConfirmKeeps, SetSizeKeeps, ReEncodeKeeps, IngestKeeps, ApplyScanKeeps, CommitFileKeeps, AbortFileKeeps
<1>5. CASE UNCHANGED Att!fileVars
  BY <1>5 DEF Att!fileVars, FilesInv, FilesShape, HolderFits, BytesFit, RowFits, StoreFits, SizesFit,
       Silence, NoOther, Served, Refused, Att!VerdictFitsObject, Att!SizeOf
<1> QED BY <1>1, <1>2, <1>3, <1>4, <1>5 DEF Att!AttachmentsNext

-----------------------------------------------------------------------------
(* Request forms (Frm): v1 the versions, v2 the form, v3 the requests, v4  *)
(* how many began, v5 the tickets made, v6 the versions served.            *)
(*                                                                         *)
(* First the rules of form-schema.ts: working through the fields, as       *)
(* validateSubmission does, gives what a form means.  Both definitions are *)
(* recursive functions; that there are such functions, and what the first  *)
(* i fields come to, is shown for the least number for which it would not  *)
(* be so.                                                                  *)

LEMMA LeastNumber ==
  ASSUME NEW T, T \subseteq Nat, T # {}
  PROVE  \E x \in T : \A y \in T : x <= y
<1>1. PICK R : R = OpToRel(<, Nat)
  OBVIOUS
<1>2. \A x, y \in Nat : <<x, y>> \in R <=> x < y
  BY <1>1 DEF OpToRel
<1>3. \E x \in T : \A y \in T : ~(<<y, x>> \in R)
  BY <1>1, NatLessThanWellFounded, WFMin
<1> HIDE <1>1
<1> QED
  <2>1. PICK x \in T : \A y \in T : ~(<<y, x>> \in R)
    BY <1>3
  <2>2. \A y \in T : ~(y < x)
    BY <1>2, <2>1
  <2> QED BY <2>1, <2>2

NoneWorked == [problems |-> {}, visible |-> {}, stored |-> {}]

(* s is what validateSubmission has after each of the first n fields.      *)
WorkedThrough(s, def, answers, n) ==
  s = [i \in 0 .. n |-> IF i = 0 THEN NoneWorked ELSE Frm!AskField(answers, s[i - 1], def[i])]

LEMMA WorkExists ==
  ASSUME NEW N \in Nat, NEW def, NEW answers
  PROVE  \E s : WorkedThrough(s, def, answers, N)
<1> DEFINE T == {n \in 0..N : ~\E s : WorkedThrough(s, def, answers, n)}
<1>1. SUFFICES ASSUME T # {} PROVE FALSE
  <2>1. N \in 0..N
    OBVIOUS
  <2> QED BY <2>1
<1>2. PICK n \in T : \A m \in T : n <= m
  <2>1. T \subseteq Nat
    OBVIOUS
  <2> HIDE DEF T
  <2> QED BY <1>1, <2>1, LeastNumber
<1>3. n \in 0..N /\ ~\E s : WorkedThrough(s, def, answers, n)
  OBVIOUS
<1>4. n # 0
  <2>1. WorkedThrough([i \in 0..0 |-> NoneWorked], def, answers, 0)
    BY DEF WorkedThrough
  <2> QED BY <1>3, <2>1
<1>5. n - 1 \in 0..N /\ n - 1 \notin T
  BY <1>2, <1>3, <1>4
<1>6. PICK s : WorkedThrough(s, def, answers, n - 1)
  BY <1>5
<1> DEFINE t == [i \in 0..n |-> IF i = n THEN Frm!AskField(answers, s[n - 1], def[n]) ELSE s[i]]
<1>7. WorkedThrough(t, def, answers, n)
  <2>1. ASSUME NEW i \in 0..n
        PROVE  t[i] = IF i = 0 THEN NoneWorked ELSE Frm!AskField(answers, t[i - 1], def[i])
    <3>1. CASE i = n
      <4>1. t[n - 1] = s[n - 1]
        BY <1>3, <1>4
      <4> QED BY <1>3, <1>4, <3>1, <4>1
    <3>2. CASE i # n
      <4>1. i \in 0..(n - 1) /\ t[i] = s[i]
        BY <1>3, <3>2
      <4>2. s[i] = IF i = 0 THEN NoneWorked ELSE Frm!AskField(answers, s[i - 1], def[i])
        BY <1>6, <4>1 DEF WorkedThrough
      <4>3. i # 0 => t[i - 1] = s[i - 1]
        BY <1>3, <4>1
      <4> QED BY <4>1, <4>2, <4>3
    <3> QED BY <3>1, <3>2
  <2>2. t = [i \in 0..n |-> t[i]]
    OBVIOUS
  <2> HIDE DEF t
  <2> QED BY <2>1, <2>2 DEF WorkedThrough
<1> QED BY <1>3, <1>7

(* a says which of the first n fields are asked.                           *)
IsAsked(a, def, answers, i) ==
  def[i].when # Frm!NoCondition =>
    \E j \in 1 .. i - 1 : /\ def[j].key = def[i].when.field /\ a[j]
                          /\ Frm!AnswerTo(answers, def[j].key) = def[i].when.equals
AskedAmong(a, def, answers, fields) == a = [i \in fields |-> IsAsked(a, def, answers, i)]
AskedFields(a, def, answers, n) == AskedAmong(a, def, answers, 1 .. n)

LEMMA AskedExists ==
  ASSUME NEW N \in Nat, NEW def, NEW answers
  PROVE  \E a : AskedFields(a, def, answers, N)
<1> DEFINE T == {n \in 0..N : ~\E a : AskedFields(a, def, answers, n)}
<1>1. SUFFICES ASSUME T # {} PROVE FALSE
  <2>1. N \in 0..N
    OBVIOUS
  <2> QED BY <2>1
<1>2. PICK n \in T : \A m \in T : n <= m
  <2>1. T \subseteq Nat
    OBVIOUS
  <2> HIDE DEF T
  <2> QED BY <1>1, <2>1, LeastNumber
<1>3. n \in 0..N /\ ~\E a : AskedFields(a, def, answers, n)
  OBVIOUS
<1>4. n # 0
  <2>1. AskedFields([i \in 1..0 |-> TRUE], def, answers, 0)
    BY DEF AskedFields, AskedAmong
  <2> QED BY <1>3, <2>1
<1>5. n - 1 \in 0..N /\ n - 1 \notin T
  BY <1>2, <1>3, <1>4
<1>6. PICK a : AskedFields(a, def, answers, n - 1)
  BY <1>5
<1> DEFINE b == [i \in 1..n |-> IF i = n THEN IsAsked(a, def, answers, n) ELSE a[i]]
<1>7. \A i \in 1..(n - 1) : b[i] = a[i] /\ a[i] = IsAsked(a, def, answers, i)
  BY <1>3, <1>4, <1>6 DEF AskedFields, AskedAmong
<1>8. \A i \in 1..n : IsAsked(a, def, answers, i) = IsAsked(b, def, answers, i)
  <2> SUFFICES ASSUME NEW i \in 1..n PROVE IsAsked(a, def, answers, i) = IsAsked(b, def, answers, i)
    OBVIOUS
  <2>1. \A j \in 1 .. i - 1 : a[j] = b[j]
    BY <1>3, <1>7
  <2> HIDE DEF b
  <2> QED BY <2>1 DEF IsAsked
<1>9. b[n] = IsAsked(a, def, answers, n)
  BY <1>3, <1>4
<1>10. AskedFields(b, def, answers, n)
  <2>1. b = [i \in 1..n |-> b[i]]
    OBVIOUS
  <2>2. \A i \in 1..n : b[i] = IsAsked(b, def, answers, i)
    BY <1>3, <1>7, <1>8, <1>9
  <2> HIDE DEF b
  <2> QED BY <2>1, <2>2 DEF AskedFields, AskedAmong
<1> QED BY <1>3, <1>10

(* The two definitions by their recursive functions.                       *)
LEMMA WhatIsWorked ==
  ASSUME NEW def, NEW answers, Len(def) \in Nat
  PROVE  \E s : /\ WorkedThrough(s, def, answers, Len(def))
                /\ Frm!ValidateSubmission(def, answers)
                     = [problems |-> s[Len(def)].problems
                                       \cup {<<k, "unknown field">> : k \in DOMAIN answers \ Frm!KeysOf(def)},
                        stored |-> s[Len(def)].stored]
<1> DEFINE s == CHOOSE f : f = [i \in 0 .. Len(def) |->
                  IF i = 0 THEN [problems |-> {}, visible |-> {}, stored |-> {}]
                  ELSE Frm!AskField(answers, f[i - 1], def[i])]
<1>1. Frm!ValidateSubmission(def, answers)
        = [problems |-> s[Len(def)].problems
                          \cup {<<k, "unknown field">> : k \in DOMAIN answers \ Frm!KeysOf(def)},
           stored |-> s[Len(def)].stored]
  BY DEF Frm!ValidateSubmission
<1>2. WorkedThrough(s, def, answers, Len(def))
  <2>1. \E f : WorkedThrough(f, def, answers, Len(def))
    BY WorkExists
  <2>2. \E f : f = [i \in 0 .. Len(def) |->
                  IF i = 0 THEN [problems |-> {}, visible |-> {}, stored |-> {}]
                  ELSE Frm!AskField(answers, f[i - 1], def[i])]
    BY <2>1, Zenon DEF WorkedThrough, NoneWorked
  <2>3. s = [i \in 0 .. Len(def) |->
                  IF i = 0 THEN [problems |-> {}, visible |-> {}, stored |-> {}]
                  ELSE Frm!AskField(answers, s[i - 1], def[i])]
    BY <2>2, Zenon
  <2> QED BY <2>3, Zenon DEF WorkedThrough, NoneWorked
<1> HIDE DEF s
<1> QED BY <1>1, <1>2

LEMMA WhatIsAsked ==
  ASSUME NEW def, NEW answers, Len(def) \in Nat, DOMAIN def = 1 .. Len(def)
  PROVE  \E a : AskedFields(a, def, answers, Len(def)) /\ Frm!Asked(def, answers) = {i \in DOMAIN def : a[i]}
<1> DEFINE a == CHOOSE f : f = [i \in DOMAIN def |->
                  def[i].when # Frm!NoCondition =>
                    \E j \in 1 .. i - 1 : /\ def[j].key = def[i].when.field /\ f[j]
                                          /\ Frm!AnswerTo(answers, def[j].key) = def[i].when.equals]
<1>1. Frm!Asked(def, answers) = {i \in DOMAIN def : a[i]}
  BY DEF Frm!Asked
<1>2. AskedFields(a, def, answers, Len(def))
  <2>1. \E f : AskedAmong(f, def, answers, DOMAIN def)
    BY AskedExists DEF AskedFields
  <2>2. \E f : f = [i \in DOMAIN def |->
                  def[i].when # Frm!NoCondition =>
                    \E j \in 1 .. i - 1 : /\ def[j].key = def[i].when.field /\ f[j]
                                          /\ Frm!AnswerTo(answers, def[j].key) = def[i].when.equals]
    BY <2>1, Zenon DEF AskedAmong, IsAsked
  <2>3. a = [i \in DOMAIN def |->
                  def[i].when # Frm!NoCondition =>
                    \E j \in 1 .. i - 1 : /\ def[j].key = def[i].when.field /\ a[j]
                                          /\ Frm!AnswerTo(answers, def[j].key) = def[i].when.equals]
    BY <2>2, Zenon
  <2>4. AskedAmong(a, def, answers, DOMAIN def)
    BY <2>3, Zenon DEF AskedAmong, IsAsked
  <2> QED BY <2>4 DEF AskedFields
<1> HIDE DEF a
<1> QED BY <1>1, <1>2

(* What comes of the field j when it is asked.                             *)
Answer(def, answers, j) == Frm!AnswerTo(answers, def[j].key)
NoOption(def, answers, j) == def[j].kind = "choice" /\ Answer(def, answers, j) \notin Options
IsKept(a, def, answers, j) ==
  a[j] /\ Answer(def, answers, j) # "blank" /\ ~NoOption(def, answers, j)
IsWrong(a, def, answers, j) ==
  a[j] /\ (IF Answer(def, answers, j) = "blank" THEN def[j].required ELSE NoOption(def, answers, j))

KeptUpTo(a, def, answers, i) == {k \in 1 .. i : IsKept(a, def, answers, k)}
VisibleUpTo(a, def, answers, i) ==
  {<<def[j].key, Answer(def, answers, j)>> : j \in KeptUpTo(a, def, answers, i)}
StoredUpTo(a, def, answers, i) ==
  {<<def[j].target, Answer(def, answers, j)>> : j \in KeptUpTo(a, def, answers, i)}

Means(r, a, def, answers, i) ==
  \E p : /\ r = [problems |-> p, visible |-> VisibleUpTo(a, def, answers, i),
                 stored |-> StoredUpTo(a, def, answers, i)]
         /\ (p = {}) <=> (\A j \in 1 .. i : ~IsWrong(a, def, answers, j))

LEMMA KeptGrows ==
  ASSUME NEW N \in Nat, NEW i \in 1..N, NEW a, NEW def, NEW answers
  PROVE  /\ IsKept(a, def, answers, i) =>
              /\ VisibleUpTo(a, def, answers, i)
                   = VisibleUpTo(a, def, answers, i - 1) \cup {<<def[i].key, Answer(def, answers, i)>>}
              /\ StoredUpTo(a, def, answers, i)
                   = StoredUpTo(a, def, answers, i - 1) \cup {<<def[i].target, Answer(def, answers, i)>>}
         /\ ~IsKept(a, def, answers, i) =>
              /\ VisibleUpTo(a, def, answers, i) = VisibleUpTo(a, def, answers, i - 1)
              /\ StoredUpTo(a, def, answers, i) = StoredUpTo(a, def, answers, i - 1)
<1>1. 1 .. i = (1 .. i - 1) \cup {i}
  OBVIOUS
<1>2. IsKept(a, def, answers, i) => KeptUpTo(a, def, answers, i) = KeptUpTo(a, def, answers, i - 1) \cup {i}
  BY <1>1 DEF KeptUpTo
<1>3. ~IsKept(a, def, answers, i) => KeptUpTo(a, def, answers, i) = KeptUpTo(a, def, answers, i - 1)
  BY <1>1 DEF KeptUpTo
<1> QED BY <1>2, <1>3 DEF VisibleUpTo, StoredUpTo

(* A field's condition, as it stands in the answers kept so far, says       *)
(* whether the field is asked: the one it names is a choice before it.      *)
LEMMA ConditionIsAsked ==
  ASSUME NEW N \in Nat, NEW def, NEW answers, NEW a, DOMAIN def = 1 .. N, Frm!Sound(def),
         "blank" \notin Options, AskedFields(a, def, answers, N), NEW i \in 1..N
  PROVE  a[i] <=> (def[i].when = Frm!NoCondition
                     \/ Frm!ConditionHolds(def[i].when, VisibleUpTo(a, def, answers, i - 1)))
<1>1. a[i] = IsAsked(a, def, answers, i)
  BY DEF AskedFields, AskedAmong
<1>2. CASE def[i].when = Frm!NoCondition
  BY <1>1, <1>2 DEF IsAsked
<1>3. CASE def[i].when # Frm!NoCondition
  <2>1. PICK k \in 1 .. i - 1 : /\ def[k].key = def[i].when.field /\ def[k].kind = "choice"
                                /\ def[i].when.equals \in Options
    BY <1>3 DEF Frm!Sound
  <2>2. \A j \in 1 .. i - 1 : def[j].key = def[i].when.field => j = k
    <3>1. i - 1 \in 0..N /\ \A j \in 1 .. i - 1 : j \in 1 .. N
      OBVIOUS
    <3> QED BY <2>1, <3>1 DEF Frm!Sound
  <2>3. a[i] <=> a[k] /\ Answer(def, answers, k) = def[i].when.equals
    BY <1>1, <1>3, <2>1, <2>2 DEF IsAsked, Answer
  <2>4. IsKept(a, def, answers, k) /\ Answer(def, answers, k) = def[i].when.equals
          <=> a[k] /\ Answer(def, answers, k) = def[i].when.equals
    BY <2>1 DEF IsKept, NoOption
  <2>5. ASSUME IsKept(a, def, answers, k), Answer(def, answers, k) = def[i].when.equals
        PROVE  Frm!ConditionHolds(def[i].when, VisibleUpTo(a, def, answers, i - 1))
    BY <2>1, <2>5 DEF Frm!ConditionHolds, VisibleUpTo, KeptUpTo
  <2>6. ASSUME Frm!ConditionHolds(def[i].when, VisibleUpTo(a, def, answers, i - 1))
        PROVE  IsKept(a, def, answers, k) /\ Answer(def, answers, k) = def[i].when.equals
    <3>1. <<def[i].when.field, def[i].when.equals>> \in VisibleUpTo(a, def, answers, i - 1)
      BY <2>6 DEF Frm!ConditionHolds
    <3>2. PICK j \in KeptUpTo(a, def, answers, i - 1) :
            <<def[i].when.field, def[i].when.equals>> = <<def[j].key, Answer(def, answers, j)>>
      BY <3>1 DEF VisibleUpTo
    <3>3. def[j].key = def[i].when.field /\ Answer(def, answers, j) = def[i].when.equals
      BY <3>2
    <3>4. j \in 1 .. i - 1 /\ IsKept(a, def, answers, j)
      BY DEF KeptUpTo
    <3> QED BY <2>2, <3>3, <3>4
  <2> QED BY <1>3, <2>3, <2>4, <2>5, <2>6
<1> QED BY <1>2, <1>3

LEMMA FieldMeans ==
  ASSUME NEW N \in Nat, NEW def, NEW answers, NEW a, DOMAIN def = 1 .. N, Frm!Sound(def),
         "blank" \notin Options, AskedFields(a, def, answers, N), NEW i \in 1..N, NEW r,
         Means(r, a, def, answers, i - 1)
  PROVE  Means(Frm!AskField(answers, r, def[i]), a, def, answers, i)
<1> DEFINE V == VisibleUpTo(a, def, answers, i - 1)
           S == StoredUpTo(a, def, answers, i - 1)
           W == \A j \in 1 .. i - 1 : ~IsWrong(a, def, answers, j)
           f == def[i]
           x == Answer(def, answers, i)
           q == Frm!AskField(answers, r, def[i])
<1>1. PICK p : r = [problems |-> p, visible |-> V, stored |-> S] /\ ((p = {}) <=> W)
  BY DEF Means
<1>2. (\A j \in 1 .. i : ~IsWrong(a, def, answers, j)) <=> (W /\ ~IsWrong(a, def, answers, i))
  <2>1. 1 .. i = (1 .. i - 1) \cup {i}
    OBVIOUS
  <2> QED BY <2>1
<1>3. /\ r.visible = V /\ Frm!AnswerTo(answers, f.key) = x
      /\ ~a[i] <=> (f.when # Frm!NoCondition /\ ~Frm!ConditionHolds(f.when, r.visible))
  <2>1. r.visible = V
    BY <1>1
  <2>2. ~a[i] <=> (f.when # Frm!NoCondition /\ ~Frm!ConditionHolds(f.when, V))
    BY ConditionIsAsked
  <2> QED BY <2>1, <2>2 DEF Answer
<1>4. /\ IsKept(a, def, answers, i) =>
           /\ VisibleUpTo(a, def, answers, i) = V \cup {<<f.key, x>>}
           /\ StoredUpTo(a, def, answers, i) = S \cup {<<f.target, x>>}
      /\ ~IsKept(a, def, answers, i) =>
           VisibleUpTo(a, def, answers, i) = V /\ StoredUpTo(a, def, answers, i) = S
  BY KeptGrows
<1> HIDE DEF V, S, W, f, x
<1>5. SUFFICES \E p2, V2, S2 : /\ q = [problems |-> p2, visible |-> V2, stored |-> S2]
                               /\ (p2 = {}) <=> (W /\ ~IsWrong(a, def, answers, i))
                               /\ V2 = VisibleUpTo(a, def, answers, i)
                               /\ S2 = StoredUpTo(a, def, answers, i)
  BY <1>2 DEF Means
<1>6. CASE ~a[i]
  <2>1. q = r
    BY <1>3, <1>6 DEF Frm!AskField, f
  <2>2. ~IsKept(a, def, answers, i) /\ ~IsWrong(a, def, answers, i)
    BY <1>6 DEF IsKept, IsWrong
  <2> QED BY <1>1, <1>4, <2>1, <2>2
<1>7. CASE a[i] /\ x = "blank" /\ ~f.required
  <2>1. q = [r EXCEPT !.problems = r.problems]
    BY <1>3, <1>7 DEF Frm!AskField, f
  <2>2. q = [problems |-> p, visible |-> V, stored |-> S]
    BY <1>1, <2>1
  <2>3. ~IsKept(a, def, answers, i) /\ ~IsWrong(a, def, answers, i)
    BY <1>7 DEF IsKept, IsWrong, x, f
  <2> QED BY <1>1, <1>4, <2>2, <2>3
<1>8. CASE a[i] /\ x = "blank" /\ f.required
  <2>1. q = [r EXCEPT !.problems = r.problems \cup {<<f.key, "required">>}]
    BY <1>3, <1>8 DEF Frm!AskField, f
  <2>2. q = [problems |-> p \cup {<<f.key, "required">>}, visible |-> V, stored |-> S]
    BY <1>1, <2>1
  <2>3. ~IsKept(a, def, answers, i) /\ IsWrong(a, def, answers, i)
    BY <1>8 DEF IsKept, IsWrong, x, f
  <2>4. p \cup {<<f.key, "required">>} # {}
    OBVIOUS
  <2> QED BY <1>4, <2>2, <2>3, <2>4
<1>9. CASE a[i] /\ x # "blank" /\ NoOption(def, answers, i)
  <2>1. q = [r EXCEPT !.problems = r.problems \cup {<<f.key, "not an option">>}]
    BY <1>3, <1>9 DEF Frm!AskField, f, x, NoOption
  <2>2. q = [problems |-> p \cup {<<f.key, "not an option">>}, visible |-> V, stored |-> S]
    BY <1>1, <2>1
  <2>3. ~IsKept(a, def, answers, i) /\ IsWrong(a, def, answers, i)
    BY <1>9 DEF IsKept, IsWrong, x
  <2>4. p \cup {<<f.key, "not an option">>} # {}
    OBVIOUS
  <2> QED BY <1>4, <2>2, <2>3, <2>4
<1>10. CASE a[i] /\ x # "blank" /\ ~NoOption(def, answers, i)
  <2>1. q = [r EXCEPT !.visible = r.visible \cup {<<f.key, x>>}, !.stored = r.stored \cup {<<f.target, x>>}]
    BY <1>3, <1>10 DEF Frm!AskField, f, x, NoOption
  <2>2. q = [problems |-> p, visible |-> V \cup {<<f.key, x>>}, stored |-> S \cup {<<f.target, x>>}]
    BY <1>1, <2>1
  <2>3. IsKept(a, def, answers, i) /\ ~IsWrong(a, def, answers, i)
    BY <1>10 DEF IsKept, IsWrong, x
  <2> QED BY <1>1, <1>4, <2>2, <2>3
<1> QED BY <1>6, <1>7, <1>8, <1>9, <1>10

LEMMA AllFieldsMean ==
  ASSUME NEW N \in Nat, NEW def, NEW answers, NEW a, NEW s, DOMAIN def = 1 .. N, Frm!Sound(def),
         "blank" \notin Options, AskedFields(a, def, answers, N), WorkedThrough(s, def, answers, N)
  PROVE  Means(s[N], a, def, answers, N)
<1> DEFINE T == {n \in 0..N : ~Means(s[n], a, def, answers, n)}
<1>1. SUFFICES ASSUME T # {} PROVE FALSE
  <2>1. N \in 0..N
    OBVIOUS
  <2> QED BY <2>1
<1>2. PICK n \in T : \A m \in T : n <= m
  <2>1. T \subseteq Nat
    OBVIOUS
  <2> HIDE DEF T
  <2> QED BY <1>1, <2>1, LeastNumber
<1>3. n \in 0..N /\ ~Means(s[n], a, def, answers, n)
  OBVIOUS
<1>4. s[n] = IF n = 0 THEN NoneWorked ELSE Frm!AskField(answers, s[n - 1], def[n])
  BY <1>3 DEF WorkedThrough
<1>5. n # 0
  <2>1. VisibleUpTo(a, def, answers, 0) = {} /\ StoredUpTo(a, def, answers, 0) = {}
    BY DEF VisibleUpTo, StoredUpTo, KeptUpTo
  <2>2. NoneWorked = [problems |-> {}, visible |-> VisibleUpTo(a, def, answers, 0),
                   stored |-> StoredUpTo(a, def, answers, 0)]
    BY <2>1 DEF NoneWorked
  <2>3. \A j \in 1 .. 0 : ~IsWrong(a, def, answers, j)
    OBVIOUS
  <2>4. Means(NoneWorked, a, def, answers, 0)
    BY <2>2, <2>3 DEF Means
  <2> QED BY <1>3, <1>4, <2>4
<1>6. n - 1 \in 0..N /\ n - 1 \notin T /\ n \in 1..N
  BY <1>2, <1>3, <1>5
<1>7. Means(s[n - 1], a, def, answers, n - 1)
  BY <1>6
<1>8. Means(Frm!AskField(answers, s[n - 1], def[n]), a, def, answers, n)
  BY <1>6, <1>7, FieldMeans
<1> QED BY <1>3, <1>4, <1>5, <1>8

(* A submission is refused exactly when the form does not mean its answers, *)
(* and what is stored of it otherwise is what the form means to keep.       *)
LEMMA SubmissionMeans ==
  ASSUME NEW def, NEW answers, Len(def) \in Nat, DOMAIN def = 1 .. Len(def), Frm!Sound(def),
         "blank" \notin Options
  PROVE  LET checked == Frm!ValidateSubmission(def, answers)
         IN  /\ (checked.problems = {}) = Frm!Acceptable(def, answers)
             /\ checked.problems = {} => checked.stored = Frm!Kept(def, answers)
<1> DEFINE N == Len(def)
           checked == Frm!ValidateSubmission(def, answers)
           unknown == {<<k, "unknown field">> : k \in DOMAIN answers \ Frm!KeysOf(def)}
<1>1. PICK s : /\ WorkedThrough(s, def, answers, N)
               /\ checked = [problems |-> s[N].problems \cup unknown, stored |-> s[N].stored]
  BY WhatIsWorked
<1>2. PICK a : AskedFields(a, def, answers, N) /\ Frm!Asked(def, answers) = {i \in DOMAIN def : a[i]}
  BY WhatIsAsked
<1>3. Means(s[N], a, def, answers, N)
  BY <1>1, <1>2, AllFieldsMean
<1>4. PICK p : /\ s[N] = [problems |-> p, visible |-> VisibleUpTo(a, def, answers, N),
                          stored |-> StoredUpTo(a, def, answers, N)]
               /\ (p = {}) <=> (\A j \in 1 .. N : ~IsWrong(a, def, answers, j))
  BY <1>3 DEF Means
<1> HIDE DEF checked, unknown
<1>5. /\ checked.problems = p \cup unknown
      /\ checked.stored = StoredUpTo(a, def, answers, N)
  BY <1>1, <1>4
<1>6. checked.problems = {} <=>
        (DOMAIN answers \subseteq Frm!KeysOf(def) /\ \A j \in 1 .. N : ~IsWrong(a, def, answers, j))
  <2>1. unknown = {} <=> DOMAIN answers \subseteq Frm!KeysOf(def)
    BY DEF unknown
  <2> QED BY <1>4, <1>5, <2>1
<1>7. Frm!Acceptable(def, answers) <=>
        (DOMAIN answers \subseteq Frm!KeysOf(def) /\ \A j \in 1 .. N : ~IsWrong(a, def, answers, j))
  <2>1. \A j \in 1 .. N : j \in Frm!Asked(def, answers) <=> a[j]
    BY <1>2
  <2>2. Frm!Asked(def, answers) \subseteq 1 .. N
    BY <1>2
  <2> QED BY <2>1, <2>2 DEF Frm!Acceptable, IsWrong, NoOption, Answer
<1>8. ASSUME checked.problems = {} PROVE checked.stored = Frm!Kept(def, answers)
  <2>1. \A j \in 1 .. N : ~IsWrong(a, def, answers, j)
    BY <1>6, <1>8
  <2>2. KeptUpTo(a, def, answers, N)
          = {j \in Frm!Asked(def, answers) : Frm!AnswerTo(answers, def[j].key) # "blank"}
    BY <1>2, <2>1 DEF KeptUpTo, IsKept, IsWrong, Answer
  <2> QED BY <1>5, <2>2 DEF StoredUpTo, Frm!Kept, Answer
<1>9. (checked.problems = {}) = Frm!Acceptable(def, answers)
  <2>1. Frm!Acceptable(def, answers) \in BOOLEAN
    BY DEF Frm!Acceptable
  <2> QED BY <1>6, <1>7, <2>1
<1> QED BY <1>8, <1>9 DEF checked

-----------------------------------------------------------------------------
(* The versions of a form and the tickets made by it.                      *)

FormVersion == [fields : Drafts, published : BOOLEAN]
StoredSets == {Frm!Kept(d, a) : d \in Drafts, a \in Submissions}
RequestMade == [by : Nat, answers : Submissions, stored : StoredSets]
FormRow == [current : Nat, offered : BOOLEAN, version : Nat]

Edits == [at : {"checked"}, does : {"edit"}, row : Nat, fields : {d \in Drafts : Frm!Sound(d)}]
Publications == [at : {"checked", "published"}, does : {"publish"}, row : Nat, formVersion : Nat]

FormShape ==
  /\ v1 \in Seq(FormVersion)
  /\ v2 \in FormRow
  /\ v3 \in [Requests -> {Frm!Away} \cup Edits \cup Publications]
  /\ v5 \in Seq(RequestMade)

(* A request's version exists; what is published has been served and does   *)
(* not change, which is why a ticket goes on fitting the version it names.  *)
FormInv ==
  /\ FormShape
  /\ \A i \in DOMAIN v1 : Frm!Sound(v1[i].fields)
  /\ \A t \in Requests : v3[t] # Frm!Away => v3[t].row \in DOMAIN v1
  /\ v6 = {i \in DOMAIN v1 : v1[i].published}
  /\ v2.current # 0 => v2.current \in v6
  /\ \A i \in DOMAIN v5 :
       /\ v5[i].by \in v6
       /\ Frm!Acceptable(v1[v5[i].by].fields, v5[i].answers)
       /\ v5[i].stored = Frm!Kept(v1[v5[i].by].fields, v5[i].answers)

LEMMA FormStarts ==
  ASSUME Frm!FormInit
  PROVE  FormInv
<1> USE DEF Frm!FormInit
<1>1. v1 \in Seq(FormVersion) /\ v5 \in Seq(RequestMade) /\ DOMAIN v1 = {} /\ DOMAIN v5 = {}
  OBVIOUS
<1>2. v2 \in FormRow
  <2>1. TRUE \in BOOLEAN
    OBVIOUS
  <2> QED BY <2>1 DEF FormRow
<1>3. v3 \in [Requests -> {Frm!Away} \cup Edits \cup Publications]
  OBVIOUS
<1>4. v6 = {i \in DOMAIN v1 : v1[i].published} /\ v2.current = 0
  BY <1>1
<1>5. \A t \in Requests : v3[t] = Frm!Away
  OBVIOUS
<1> QED BY <1>1, <1>2, <1>3, <1>4, <1>5 DEF FormInv, FormShape

LEMMA AddVersionKeeps ==
  ASSUME FormInv, Frm!AddVersion
  PROVE  FormInv'
<1>1. PICK d \in Drafts : Frm!Sound(d) /\ v1' = Append(v1, [fields |-> d, published |-> FALSE])
  BY DEF Frm!AddVersion
<1>2. PICK w : w = [fields |-> d, published |-> FALSE]
  OBVIOUS
<1>3. w \in FormVersion /\ w.fields = d /\ w.published = FALSE
  <2>1. FALSE \in BOOLEAN
    OBVIOUS
  <2> QED BY <1>2, <2>1 DEF FormVersion
<1>4. v2' = v2 /\ v3' = v3 /\ v5' = v5 /\ v6' = v6
  BY DEF Frm!AddVersion
<1>5. v1 \in Seq(FormVersion)
  BY DEF FormInv, FormShape
<1>6. /\ v1' \in Seq(FormVersion) /\ DOMAIN v1' = DOMAIN v1 \cup {Len(v1) + 1}
      /\ Len(v1) + 1 \notin DOMAIN v1 /\ v1'[Len(v1) + 1] = w
      /\ \A i \in DOMAIN v1 : v1'[i] = v1[i]
  BY <1>1, <1>2, <1>3, <1>5
<1>7. FormShape'
  BY <1>4, <1>6 DEF FormInv, FormShape
<1>8. \A i \in DOMAIN v1' : Frm!Sound(v1'[i].fields)
  BY <1>1, <1>3, <1>6 DEF FormInv
<1>9. v6' = {i \in DOMAIN v1' : v1'[i].published}
  BY <1>3, <1>4, <1>6 DEF FormInv
<1>10. \A t \in Requests : v3'[t] # Frm!Away => v3'[t].row \in DOMAIN v1'
  BY <1>4, <1>6 DEF FormInv
<1>11. v2'.current # 0 => v2'.current \in v6'
  BY <1>4 DEF FormInv
<1>12. \A i \in DOMAIN v5' :
         /\ v5'[i].by \in v6'
         /\ Frm!Acceptable(v1'[v5'[i].by].fields, v5'[i].answers)
         /\ v5'[i].stored = Frm!Kept(v1'[v5'[i].by].fields, v5'[i].answers)
  <2>1. \A i \in DOMAIN v5 : v5[i].by \in DOMAIN v1
    BY DEF FormInv
  <2> QED BY <1>4, <1>6, <2>1 DEF FormInv
<1> QED BY <1>7, <1>8, <1>9, <1>10, <1>11, <1>12 DEF FormInv

(* What only a request's own row of formReq and the form's counter change.  *)
LEMMA RequestMoves ==
  ASSUME FormInv, NEW t \in Requests, NEW q \in {Frm!Away} \cup Edits \cup Publications,
         q # Frm!Away => q.row \in DOMAIN v1,
         v3' = [v3 EXCEPT ![t] = q], v1' = v1, v2' = v2, v5' = v5, v6' = v6
  PROVE  FormInv'
<1>1. v3' \in [Requests -> {Frm!Away} \cup Edits \cup Publications]
  BY DEF FormInv, FormShape
<1>2. \A u \in Requests : v3'[u] # Frm!Away => v3'[u].row \in DOMAIN v1
  BY DEF FormInv, FormShape
<1>3. FormShape'
  BY <1>1 DEF FormInv, FormShape
<1> QED BY <1>2, <1>3 DEF FormInv

(* What a request has in hand, by what it is at.                           *)
LEMMA WhoIsAt ==
  ASSUME FormInv, NEW t \in Requests
  PROVE  /\ v3[t].at = "checked" /\ v3[t].does = "edit" => v3[t] \in Edits /\ v3[t].row \in DOMAIN v1
         /\ v3[t].at = "checked" /\ v3[t].does = "publish" =>
              v3[t] \in Publications /\ v3[t].row \in DOMAIN v1
         /\ v3[t].at = "published" => v3[t] \in Publications /\ v3[t].row \in DOMAIN v1
<1>1. v3[t] \in {Frm!Away} \cup Edits \cup Publications /\ (v3[t] # Frm!Away => v3[t].row \in DOMAIN v1)
  BY DEF FormInv, FormShape
<1>2. Frm!Away.at = "away"
  BY DEF Frm!Away
<1>3. (v3[t] \in Edits => v3[t].at = "checked" /\ v3[t].does = "edit")
        /\ (v3[t] \in Publications => v3[t].does = "publish")
  BY DEF Edits, Publications
<1> QED BY <1>1, <1>2, <1>3

LEMMA FormRequestsKeep ==
  ASSUME FormInv, NEW t \in Requests,
         \/ \E i \in DOMAIN v1 : Frm!CheckEdit(t, i) \/ Frm!CheckPublish(t, i)
         \/ Frm!PublishVersion(t) \/ Frm!RefuseForm(t)
  PROVE  FormInv'
<1>1. ASSUME NEW i \in DOMAIN v1, Frm!CheckEdit(t, i) PROVE FormInv'
  <2>1. PICK d \in Drafts : /\ Frm!Sound(d)
                            /\ v3' = [v3 EXCEPT ![t] = [at |-> "checked", does |-> "edit", row |-> i, fields |-> d]]
    BY <1>1 DEF Frm!CheckEdit
  <2>2. PICK q : q = [at |-> "checked", does |-> "edit", row |-> i, fields |-> d]
    OBVIOUS
  <2>3. i \in Nat
    BY DEF FormInv, FormShape
  <2>4. q \in Edits /\ q.row = i
    BY <2>1, <2>2, <2>3 DEF Edits
  <2>5. v1' = v1 /\ v2' = v2 /\ v5' = v5 /\ v6' = v6 /\ v3' = [v3 EXCEPT ![t] = q]
    BY <1>1, <2>1, <2>2 DEF Frm!CheckEdit
  <2> QED BY <2>4, <2>5, RequestMoves
<1>2. ASSUME NEW i \in DOMAIN v1, Frm!CheckPublish(t, i) PROVE FormInv'
  <2>1. PICK q : q = [at |-> "checked", does |-> "publish", row |-> i, formVersion |-> v2.version]
    OBVIOUS
  <2>2. i \in Nat /\ v2.version \in Nat
    BY DEF FormInv, FormShape, FormRow
  <2>3. q \in Publications /\ q.row = i
    BY <2>1, <2>2 DEF Publications
  <2>4. v1' = v1 /\ v2' = v2 /\ v5' = v5 /\ v6' = v6 /\ v3' = [v3 EXCEPT ![t] = q]
    BY <1>2, <2>1 DEF Frm!CheckPublish
  <2> QED BY <2>3, <2>4, RequestMoves
<1>3. CASE Frm!PublishVersion(t)
  <2>1. v3[t] \in Publications /\ v3[t].row \in DOMAIN v1
    BY <1>3, WhoIsAt DEF Frm!PublishVersion
  <2>2. PICK q : q = [v3[t] EXCEPT !.at = "published"]
    OBVIOUS
  <2>3. q \in Publications /\ q.row = v3[t].row
    BY <2>1, <2>2 DEF Publications
  <2>4. v1' = v1 /\ v2' = v2 /\ v5' = v5 /\ v6' = v6 /\ v3' = [v3 EXCEPT ![t] = q]
    BY <1>3, <2>2 DEF Frm!PublishVersion
  <2> QED BY <2>1, <2>3, <2>4, RequestMoves
<1>4. CASE Frm!RefuseForm(t)
  BY <1>4, RequestMoves DEF Frm!RefuseForm
<1> QED BY <1>1, <1>2, <1>3, <1>4

LEMMA EditVersionKeeps ==
  ASSUME FormInv, NEW t \in Requests, Frm!EditVersion(t)
  PROVE  FormInv'
<1> DEFINE k == v3[t].row
           d == v3[t].fields
<1>1. v3[t] \in Edits /\ k \in DOMAIN v1
  BY WhoIsAt DEF Frm!EditVersion
<1>2. d \in Drafts /\ Frm!Sound(d)
  BY <1>1 DEF Edits
<1>3. v1 \in Seq(FormVersion) /\ v1[k] \in FormVersion /\ ~v1[k].published
  BY <1>1 DEF FormInv, FormShape, Frm!EditVersion
<1>4. PICK w : w = [v1[k] EXCEPT !.fields = d]
  OBVIOUS
<1>5. w \in FormVersion /\ w.fields = d
  BY <1>2, <1>3, <1>4 DEF FormVersion
<1>6. w.published = v1[k].published
  BY <1>2, <1>3, <1>4 DEF FormVersion
<1>7. /\ v2' = v2 /\ v5' = v5 /\ v6' = v6 /\ v3' = [v3 EXCEPT ![t] = Frm!Away]
      /\ v1' = [v1 EXCEPT ![k] = w]
  BY <1>4 DEF Frm!EditVersion
<1>8. v1' \in Seq(FormVersion) /\ DOMAIN v1' = DOMAIN v1 /\ v1'[k] = w
        /\ \A i \in DOMAIN v1 : i # k => v1'[i] = v1[i]
  BY <1>1, <1>3, <1>5, <1>7
<1>9. v3' \in [Requests -> {Frm!Away} \cup Edits \cup Publications]
  BY <1>7 DEF FormInv, FormShape
<1>10. FormShape'
  BY <1>7, <1>8, <1>9 DEF FormInv, FormShape
<1>11. \A i \in DOMAIN v1' : Frm!Sound(v1'[i].fields)
  BY <1>2, <1>5, <1>8 DEF FormInv
<1>12. \A u \in Requests : v3'[u] # Frm!Away => v3'[u].row \in DOMAIN v1'
  BY <1>7, <1>8 DEF FormInv, FormShape
<1>13. v6' = {i \in DOMAIN v1' : v1'[i].published} /\ k \notin v6
  BY <1>3, <1>6, <1>7, <1>8 DEF FormInv
<1>14. \A i \in DOMAIN v5' :
         /\ v5'[i].by \in v6'
         /\ Frm!Acceptable(v1'[v5'[i].by].fields, v5'[i].answers)
         /\ v5'[i].stored = Frm!Kept(v1'[v5'[i].by].fields, v5'[i].answers)
  <2>1. \A i \in DOMAIN v5 : v5[i].by \in DOMAIN v1 /\ v5[i].by # k
    BY <1>13 DEF FormInv
  <2> QED BY <1>7, <1>8, <2>1 DEF FormInv
<1>15. v2'.current # 0 => v2'.current \in v6'
  BY <1>7 DEF FormInv
<1> QED BY <1>10, <1>11, <1>12, <1>13, <1>14, <1>15 DEF FormInv

LEMMA ServeVersionKeeps ==
  ASSUME FormInv, NEW t \in Requests, Frm!ServeVersion(t)
  PROVE  FormInv'
<1> DEFINE k == v3[t].row
<1>1. v3[t] \in Publications /\ k \in DOMAIN v1
  BY WhoIsAt DEF Frm!ServeVersion
<1>2. v1 \in Seq(FormVersion) /\ v1[k] \in FormVersion /\ v2 \in FormRow /\ k \in Nat
  BY <1>1 DEF FormInv, FormShape, Publications
<1>3. PICK w : w = [v1[k] EXCEPT !.published = TRUE]
  OBVIOUS
<1>4. w \in FormVersion /\ w.fields = v1[k].fields
  BY <1>2, <1>3 DEF FormVersion
<1>5. w.published = TRUE
  BY <1>2, <1>3 DEF FormVersion
<1>6. PICK n : n = v2.version + 1
  OBVIOUS
<1>7. PICK f : f = [v2 EXCEPT !.current = k, !.version = n]
  OBVIOUS
<1>8. n \in Nat
  BY <1>2, <1>6 DEF FormRow
<1>9. f \in FormRow
  BY <1>2, <1>7, <1>8 DEF FormRow
<1>10. f.current = k
  BY <1>2, <1>7 DEF FormRow
<1>11. /\ v5' = v5 /\ v6' = v6 \cup {k} /\ v3' = [v3 EXCEPT ![t] = Frm!Away]
       /\ v1' = [v1 EXCEPT ![k] = w]
       /\ v2' = f
  BY <1>3, <1>6, <1>7 DEF Frm!ServeVersion
<1>12. v1' \in Seq(FormVersion) /\ DOMAIN v1' = DOMAIN v1 /\ v1'[k] = w
        /\ \A i \in DOMAIN v1 : i # k => v1'[i] = v1[i]
  BY <1>1, <1>2, <1>4, <1>11
<1>13. v3' \in [Requests -> {Frm!Away} \cup Edits \cup Publications]
  BY <1>11 DEF FormInv, FormShape
<1>14. FormShape'
  BY <1>9, <1>11, <1>12, <1>13 DEF FormInv, FormShape
<1>15. \A i \in DOMAIN v1' : v1'[i].fields = v1[i].fields
  BY <1>4, <1>12
<1>16. \A u \in Requests : v3'[u] # Frm!Away => v3'[u].row \in DOMAIN v1'
  BY <1>11, <1>12 DEF FormInv, FormShape
<1>17. v6' = {i \in DOMAIN v1' : v1'[i].published}
  BY <1>1, <1>5, <1>11, <1>12 DEF FormInv
<1>18. \A i \in DOMAIN v5' :
         /\ v5'[i].by \in v6'
         /\ Frm!Acceptable(v1'[v5'[i].by].fields, v5'[i].answers)
         /\ v5'[i].stored = Frm!Kept(v1'[v5'[i].by].fields, v5'[i].answers)
  <2>1. \A i \in DOMAIN v5 : v5[i].by \in DOMAIN v1 /\ v5[i].by \in v6'
    BY <1>11 DEF FormInv
  <2> QED BY <1>11, <1>12, <1>15, <2>1 DEF FormInv
<1>19. v2'.current \in v6' /\ \A i \in DOMAIN v1' : Frm!Sound(v1'[i].fields)
  BY <1>10, <1>11, <1>12, <1>15 DEF FormInv
<1> QED BY <1>14, <1>16, <1>17, <1>18, <1>19 DEF FormInv

LEMMA OfferFormKeeps ==
  ASSUME FormInv, Frm!OfferForm
  PROVE  FormInv'
<1>1. PICK n : n = v2.version + 1
  OBVIOUS
<1>2. PICK o : o = ~v2.offered
  OBVIOUS
<1>3. PICK f : f = [v2 EXCEPT !.offered = o, !.version = n]
  OBVIOUS
<1>4. v2 \in FormRow
  BY DEF FormInv, FormShape
<1>5. n \in Nat /\ o \in BOOLEAN
  <2>1. n \in Nat
    BY <1>1, <1>4 DEF FormRow
  <2>2. o \in BOOLEAN
    BY <1>2
  <2> QED BY <2>1, <2>2
<1>6. f \in FormRow
  BY <1>3, <1>4, <1>5 DEF FormRow
<1>7. f.current = v2.current
  BY <1>3, <1>4 DEF FormRow
<1>8. v2' = f /\ v1' = v1 /\ v3' = v3 /\ v5' = v5 /\ v6' = v6
  BY <1>1, <1>2, <1>3 DEF Frm!OfferForm
<1>9. FormShape'
  BY <1>6, <1>8 DEF FormInv, FormShape
<1> QED BY <1>7, <1>8, <1>9 DEF FormInv

LEMMA SubmitRequestKeeps ==
  ASSUME FormInv, Frm!FormConstants, NEW answers \in Submissions, Frm!SubmitRequest(answers)
  PROVE  FormInv'
<1> DEFINE k == v2.current
           def == v1[k].fields
           checked == Frm!ValidateSubmission(def, answers)
<1>1. /\ k # 0 /\ v1' = v1 /\ v2' = v2 /\ v3' = v3 /\ v6' = v6
      /\ checked.problems = {}
      /\ v5' = Append(v5, [by |-> k, answers |-> answers, stored |-> checked.stored])
  BY DEF Frm!SubmitRequest
<1>2. k \in v6 /\ k \in DOMAIN v1 /\ k \in Nat /\ v1[k] \in FormVersion /\ Frm!Sound(def)
  BY <1>1 DEF FormInv, FormShape, FormRow
<1>3. def \in Drafts
  BY <1>2 DEF FormVersion
<1>4. Len(def) \in Nat /\ DOMAIN def = 1 .. Len(def) /\ "blank" \notin Options
  BY <1>3 DEF Frm!FormConstants
<1>5. /\ (checked.problems = {}) = Frm!Acceptable(def, answers)
      /\ checked.problems = {} => checked.stored = Frm!Kept(def, answers)
  BY <1>2, <1>4, SubmissionMeans
<1> HIDE DEF checked, def
<1>6. Frm!Acceptable(def, answers) /\ checked.stored = Frm!Kept(def, answers)
  BY <1>1, <1>5
<1>7. PICK m : m = [by |-> k, answers |-> answers, stored |-> checked.stored]
  OBVIOUS
<1>8. m \in RequestMade /\ m.by = k /\ m.answers = answers /\ m.stored = Frm!Kept(def, answers)
  BY <1>2, <1>3, <1>6, <1>7 DEF RequestMade, StoredSets
<1>9. v5 \in Seq(RequestMade)
  BY DEF FormInv, FormShape
<1>10. /\ v5' \in Seq(RequestMade) /\ DOMAIN v5' = DOMAIN v5 \cup {Len(v5) + 1}
       /\ v5'[Len(v5) + 1] = m /\ \A i \in DOMAIN v5 : v5'[i] = v5[i]
  BY <1>1, <1>7, <1>8, <1>9
<1>11. FormShape'
  BY <1>1, <1>10 DEF FormInv, FormShape
<1>12. \A i \in DOMAIN v5' :
         /\ v5'[i].by \in v6
         /\ Frm!Acceptable(v1[v5'[i].by].fields, v5'[i].answers)
         /\ v5'[i].stored = Frm!Kept(v1[v5'[i].by].fields, v5'[i].answers)
  BY <1>2, <1>6, <1>8, <1>10 DEF FormInv, def
<1> QED BY <1>1, <1>11, <1>12 DEF FormInv

LEMMA FormStep ==
  ASSUME FormInv, Frm!FormConstants, [Frm!FormNext]_(Frm!formVars)
  PROVE  FormInv'
<1>1. CASE Frm!AddVersion
  BY <1>1, AddVersionKeeps
<1>2. CASE Frm!OfferForm
  BY <1>2, OfferFormKeeps
<1>3. ASSUME NEW t \in Requests, NEW i \in DOMAIN v1, Frm!CheckEdit(t, i) \/ Frm!CheckPublish(t, i)
      PROVE  FormInv'
  BY <1>3, FormRequestsKeep
<1>4. ASSUME NEW t \in Requests,
             Frm!EditVersion(t) \/ Frm!PublishVersion(t) \/ Frm!ServeVersion(t) \/ Frm!RefuseForm(t)
      PROVE  FormInv'
  BY <1>4, FormRequestsKeep, EditVersionKeeps, ServeVersionKeeps
<1>5. ASSUME NEW answers \in Submissions, Frm!SubmitRequest(answers)
      PROVE  FormInv'
  BY <1>5, SubmitRequestKeeps
<1>6. CASE UNCHANGED Frm!formVars
  BY <1>6 DEF Frm!formVars, FormInv, FormShape
<1> QED BY <1>1, <1>2, <1>3, <1>4, <1>5, <1>6 DEF Frm!FormNext

LEMMA FormMeans ==
  ASSUME FormInv, Frm!FormConstants
  PROVE  Frm!SubmissionsFit /\ Frm!TicketFitsItsForm /\ Frm!PublishedIsServed
<1>1. Frm!SubmissionsFit
  <2> SUFFICES ASSUME NEW def \in {d \in AllDefinitions : Frm!Sound(d)}, NEW answers \in AllAnswers
               PROVE  LET checked == Frm!ValidateSubmission(def, answers)
                      IN  /\ (checked.problems = {}) = Frm!Acceptable(def, answers)
                          /\ checked.problems = {} => checked.stored = Frm!Kept(def, answers)
    BY DEF Frm!SubmissionsFit
  <2>1. Len(def) \in Nat /\ DOMAIN def = 1 .. Len(def) /\ Frm!Sound(def) /\ "blank" \notin Options
    BY DEF Frm!FormConstants
  <2> QED BY <2>1, SubmissionMeans
<1>2. Frm!TicketFitsItsForm
  BY DEF FormInv, Frm!TicketFitsItsForm
<1>3. Frm!PublishedIsServed
  BY DEF FormInv, Frm!PublishedIsServed
<1> QED BY <1>1, <1>2, <1>3

-----------------------------------------------------------------------------
(* What the desk keeps: files, articles and forms                          *)

LibraryInv ==
  /\ part = "files" => FilesInv
  /\ part = "articles" => ArticleInv
  /\ part = "forms" => FormInv

LEMMA LibraryStep ==
  ASSUME LibraryInv, Att!AttachmentsConstants, Kno!KnowledgeConstants, Frm!FormConstants,
         [LibraryNext /\ UNCHANGED part]_vars
  PROVE  LibraryInv'
<1>1. part' = part
  BY DEF vars
<1>2. CASE part = "files"
  <2>1. [Att!AttachmentsNext]_(Att!fileVars)
    BY <1>2 DEF LibraryNext, vars, Att!fileVars
  <2> QED BY <1>1, <1>2, <2>1, FilesStep DEF LibraryInv
<1>3. CASE part = "articles"
  <2>1. [Kno!KnowledgeNext]_(Kno!articleVars)
    BY <1>3 DEF LibraryNext, vars, Kno!articleVars
  <2> QED BY <1>1, <1>3, <2>1, ArticleStep DEF LibraryInv
<1>4. CASE part = "forms"
  <2>1. [Frm!FormNext]_(Frm!formVars)
    BY <1>4 DEF LibraryNext, vars, Frm!formVars
  <2> QED BY <1>1, <1>4, <2>1, FormStep DEF LibraryInv
<1> QED BY <1>1, <1>2, <1>3, <1>4 DEF LibraryInv

(* What holds of a file's row, its object and the requests that confirm or  *)
(* ingest it (attachments.module.ts), of an article and who reads it        *)
(* (knowledge.module.ts), of a form, its versions and the tickets made by   *)
(* it (forms.module.ts, portal.module.ts), at every step.                   *)
THEOREM LibraryInvariant ==
  ASSUME Att!AttachmentsConstants, Kno!KnowledgeConstants, Frm!FormConstants
  PROVE  LibrarySpec => []LibraryInv
<1>1. LibraryInit => LibraryInv
  BY FilesStart, ArticleStarts, FormStarts DEF LibraryInit, LibraryInv
<1>2. LibraryInv /\ [LibraryNext /\ UNCHANGED part]_vars => LibraryInv'
  BY LibraryStep
<1> QED BY <1>1, <1>2, PTL DEF LibrarySpec

(* For any requests, people, definitions, answers and bounds: a scanned     *)
(* file's verdict, key, size and object agree, an upload stays confirmable  *)
(* and a removed file is not announced (attachments.module.ts confirm,      *)
(* ingest, applyScan, remove); an article is published as its reviewer read *)
(* it and its versions stay in order (knowledge.module.ts publish,          *)
(* updateDraft); a submission is accepted and kept as the form means it,    *)
(* and a ticket keeps fitting the published version it names               *)
(* (form-schema.ts validateSubmission, forms.module.ts editVersion).        *)
THEOREM LibraryIsKept ==
  ASSUME Att!AttachmentsConstants, Kno!KnowledgeConstants, Frm!FormConstants
  PROVE  LibrarySpec => []LibraryHolds
<1>1. ASSUME FilesInv
      PROVE  Att!VerdictFitsObject /\ Att!ConfirmStaysPossible /\ Att!SizeIsTrue /\ Att!RemovedIsSilent
  BY <1>1, FilesMean DEF Att!RemovedIsSilent
<1>2. ASSUME ArticleInv
      PROVE  Kno!PublishedAsRead /\ Kno!EditsAreSeen /\ Kno!ReviewerDiffers /\ Kno!VersionsInOrder
  BY <1>2 DEF ArticleInv
<1>3. ASSUME FormInv
      PROVE  Frm!SubmissionsFit /\ Frm!TicketFitsItsForm /\ Frm!PublishedIsServed
  BY <1>3, FormMeans
<1>4. LibraryInv => LibraryHolds
  BY <1>1, <1>2, <1>3 DEF LibraryInv, LibraryHolds
<1> QED BY <1>4, LibraryInvariant, PTL
=============================================================================
