------------------------------ MODULE SyncLink ------------------------------
(***************************************************************************)
(* One field of a ticket linked to a record of the client's instance:      *)
(* applyPending, applyOne, applyRecord, onOutbox and push of               *)
(* src/src/modules/connectors/sync.worker.ts over the rules of             *)
(* src/src/domain/sync/rules.ts, and resolveConflict of                    *)
(* connectors.service.ts.                                                  *)
(*                                                                         *)
(* A transaction is its reads and its commit: what it writes is locked     *)
(* until then, and the links are written by id without a version.  A push  *)
(* reads the record, writes it at the instance, and then commits.  Every   *)
(* value is new and is named by the instant of its edit; instants are      *)
(* farther apart than the clock tolerance.                                 *)
(*                                                                         *)
(* The field maps of one connector instance: createMap, updateMap,         *)
(* validateMap and activateMap of                                          *)
(* src/src/modules/connectors/connectors.service.ts.                       *)
(*                                                                         *)
(* A map is drafted, validated against the client's dictionary, and        *)
(* activated; the instance names the map the sync reads.  Requests read    *)
(* the map's state and write the map by id; validateMap calls the client's *)
(* instance between its two transactions.  Only the instance has a         *)
(* version.                                                                *)
(***************************************************************************)
EXTENDS Integers, Sequences, FiniteSets

CONSTANTS
  Policies,          \* field policies a map may give: a subset of the six of maps.ts
  MaxInboxAttempts,  \* MAX_INBOX_ATTEMPTS
  MaxFieldInstant,   \* bound on edits of either side and writes at the instance
  MaxTroubles,       \* bound on failed applies, lost commits and replays
  Requests,          \* people working on the maps at once
  Maps,              \* versions of the map
  MaxMapEdits, MaxActivations  \* bounds on edits of entries and activations

NoMap == "none"

VARIABLES
  policy,
  clock,     \* instants used
  record,    \* the record at the instance: its value and sys_updated_on
  ticket,    \* value, updated_at and version of the ticket
  closed,    \* the ticket is closed or cancelled
  link,      \* its state, the value of last_conflict, last known stamp, guard
  inbox,     \* the rows of sys.inbox
  pass,      \* the rows an apply pass has listed and not taken
  applying,  \* the transaction of applyOne: what it read
  queue,     \* outbound rows queued for the field
  pushing,   \* a push: what it read and where it is
  resolving, \* a request that settles the conflict: what it read
  troubles,
  backwards, \* history: an older version was applied over a newer one
  crossed,   \* history: settling wrote over a conflict it had not read
  maps,     \* a map's state and the number of its entries' last edit
  checked,  \* the edit of each map its last good validation looked at
  instance, \* active_field_map_id and version
  mapReq,   \* what a request has read
  mapEdits,
  outdated, \* history: maps validated after their entries had been edited
  overrun   \* history: active maps written by a request that read them earlier

-----------------------------------------------------------------------------
(* The fields of a linked ticket                                           *)

fieldVars == <<policy, clock, record, ticket, closed, link, inbox, pass, applying, queue,
               pushing, resolving, troubles, backwards, crossed>>


NoValue == -1
NoGuard == [value |-> NoValue, stamp |-> NoValue]
Idle == [at |-> "idle"]
Instants == 0 .. MaxFieldInstant

FieldsTypeOK ==
  /\ policy \in Policies /\ clock \in Instants /\ closed \in BOOLEAN
  /\ record \in [value : Instants, stamp : Instants]
  /\ ticket \in [value : Instants, at : Instants, version : Nat]
  /\ link \in [conflict : BOOLEAN, theirs : Instants \cup {NoValue}, settled : BOOLEAN,
               known : Instants,
               guard : [value : Instants, stamp : Instants] \cup {NoGuard}]
  /\ inbox \in Seq([value : Instants, stamp : Instants, attempts : 0 .. MaxInboxAttempts,
                    outcome : {"pending", "applied", "dropped_reflection", "failed"}])
  /\ pass \in Seq(DOMAIN inbox)
  /\ applying.at \in {"idle", "read"} /\ pushing.at \in {"idle", "read", "written"}
  /\ resolving.at \in {"idle", "read"}
  /\ queue \in Nat /\ troubles \in 0 .. MaxTroubles
  /\ {backwards, crossed} \subseteq BOOLEAN

(* The record was taken over and linked at instant 0. *)
FieldsInit ==
  /\ policy \in Policies /\ closed = FALSE
  /\ clock = 0
  /\ record = [value |-> 0, stamp |-> 0]
  /\ ticket = [value |-> 0, at |-> 0, version |-> 1]
  /\ link = [conflict |-> FALSE, theirs |-> NoValue, settled |-> FALSE, known |-> 0, guard |-> NoGuard]
  /\ inbox = <<>> /\ pass = <<>>
  /\ applying = Idle /\ queue = 0 /\ pushing = Idle /\ resolving = Idle
  /\ troubles = 0 /\ backwards = FALSE /\ crossed = FALSE

Now == clock + 1
Later == clock < MaxFieldInstant /\ clock' = Now
Trouble == troubles < MaxTroubles /\ troubles' = troubles + 1

-----------------------------------------------------------------------------
(* The client edits the field; a consultant edits it, edits another field  *)
(* of the ticket, or closes the ticket.  The ticket's own edit of the      *)
(* field queues one outbound row; what the sync writes queues none.        *)
ClientEdits ==
  /\ Later
  /\ record' = [value |-> Now, stamp |-> Now]
  /\ UNCHANGED <<policy, ticket, closed, link, inbox, pass, applying, queue, pushing, resolving,
                 troubles, backwards, crossed>>

Patched(value) == [value |-> value, at |-> Now, version |-> ticket.version + 1]

ConsultantEdits ==
  /\ ~closed
  /\ Later
  /\ ticket' = Patched(Now)
  /\ queue' = queue + 1
  /\ UNCHANGED <<policy, record, closed, link, inbox, pass, applying, pushing, resolving,
                 troubles, backwards, crossed>>

EditsAnotherField ==
  /\ ~closed
  /\ Later
  /\ ticket' = Patched(ticket.value)
  /\ UNCHANGED <<policy, record, closed, link, inbox, pass, applying, queue, pushing, resolving,
                 troubles, backwards, crossed>>

Close ==
  /\ ~closed /\ closed' = TRUE
  /\ ticket' = [ticket EXCEPT !.version = @ + 1]
  /\ UNCHANGED <<policy, clock, record, link, inbox, pass, applying, queue, pushing, resolving,
                 troubles, backwards, crossed>>

-----------------------------------------------------------------------------
(* A poll stores the record under its stamp, once. *)
Poll ==
  /\ \A i \in DOMAIN inbox : inbox[i].stamp # record.stamp
  /\ record.stamp > 0
  /\ inbox' = Append(inbox, [value |-> record.value, stamp |-> record.stamp, attempts |-> 0,
                             outcome |-> "pending"])
  /\ UNCHANGED <<policy, clock, record, ticket, closed, link, pass, applying, queue, pushing,
                 resolving, troubles, backwards, crossed>>

Pending == {i \in DOMAIN inbox : inbox[i].outcome = "pending"}

(* order by id. *)
ListPending ==
  /\ applying = Idle /\ pass = <<>> /\ Pending # {}
  /\ pass' = CHOOSE s \in [1 .. Cardinality(Pending) -> Pending] :
               \A i, j \in DOMAIN s : i < j => s[i] < s[j]
  /\ UNCHANGED <<policy, clock, record, ticket, closed, link, inbox, applying, queue, pushing,
                 resolving, troubles, backwards, crossed>>

TakeRow ==
  /\ applying = Idle /\ pass # <<>>
  /\ applying' = [at |-> "read", row |-> Head(pass), ticket |-> ticket, guard |-> link.guard,
                  closed |-> closed]
  /\ pass' = Tail(pass)
  /\ UNCHANGED <<policy, clock, record, ticket, closed, link, inbox, queue, pushing, resolving,
                 troubles, backwards, crossed>>

Row == inbox[applying.row]
Same == applying.ticket.value = Row.value

isReflection ==
  /\ applying.guard # NoGuard
  /\ Row.stamp <= applying.guard.stamp /\ Row.value = applying.guard.value

(* decideInbound, for a record that has a link. *)
Applied ==
  \/ policy = "merge"
  \/ policy = "external" /\ ~Same
  \/ policy = "newest" /\ ~Same /\ Row.stamp > applying.ticket.at
\* Mutant: a value the policy keeps out leaves no conflict on the link.
SkippedUnsaid == FALSE
Skipped == policy \in {"xms", "external_at_create_then_xms"} /\ ~Same

Settles(outcome) == inbox' = [inbox EXCEPT ![applying.row].outcome = outcome]
Overtaken == \E j \in DOMAIN inbox : inbox[j].stamp > Row.stamp /\ inbox[j].outcome = "applied"

Drop ==
  /\ applying.at = "read" /\ isReflection
  /\ Settles("dropped_reflection")
  /\ applying' = Idle
  /\ UNCHANGED <<policy, clock, record, ticket, closed, link, pass, queue, pushing, resolving,
                 troubles, backwards, crossed>>

WritesTicket == Applied /\ ~applying.closed
Refused == WritesTicket /\ (closed \/ ticket.version # applying.ticket.version)

(* The ticket is patched under its version, the link by its id. *)
Apply ==
  /\ applying.at = "read" /\ ~isReflection /\ ~Refused
  /\ IF WritesTicket THEN Later /\ ticket' = Patched(Row.value)
                     ELSE UNCHANGED <<clock, ticket>>
  /\ link' = IF Skipped
             THEN [link EXCEPT !.conflict = TRUE, !.theirs = Row.value, !.settled = FALSE,
                               !.known = Row.stamp]
             ELSE [link EXCEPT !.known = Row.stamp]
  /\ Settles("applied")
  /\ backwards' = (backwards \/ Overtaken)
  /\ applying' = Idle
  /\ UNCHANGED <<policy, record, closed, pass, queue, pushing, resolving, troubles, crossed>>

Buries ==
  inbox' = [inbox EXCEPT ![applying.row].attempts = @ + 1, ![applying.row].outcome = "failed"]

(* A ConflictException of the ticket's patch is terminal at its first      *)
(* attempt; any other failure is tried MAX_INBOX_ATTEMPTS times.           *)
ApplyRefused ==
  /\ applying.at = "read" /\ ~isReflection /\ Refused
  /\ Buries
  /\ applying' = Idle
  /\ UNCHANGED <<policy, clock, record, ticket, closed, link, pass, queue, pushing, resolving,
                 troubles, backwards, crossed>>

ApplyFails ==
  /\ applying.at = "read" /\ Trouble
  /\ IF Row.attempts + 1 >= MaxInboxAttempts
     THEN Buries
     ELSE inbox' = [inbox EXCEPT ![applying.row].attempts = @ + 1]
  /\ applying' = Idle
  /\ UNCHANGED <<policy, clock, record, ticket, closed, link, pass, queue, pushing, resolving,
                 backwards, crossed>>

(* reopenInbox, from the dead letters. *)
Replay ==
  /\ Trouble
  /\ \E i \in DOMAIN inbox :
       /\ inbox[i].outcome = "failed"
       /\ inbox' = [inbox EXCEPT ![i].outcome = "pending", ![i].attempts = 0]
  /\ UNCHANGED <<policy, clock, record, ticket, closed, link, pass, applying, queue, pushing,
                 resolving, backwards, crossed>>

-----------------------------------------------------------------------------
(* push: the ticket and the record are read, decideOutbound decides.       *)
ReadForPush ==
  /\ queue > 0 /\ pushing = Idle
  /\ pushing' = [at |-> "read", ours |-> ticket, theirs |-> record,
                 changed |-> record.stamp > link.known]
  /\ UNCHANGED <<policy, clock, record, ticket, closed, link, inbox, pass, applying, queue,
                 resolving, troubles, backwards, crossed>>

SameOut == pushing.ours.value = pushing.theirs.value
Older == policy = "newest" /\ pushing.changed /\ pushing.ours.at <= pushing.theirs.stamp
Kept == policy = "none" \/ (~SameOut /\ (policy = "external" \/ Older))
Sends == ~SameOut /\ ~Kept

(* settleSkip, with the conflict the policy decided. *)
Skip ==
  /\ pushing.at = "read" /\ ~Sends
  /\ link' = IF Kept THEN [link EXCEPT !.conflict = TRUE, !.theirs = pushing.theirs.value,
                                       !.settled = FALSE]
                     ELSE link
  /\ queue' = queue - 1
  /\ pushing' = Idle
  /\ UNCHANGED <<policy, clock, record, ticket, closed, inbox, pass, applying, resolving,
                 troubles, backwards, crossed>>

Update ==
  /\ pushing.at = "read" /\ Sends
  /\ Later
  /\ record' = [value |-> pushing.ours.value, stamp |-> Now]
  /\ pushing' = [at |-> "written", guard |-> record']
  /\ UNCHANGED <<policy, ticket, closed, link, inbox, pass, applying, queue, resolving,
                 troubles, backwards, crossed>>

(* echoGuard and settleSent. *)
Sent ==
  /\ pushing.at = "written"
  /\ link' = [link EXCEPT !.guard = pushing.guard, !.known = pushing.guard.stamp]
  /\ queue' = queue - 1
  /\ pushing' = Idle
  /\ UNCHANGED <<policy, clock, record, ticket, closed, inbox, pass, applying, resolving,
                 troubles, backwards, crossed>>

(* The call or the commit fails and the row is queued again; what was      *)
(* written at the instance stays.  SyncQueue counts the attempts.          *)
PushFails ==
  /\ pushing # Idle /\ Trouble
  /\ pushing' = Idle
  /\ UNCHANGED <<policy, clock, record, ticket, closed, link, inbox, pass, applying, queue,
                 resolving, backwards, crossed>>

-----------------------------------------------------------------------------
(* resolveConflict: "Accept" patches the ticket with the value kept on the *)
(* link, "Keep ours" writes only the link.                                 *)
ReadConflict ==
  /\ resolving = Idle
  /\ link.theirs # NoValue /\ ~link.settled
  /\ resolving' = [at |-> "read", link |-> link, version |-> ticket.version]
  /\ UNCHANGED <<policy, clock, record, ticket, closed, link, inbox, pass, applying, queue,
                 pushing, troubles, backwards, crossed>>

SettleLink ==
  /\ link' = [link EXCEPT !.theirs = resolving.link.theirs, !.settled = TRUE,
                          !.conflict = IF resolving.link.conflict THEN FALSE ELSE @]
  /\ crossed' = (crossed \/ link.theirs # resolving.link.theirs)
  /\ resolving' = Idle
  /\ UNCHANGED <<policy, record, closed, inbox, pass, applying, pushing, troubles, backwards>>

KeepOurs ==
  /\ resolving.at = "read"
  /\ SettleLink
  /\ UNCHANGED <<clock, ticket, queue>>

AcceptExternal ==
  /\ resolving.at = "read"
  /\ ~closed /\ ticket.version = resolving.version
  /\ Later
  /\ ticket' = Patched(resolving.link.theirs)
  /\ queue' = queue + 1
  /\ SettleLink

ResolveRefused ==
  /\ resolving.at = "read"
  /\ closed \/ ticket.version # resolving.version
  /\ resolving' = Idle
  /\ UNCHANGED <<policy, clock, record, ticket, closed, link, inbox, pass, applying, queue,
                 pushing, troubles, backwards, crossed>>

FieldsNext ==
  \/ ClientEdits \/ ConsultantEdits \/ EditsAnotherField \/ Close
  \/ Poll \/ ListPending \/ TakeRow \/ Drop \/ Apply \/ ApplyRefused \/ ApplyFails \/ Replay
  \/ ReadForPush \/ Skip \/ Update \/ Sent \/ PushFails
  \/ ReadConflict \/ KeepOurs \/ AcceptExternal \/ ResolveRefused

-----------------------------------------------------------------------------
Quiet ==
  /\ applying = Idle /\ pushing = Idle /\ resolving = Idle
  /\ Pending = {} /\ pass = <<>> /\ queue = 0
  /\ record.stamp = 0 \/ \E i \in DOMAIN inbox : inbox[i].stamp = record.stamp

Buried == \E i \in DOMAIN inbox : inbox[i].outcome = "failed" /\ inbox[i].value = record.value

\* When nothing is under way and the ticket is open, a record that differs
\* from its ticket is named by the link's conflict or by a dead letter.  The
\* excuses are an older version applied again, a settlement that wrote over
\* a newer conflict, and the newest rule misled by an updated_at that is not
\* the instant of the field's value: another field was edited, or an earlier
\* version of the record was applied just before.
DivergenceIsKnown ==
  (Quiet /\ ~closed /\ policy # "none" /\ ticket.value # record.value) =>
    \/ link.theirs = record.value \/ Buried
    \/ backwards \/ crossed \/ (policy = "newest" /\ ticket.at # ticket.value)

\* An older version of the record is applied after a newer one only after a
\* failed attempt or a replay from the dead letters (pendingInbox, applyOne).
BackwardsAfterTrouble == backwards => troubles > 0

-----------------------------------------------------------------------------
(* The field maps                                                          *)

mapVars == <<maps, checked, instance, mapReq, mapEdits, outdated, overrun>>

Free == [at |-> "free"]
States == {"none", "draft", "validated", "active", "retired"}

MapsTypeOK ==
  /\ maps \in [Maps -> [state : States, edit : 0 .. MaxMapEdits]]
  /\ checked \in [Maps -> -1 .. MaxMapEdits]
  /\ instance \in [map : Maps \cup {NoMap}, version : Nat]
  /\ \A t \in Requests : mapReq[t].at \in {"free", "edit", "validate", "activate"}
  /\ mapEdits \in 0 .. MaxMapEdits /\ outdated \subseteq Maps /\ overrun \subseteq Maps

MapsInit ==
  /\ maps = [m \in Maps |-> [state |-> "none", edit |-> 0]]
  /\ checked = [m \in Maps |-> -1]
  /\ instance = [map |-> NoMap, version |-> 1]
  /\ mapReq = [t \in Requests |-> Free]
  /\ mapEdits = 0 /\ outdated = {} /\ overrun = {}

Create(m) ==
  /\ maps[m].state = "none"
  /\ maps' = [maps EXCEPT ![m].state = "draft"]
  /\ UNCHANGED <<checked, instance, mapReq, mapEdits, outdated, overrun>>

Editable(state) == state \in {"draft", "validated"}

(* updateMap and validateMap refuse a map in use, activateMap one that is  *)
(* not validated.                                                          *)
Read(t, m) ==
  /\ mapReq[t] = Free
  /\ \E at \in {"edit", "validate", "activate"} :
       /\ IF at = "activate" THEN maps[m].state = "validated" ELSE Editable(maps[m].state)
       /\ mapReq' = [mapReq EXCEPT ![t] = [at |-> at, map |-> m, row |-> maps[m],
                                           version |-> instance.version]]
  /\ UNCHANGED <<maps, checked, instance, mapEdits, outdated, overrun>>

Done(t) == mapReq' = [mapReq EXCEPT ![t] = Free]
Overrun(t) ==
  LET m == mapReq[t].map IN
  overrun' = IF maps[m].state = "active" /\ mapReq[t].row.state # "active"
             THEN overrun \cup {m} ELSE overrun

WriteEntries(t) ==
  LET m == mapReq[t].map IN
  /\ mapReq[t].at = "edit"
  /\ mapEdits < MaxMapEdits /\ mapEdits' = mapEdits + 1
  /\ maps' = [maps EXCEPT ![m] = [state |-> "draft", edit |-> mapEdits']]
  /\ Overrun(t)
  /\ Done(t)
  /\ UNCHANGED <<checked, instance, outdated>>

(* The report is on the entries that were read.                            *)
WriteReport(t) ==
  LET m == mapReq[t].map IN
  /\ mapReq[t].at = "validate"
  /\ \/ /\ maps' = [maps EXCEPT ![m].state = "validated"]
        /\ checked' = [checked EXCEPT ![m] = mapReq[t].row.edit]
        /\ outdated' = IF maps[m].edit # mapReq[t].row.edit THEN outdated \cup {m} ELSE outdated
        /\ Overrun(t)
     \/ /\ maps' = [maps EXCEPT ![m].state = "draft"]
        /\ Overrun(t)
        /\ UNCHANGED <<checked, outdated>>
     \/ UNCHANGED <<maps, checked, outdated, overrun>> \* the dictionary is unavailable
  /\ Done(t)
  /\ UNCHANGED <<instance, mapEdits>>

(* The map in use retires, this one takes its place, and the instance is   *)
(* pointed at it under its version.                                        *)
Activate(t) ==
  LET m == mapReq[t].map IN
  /\ mapReq[t].at = "activate"
  /\ instance.version = mapReq[t].version
  /\ instance.version <= MaxActivations
  /\ maps' = [n \in Maps |-> IF n = m THEN [maps[n] EXCEPT !.state = "active"]
                             ELSE IF maps[n].state = "active"
                             THEN [maps[n] EXCEPT !.state = "retired"] ELSE maps[n]]
  /\ instance' = [map |-> m, version |-> instance.version + 1]
  /\ Done(t)
  /\ outdated' = IF maps[m].state = "draft" \/ maps[m].edit # mapReq[t].row.edit
                 THEN outdated \cup {m} ELSE outdated
  /\ UNCHANGED <<checked, mapEdits, overrun>>

ActivateRefused(t) ==
  /\ mapReq[t].at = "activate" /\ instance.version # mapReq[t].version
  /\ Done(t)
  /\ UNCHANGED <<maps, checked, instance, mapEdits, outdated, overrun>>

MapsNext ==
  \/ \E m \in Maps : Create(m)
  \/ \E t \in Requests :
       \/ \E m \in Maps : Read(t, m)
       \/ WriteEntries(t) \/ WriteReport(t) \/ Activate(t) \/ ActivateRefused(t)

MapsConstants == MaxMapEdits \in Nat

-----------------------------------------------------------------------------
\* The map the sync reads is the one active map, with the entries a
\* validation found good, unless a request that had read it before it was
\* activated wrote it afterwards or its validation was of older entries.
UsedIsChecked ==
  instance.map # NoMap /\ instance.map \notin overrun =>
    /\ maps[instance.map].state = "active"
    /\ instance.map \notin outdated => checked[instance.map] = maps[instance.map].edit

\* At most one map of an instance is active: activateMap retires the others
\* and compares the instance's version, so ux_acct_field_maps_active
\* (0012_connectors.sql) has nothing to refuse.
OneActive ==
  \A m, n \in Maps : maps[m].state = "active" /\ maps[n].state = "active" => m = n
=============================================================================
