--------------------------- MODULE TicketRelations --------------------------
(***************************************************************************)
(* Links between the tickets of one account: addLink, removeLink and       *)
(* assertAcyclic of src/src/modules/tickets/tickets.service.ts.            *)
(*                                                                         *)
(* No row is locked: addLink walks the links it can see and inserts its    *)
(* own at the end of its transaction.  The walk is one step; what commits  *)
(* during a walk is taken to commit before or after it.                    *)
(*                                                                         *)
(* Who has a part in a ticket besides its assignee:                        *)
(* src/src/modules/tickets/participants.module.ts on                       *)
(* acct.ticket_participants (0048_ticket_participants.sql and              *)
(* 0049_participant_invitations.sql).                                      *)
(*                                                                         *)
(* Nothing is locked: a request reads the ticket and the rows, and what it *)
(* writes is held together by two unique indexes, by `where status = ...'  *)
(* in each update and by the check constraints of the table.               *)
(***************************************************************************)
EXTENDS Naturals, Sequences, FiniteSets

CONSTANTS
  Requests, LinkedTickets,
  LinkTypes,      \* of the four types in acct.ticket_links, the ones looked at
  MaxLinks,       \* bound on links made
  People,
  GroupMembers,   \* members of the one group that is invited
  MaxParts        \* bound on rows

VARIABLES
  links,       \* rows of acct.ticket_links
  linkReq,     \* the link a request has checked and not yet inserted
  made,
  overlapped,   \* history: pairs of links added by transactions that overlap
  assignee,      \* of the ticket
  parts,         \* rows, in the order they were inserted
  partReq,       \* what each request has checked and is about to write
  ends,          \* history: how the invitation or part of each row ended
  assignedSince  \* history: people assigned since their part began, or was checked

-----------------------------------------------------------------------------
(* Links                                                                   *)

linkVars == <<links, linkReq, made, overlapped>>

NoRequest == <<>>
Links == {l \in LinkedTickets \X LinkedTickets \X LinkTypes : l[1] # l[2]}

LinksTypeOK ==
  /\ links \subseteq Links
  /\ linkReq \in [Requests -> Links \cup {NoRequest}]
  /\ made \in 0 .. MaxLinks
  /\ overlapped \subseteq SUBSET Links

LinksInit == links = {} /\ linkReq = [t \in Requests |-> NoRequest] /\ made = 0 /\ overlapped = {}

Guarded(type) == type \in {"parent", "blocks"}
After(S, type) == {l[2] : l \in {k \in links : k[1] \in S /\ k[3] = type}}

\* Mutant: the walk looks at the target's own links and no further.
ReachedInOne(x, type) == {x} \cup After({x}, type)
(* The tickets assertAcyclic sees from x.                                  *)
Reached(x, type) ==
  LET walk[n \in 0 .. Cardinality(LinkedTickets)] ==
        IF n = 0 THEN {x} ELSE walk[n - 1] \cup After(walk[n - 1], type)
  IN  walk[Cardinality(LinkedTickets)]

CheckLink(t, l) ==
  /\ linkReq[t] = NoRequest /\ made < MaxLinks
  /\ l \notin links
  /\ Guarded(l[3]) => l[1] \notin Reached(l[2], l[3])
  /\ linkReq' = [linkReq EXCEPT ![t] = l] /\ made' = made + 1
  /\ overlapped' = overlapped \cup
       {{l, linkReq[u]} : u \in {v \in Requests : linkReq[v] # NoRequest}}
  /\ UNCHANGED links

(* The unique index refuses the same link twice.                           *)
InsertLink(t) ==
  /\ linkReq[t] # NoRequest /\ linkReq[t] \notin links
  /\ links' = links \cup {linkReq[t]}
  /\ linkReq' = [linkReq EXCEPT ![t] = NoRequest]
  /\ UNCHANGED <<made, overlapped>>

AbortLink(t) ==
  /\ linkReq[t] # NoRequest
  /\ linkReq' = [linkReq EXCEPT ![t] = NoRequest]
  /\ UNCHANGED <<links, made, overlapped>>

(* By the id of the link alone, whichever ticket the request names.        *)
RemoveLink(l) ==
  /\ l \in links
  /\ links' = links \ {l}
  /\ UNCHANGED <<linkReq, made, overlapped>>

LinksNext ==
  \/ \E t \in Requests :
       \/ \E l \in Links : CheckLink(t, l)
       \/ InsertLink(t)
       \/ AbortLink(t)
  \/ \E l \in links : RemoveLink(l)

-----------------------------------------------------------------------------
OnCycle(l) ==
  \A S \in SUBSET LinkedTickets : l[2] \in S /\ After(S, l[3]) \subseteq S => l[1] \in S

\* A ticket is not its own ancestor and does not block itself, however long
\* the chain, unless two links of the cycle's type were added by overlapping
\* transactions, neither of which could see the other's.
LinksAcyclic ==
  \A l \in links :
    Guarded(l[3]) /\ OnCycle(l) =>
      \E k, m \in links :
        {k, m} \in overlapped /\ k # m /\ \A n \in {k, m} : n[3] = l[3] /\ OnCycle(n)

-----------------------------------------------------------------------------
(* Participants                                                            *)

partVars == <<assignee, parts, partReq, ends, assignedSince>>

Nobody == "nobody"
IdlePart == [at |-> "idle"]
InsertOf(who, group, status) == [at |-> "insert", who |-> who, group |-> group, status |-> status]
AnswerOf(i, who, accepts) == [at |-> "answer", row |-> i, who |-> who, accepts |-> accepts]
RemoveOf(i, invited) == [at |-> "remove", row |-> i, invited |-> invited]

PartTypeOK ==
  /\ assignee \in People \cup {Nobody} /\ assignedSince \subseteq People
  /\ \A i \in DOMAIN parts :
       /\ parts[i].who \in People \cup {Nobody} /\ parts[i].group \in BOOLEAN
       /\ parts[i].status \in {"invited", "active", "declined", "withdrawn", "left"}
       \* ck_participant_addressed, ck_participant_active_is_a_person, ck_participant_responded
       /\ parts[i].who # Nobody \/ (parts[i].group /\ parts[i].status # "active")
       /\ parts[i].responded => parts[i].status \in {"active", "declined"}
  /\ \A t \in Requests : partReq[t].at \in {"idle", "insert", "answer", "remove"}
  /\ Len(parts) <= MaxParts /\ Len(ends) = Len(parts)

PartInit ==
  /\ assignee \in People \cup {Nobody}
  /\ parts = <<>> /\ ends = <<>> /\ assignedSince = {}
  /\ partReq = [t \in Requests |-> IdlePart]

Alive(p) == p.status \in {"invited", "active"}
LivePart(u) == {i \in DOMAIN parts : parts[i].who = u /\ Alive(parts[i])}
OpenGroup == {i \in DOMAIN parts : parts[i].group /\ parts[i].status = "invited"}

RefuseAssigneeOrDuplicate(u) == assignee # u /\ LivePart(u) = {}

Takes(t, request) ==
  /\ partReq[t] = IdlePart
  /\ partReq' = [partReq EXCEPT ![t] = request]
  /\ UNCHANGED <<assignee, parts, ends>>

Engaged(u) ==
  LivePart(u) # {} \/ \E t \in Requests : partReq[t].at \in {"insert", "answer"} /\ partReq[t].who = u

(* A person begins anew: what was said of an earlier part is over.         *)
Afresh(u) == assignedSince' = IF Engaged(u) THEN assignedSince ELSE assignedSince \ {u}

Add(t, u) ==
  RefuseAssigneeOrDuplicate(u) /\ Takes(t, InsertOf(u, FALSE, "active")) /\ Afresh(u)
Invite(t, u) ==
  RefuseAssigneeOrDuplicate(u) /\ Takes(t, InsertOf(u, FALSE, "invited")) /\ Afresh(u)
InviteGroup(t) ==
  OpenGroup = {} /\ Takes(t, InsertOf(Nobody, TRUE, "invited")) /\ UNCHANGED assignedSince

(* ux_acct_ticket_participants_live, ux_acct_ticket_participants_group_open *)
Insert(t) ==
  LET r == partReq[t]
  IN
  /\ r.at = "insert" /\ Len(parts) < MaxParts
  /\ IF r.group THEN OpenGroup = {} ELSE LivePart(r.who) = {}
  /\ parts' = Append(parts, [who |-> r.who, group |-> r.group, status |-> r.status,
                             responded |-> FALSE])
  /\ ends' = Append(ends, {})
  /\ partReq' = [partReq EXCEPT ![t] = IdlePart]
  /\ UNCHANGED <<assignee, assignedSince>>

(* mine: an invitation is answered by whom it names, or by a member.       *)
Mine(i, u) ==
  /\ parts[i].status = "invited"
  /\ parts[i].who \in {Nobody, u}
  /\ parts[i].group => u \in GroupMembers

Accept(t, i, u) ==
  /\ Mine(i, u)
  /\ parts[i].group => RefuseAssigneeOrDuplicate(u)
  /\ Takes(t, AnswerOf(i, u, TRUE))
  /\ Afresh(u)

Decline(t, i, u) == Mine(i, u) /\ Takes(t, AnswerOf(i, u, FALSE)) /\ UNCHANGED assignedSince

StillInvited(i) == parts[i].status = "invited"

Answered(p, r) ==
  IF r.accepts THEN [p EXCEPT !.status = "active", !.who = r.who, !.responded = TRUE]
  ELSE [p EXCEPT !.status = "declined", !.responded = TRUE]

Answer(t) ==
  LET r == partReq[t]
  IN
  /\ r.at = "answer"
  /\ StillInvited(r.row)
  /\ r.accepts => LivePart(r.who) \subseteq {r.row}
  /\ parts' = [parts EXCEPT ![r.row] = Answered(@, r)]
  /\ ends' = [ends EXCEPT ![r.row] = @ \cup {IF r.accepts THEN "accepted" ELSE "declined"}]
  /\ partReq' = [partReq EXCEPT ![t] = IdlePart]
  /\ UNCHANGED <<assignee, assignedSince>>

ReadRemove(t, i) ==
  Takes(t, RemoveOf(i, parts[i].status = "invited")) /\ UNCHANGED assignedSince

(* An open invitation is withdrawn, a part is left.  ck_participant_responded *)
(* refuses `left' for a row that carries an answer.                        *)
Remove(t) ==
  LET r == partReq[t]
  IN
  /\ r.at = "remove"
  /\ IF r.invited THEN StillInvited(r.row)
     ELSE parts[r.row].status = "active" /\ ~parts[r.row].responded
  /\ parts' = [parts EXCEPT ![r.row].status = IF r.invited THEN "withdrawn" ELSE "left"]
  /\ ends' = [ends EXCEPT ![r.row] = @ \cup {IF r.invited THEN "withdrawn" ELSE "left"}]
  /\ partReq' = [partReq EXCEPT ![t] = IdlePart]
  /\ UNCHANGED <<assignee, assignedSince>>

Refused(t) ==
  /\ partReq[t].at # "idle"
  /\ partReq' = [partReq EXCEPT ![t] = IdlePart]
  /\ UNCHANGED <<assignee, parts, ends, assignedSince>>

(* The ticket is handed on (module Ticket), whoever takes part in it.      *)
Assign(u) ==
  /\ assignee # u
  /\ assignee' = u
  /\ assignedSince' = assignedSince \cup ({u} \ {Nobody})
  /\ UNCHANGED <<parts, partReq, ends>>

PartNext ==
  \/ \E t \in Requests :
       \/ \E u \in People :
            \/ Add(t, u) \/ Invite(t, u)
            \/ \E i \in DOMAIN parts : Accept(t, i, u) \/ Decline(t, i, u)
       \/ InviteGroup(t) \/ Insert(t) \/ Answer(t)
       \/ \E i \in DOMAIN parts : ReadRemove(t, i)
       \/ Remove(t) \/ Refused(t)
  \/ \E u \in People \cup {Nobody} : Assign(u)

PartConstants == Nobody \notin People /\ MaxParts \in Nat

-----------------------------------------------------------------------------
\* Nobody is on a ticket twice, and a group is asked once at a time, though
\* every check is made before other requests have committed.
OnTicketOnce ==
  /\ \A i, j \in DOMAIN parts : i # j /\ Alive(parts[i]) /\ Alive(parts[j]) =>
       parts[i].who = Nobody \/ parts[i].who # parts[j].who
  /\ \A i, j \in OpenGroup : i = j

\* An invitation ends in one way: accepted, declined or withdrawn.
InvitationEndsOnce ==
  \A i \in DOMAIN ends : \A e, f \in ends[i] : e = f

\* The assignee has no part besides, unless the ticket was assigned to them
\* after their part began or while it was being written.
AssigneeIsNoParticipant ==
  \A u \in People : assignee = u /\ LivePart(u) # {} => u \in assignedSince
=============================================================================
