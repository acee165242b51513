---------------------------- MODULE TicketIntake ----------------------------
(***************************************************************************)
(* The creation of tickets on one account: the contract, the requester's   *)
(* contact, the group by choice or by the account's routing rules, the     *)
(* assignee and the clocks, while the rules are replaced and a group is    *)
(* retired.                                                                *)
(*                                                                         *)
(* A creation reads everything first and inserts at its end, without a     *)
(* lock; a replacement of the rules deletes the rows it saw, in a          *)
(* statement that waits for another's locks, and inserts its own.          *)
(***************************************************************************)
EXTENDS Integers, FiniteSets, FiniteSetsExt

CONSTANTS Requests, MaxCreated, MaxSaves, None

VARIABLES
  contracts,  \* acct.contracts: the status, whether its period holds today, whether its policy covers
  groupStatus, \* op.assignment_groups
  personActive, \* whether the assignee is an active internal user
  rules,      \* acct.group_routing_rules
  contactIds, \* acct.contacts with the requester's address
  intakeReq,  \* the requests: creations and replacements
  created,    \* the tickets, with what was written for them
  saves,      \* how many replacements committed, and the last one's rules
  moved,      \* history: per request, what changed since it read
  mixed       \* history: two replacements overlapped

intakeVars == <<contracts, groupStatus, personActive, rules, contactIds, intakeReq, created, saves,
                moved, mixed>>

Groups == {"desk", "field"}
Categories == {"network", "other"}
Idle == [at |-> "idle"]

\* A rule names a category or, with None, the type as a whole.
Rule(category, group, by) == [category |-> category, group |-> group, by |-> by]
RuleSets == {{<<None, "desk">>}, {<<"network", "field">>},
             {<<None, "desk">>, <<"network", "field">>}}

IntakeInit ==
  /\ contracts \in [{1, 2} -> [status : {"active", "expired"}, open : BOOLEAN, covers : {FALSE},
                               policy : BOOLEAN]]
  /\ contracts[1].status = "active" /\ ~contracts[2].policy
  /\ contracts[2].status = "active" => ~contracts[1].policy /\ contracts[1].open
  /\ contracts[2].open
  /\ groupStatus = [g \in Groups |-> "active"]
  /\ personActive \in BOOLEAN
  /\ ~personActive => contracts[1].policy
  /\ rules \in {{}, {Rule(None, "desk", 0), Rule("network", "field", 0)}}
  /\ contactIds = {}
  /\ intakeReq = [r \in Requests |-> Idle]
  /\ created = {}
  /\ saves = [count |-> 0, last |-> {<<x.category, x.group>> : x \in rules}]
  /\ moved = [r \in Requests |-> FALSE]
  /\ mixed = FALSE

-----------------------------------------------------------------------------
PeriodOpen(c) == contracts[c].status = "active" /\ contracts[c].open

Candidates == {c \in DOMAIN contracts : PeriodOpen(c)}

\* The named contract when its period is open, else the only one that is.
ResolveContract(asked) ==
  IF asked # None THEN (IF PeriodOpen(asked) THEN asked ELSE None)
  ELSE IF Cardinality(Candidates) = 1 THEN CHOOSE c \in Candidates : TRUE ELSE None

\* The rule for the category before the rule for the type; a retired group
\* routes nothing.
Resolve(category) ==
  LET live == {x \in rules : groupStatus[x.group] = "active" /\ x.category \in {category, None}}
      exact == {x \in live : x.category = category}
  IN IF live = {} THEN None
     ELSE (CHOOSE x \in IF exact # {} THEN exact ELSE live : TRUE).group

\* The contract's own policy when it covers the type and priority, else the default.
TargetsFor(c) ==
  IF contracts[c].policy /\ contracts[c].covers THEN "contract" ELSE "default"

\* The reference a clock carries names the contract whenever it has a policy.
PolicyRef(c) == IF contracts[c].policy THEN "contract" ELSE TargetsFor(c)

Plain == [contract |-> None, group |-> None, category |-> "network", contact |-> FALSE,
          assignee |-> FALSE, import |-> FALSE]

Asked == {[Plain EXCEPT !.contact = TRUE, !.assignee = TRUE], [Plain EXCEPT !.group = "desk"],
          [Plain EXCEPT !.category = "other"], [Plain EXCEPT !.contract = 1, !.contact = TRUE],
          [Plain EXCEPT !.import = TRUE]}

BeginCreate(r) ==
  /\ intakeReq[r] = Idle /\ Cardinality(created) < MaxCreated
  /\ \E d \in Asked :
       /\ ResolveContract(d.contract) # None
       /\ d.assignee => personActive
       /\ d.group # None => groupStatus[d.group] = "active"
       /\ intakeReq' = [intakeReq EXCEPT ![r] =
            [at |-> "create", dto |-> d, contract |-> ResolveContract(d.contract),
             found |-> contactIds,
             group |-> IF d.group # None THEN d.group ELSE Resolve(d.category),
             targets |-> TargetsFor(ResolveContract(d.contract)),
             ref |-> PolicyRef(ResolveContract(d.contract))]]
  /\ moved' = [moved EXCEPT ![r] = FALSE]
  /\ UNCHANGED <<contracts, groupStatus, personActive, rules, contactIds, created, saves, mixed>>

\* The contact is found or inserted: another's insert of it meanwhile is a
\* duplicate key and the ticket is lost with it.  An import writes no clocks,
\* no events and notifies nobody.
CommitCreate(r) ==
  LET q == intakeReq[r]
      d == q.dto
      clash == d.contact /\ q.found = {} /\ contactIds # {}
  IN /\ q.at = "create"
     /\ intakeReq' = [intakeReq EXCEPT ![r] = Idle]
     /\ IF clash
          THEN UNCHANGED <<contactIds, created>>
          ELSE /\ contactIds' = IF d.contact /\ q.found = {} THEN {r} ELSE contactIds
               /\ created' = created \cup
                    {[id |-> Cardinality(created) + 1, contract |-> q.contract, group |-> q.group,
                      category |-> d.category, chosen |-> d.group # None, import |-> d.import,
                      contact |-> d.contact, assigned |-> d.assignee,
                      clocks |-> IF d.import THEN {} ELSE {q.targets},
                      ref |-> IF d.import THEN None ELSE q.ref,
                      events |-> IF d.import THEN {} ELSE
                        {"ticket.created"}
                          \cup (IF q.group # None THEN {"ticket.group_assigned"} ELSE {})
                          \cup (IF d.assignee THEN {"ticket.assigned"} ELSE {}),
                      stale |-> moved[r],
                      wanted |-> IF d.group # None THEN d.group ELSE Resolve(d.category)]}
     /\ moved' = [moved EXCEPT ![r] = FALSE]
     /\ UNCHANGED <<contracts, groupStatus, personActive, rules, saves, mixed>>

-----------------------------------------------------------------------------
\* Others that change what a creation has read.
Reading == {r \in Requests : intakeReq[r].at = "create"}
Stirred == moved' = [r \in Requests |-> moved[r] \/ r \in Reading]

RetireGroup ==
  /\ Reading # {}
  /\ \E g \in Groups :
       /\ groupStatus[g] = "active"
       /\ \A o \in Groups : groupStatus[o] = "active"
       /\ groupStatus' = [groupStatus EXCEPT ![g] = "retired"]
  /\ Stirred
  /\ UNCHANGED <<contracts, personActive, rules, contactIds, intakeReq, created, saves, mixed>>

\* replace: the delete sees the rows committed when its statement begins.
BeginReplace(r) ==
  /\ intakeReq[r] = Idle /\ saves.count < MaxSaves /\ created = {}
  /\ \E set \in RuleSets :
       intakeReq' = [intakeReq EXCEPT ![r] = [at |-> "delete", seen |-> rules, set |-> set]]
  /\ UNCHANGED <<contracts, groupStatus, personActive, rules, contactIds, created, saves, moved, mixed>>

Replacing == {o \in Requests : intakeReq[o].at \in {"delete", "insert"}}

DeleteRules(r) ==
  /\ intakeReq[r].at = "delete"
  /\ \A o \in Requests \ {r} :
       intakeReq[o].at = "insert" => intakeReq[o].seen \cap intakeReq[r].seen = {}
  /\ intakeReq' = [intakeReq EXCEPT ![r].at = "insert"]
  /\ UNCHANGED <<contracts, groupStatus, personActive, rules, contactIds, created, saves, moved, mixed>>

\* The inserts hit the unique index where a rule for the pair is left.
CommitReplace(r) ==
  LET q == intakeReq[r]
      left == rules \ q.seen
      clash == \E x \in left, y \in q.set : x.category = y[1]
  IN /\ q.at = "insert"
     /\ IF clash
          THEN UNCHANGED <<rules, saves, mixed, moved>>
          ELSE /\ rules' = left \cup {Rule(y[1], y[2], saves.count + 1) : y \in q.set}
               /\ saves' = [count |-> saves.count + 1, last |-> q.set]
               /\ mixed' = (left # {})
               /\ Stirred
     /\ intakeReq' = [intakeReq EXCEPT ![r] = Idle]
     /\ UNCHANGED <<contracts, groupStatus, personActive, contactIds, created>>

IntakeNext ==
  \/ \E r \in Requests : BeginCreate(r) \/ CommitCreate(r)
                         \/ BeginReplace(r) \/ DeleteRules(r) \/ CommitReplace(r)
  \/ RetireGroup

-----------------------------------------------------------------------------
IntakeTypeOK ==
  /\ contracts \in [{1, 2} -> [status : {"active", "expired"}, open : BOOLEAN, covers : BOOLEAN,
                               policy : BOOLEAN]]
  /\ groupStatus \in [Groups -> {"active", "retired"}]
  /\ personActive \in BOOLEAN
  /\ rules \subseteq [category : Categories \cup {None}, group : Groups, by : 0..(MaxSaves + 1)]
  /\ contactIds \subseteq Requests
  /\ \A r \in Requests : intakeReq[r].at \in {"idle", "create", "delete", "insert"}
  /\ Cardinality(created) <= MaxCreated + 1
  /\ saves.count \in 0..(MaxSaves + Cardinality(Requests))
  /\ moved \in [Requests -> BOOLEAN]
  /\ mixed \in BOOLEAN

\* A ticket without a chosen group goes where the rules sent it, a contact's
\* address is one contact's, and a creation that raced nothing used an open
\* contract (tickets.service.ts create, routing.module.ts resolve).
RoutedAsRuled ==
  /\ Cardinality(contactIds) <= 1
  /\ \A t \in created : ~t.stale => t.group = t.wanted /\ (t.contact => contactIds # {})

\* An imported ticket starts nothing and tells nobody; any other has a clock
\* and is told of once, with its group and its assignee.
ImportsAreSilent ==
  \A t \in created :
    /\ t.import <=> t.events = {}
    /\ t.import <=> t.clocks = {}
    /\ "ticket.group_assigned" \in t.events <=> ~t.import /\ t.group # None

\* The rules are those of the last save, and one for each pair, unless two
\* saves overlapped over different rows.
RulesOfOneSave ==
  /\ \A x, y \in rules : x.category = y.category => x = y
  /\ ~mixed => {<<x.category, x.group>> : x \in rules} = saves.last
=============================================================================
