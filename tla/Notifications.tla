---------------------------- MODULE Notifications ----------------------------
(***************************************************************************)
(* The notifications of one collapse key, say those of one ticket:         *)
(* src/src/modules/notifications/notifications.repository.ts on            *)
(* acct.notifications (0004_tickets.sql).                                  *)
(*                                                                         *)
(* Comments, transitions and jobs notify their recipients one after the    *)
(* other, inside the transaction of the change they tell of, so what the   *)
(* index refuses takes that change with it.  Recipients read meanwhile.    *)
(***************************************************************************)
EXTENDS Naturals, Sequences, FiniteSets

CONSTANTS
  Requests,
  Recipients,
  Orders,      \* in which a change may notify them
  MaxEvents    \* bound on changes

VARIABLES
  feed,        \* committed rows of each recipient, oldest first
  noteReq,     \* the changes in progress
  page,        \* the row each recipient looks at
  begun,       \* changes begun
  told,        \* history: committed changes each recipient was notified of
  acted        \* history: how many of them had been, when it last marked the unread row

noteVars == <<feed, noteReq, page, begun, told, acted>>

Quiet == [at |-> "quiet"]
Closed == 0

NoteTypeOK ==
  /\ \A u \in Recipients :
       /\ \A i \in DOMAIN feed[u] : feed[u][i].count \in 1 .. MaxEvents /\ feed[u][i].read \in BOOLEAN
       /\ page[u] \in 0 .. Len(feed[u])
  /\ \A t \in Requests : noteReq[t].at \in {"quiet", "update", "insert"}
  /\ begun \in 0 .. MaxEvents /\ told \in [Recipients -> 0 .. MaxEvents]
  /\ \A u \in Recipients : acted[u] \in 0 .. told[u]

NoteInit ==
  /\ feed = [u \in Recipients |-> <<>>]
  /\ noteReq = [t \in Requests |-> Quiet]
  /\ page = [u \in Recipients |-> Closed]
  /\ begun = 0 /\ told = [u \in Recipients |-> 0] /\ acted = [u \in Recipients |-> 0]

Unread(u) == {i \in DOMAIN feed[u] : ~feed[u][i].read}

\* absorbed and inserted are the recipients whose row a change has written
\* and not committed.
Change(t, order) ==
  /\ noteReq[t] = Quiet /\ begun < MaxEvents
  /\ noteReq' = [noteReq EXCEPT ![t] =
       [at |-> "update", todo |-> order, absorbed |-> {}, inserted |-> {}]]
  /\ begun' = begun + 1
  /\ UNCHANGED <<feed, page, told, acted>>

Others(t) == {noteReq[u] : u \in {v \in Requests \ {t} : noteReq[v] # Quiet}}
Absorbing(t, u) == \E o \in Others(t) : u \in o.absorbed
Inserting(t, u) == \E o \in Others(t) : u \in o.inserted

\* update ... where read_at is null: takes the row's lock, or finds none.
Absorb(t) ==
  LET r == noteReq[t]
      u == Head(r.todo)
  IN
  /\ r.at = "update" /\ r.todo # <<>>
  /\ Unread(u) # {} => ~Absorbing(t, u)
  /\ noteReq' = [noteReq EXCEPT ![t] =
       IF Unread(u) = {} THEN [r EXCEPT !.at = "insert"]
       ELSE [r EXCEPT !.todo = Tail(@), !.absorbed = @ \cup {u}]]
  /\ UNCHANGED <<feed, page, begun, told, acted>>

\* ux_acct_notifications_collapse makes the insert wait for another one, and
\* fail when that one commits.
Insert(t) ==
  LET r == noteReq[t]
      u == Head(r.todo)
  IN
  /\ r.at = "insert"
  /\ Unread(u) = {} /\ ~Inserting(t, u)
  /\ noteReq' = [noteReq EXCEPT ![t] =
       [r EXCEPT !.at = "update", !.todo = Tail(@), !.inserted = @ \cup {u}]]
  /\ UNCHANGED <<feed, page, begun, told, acted>>

CommitChange(t) ==
  LET r == noteReq[t]
      absorb(rows) == [i \in DOMAIN rows |-> IF rows[i].read THEN rows[i] ELSE [rows[i] EXCEPT !.count = @ + 1]]
  IN
  /\ r.at = "update" /\ r.todo = <<>>
  /\ feed' = [u \in Recipients |->
       IF u \in r.absorbed THEN absorb(feed[u])
       ELSE IF u \in r.inserted THEN Append(feed[u], [count |-> 1, read |-> FALSE]) ELSE feed[u]]
  /\ told' = [u \in Recipients |-> IF u \in r.absorbed \cup r.inserted THEN told[u] + 1 ELSE told[u]]
  /\ noteReq' = [noteReq EXCEPT ![t] = Quiet]
  /\ UNCHANGED <<page, begun, acted>>

(* The insert was refused, or the rest of the change failed.               *)
RollbackChange(t) ==
  /\ noteReq[t] # Quiet
  /\ noteReq' = [noteReq EXCEPT ![t] = Quiet]
  /\ UNCHANGED <<feed, page, begun, told, acted>>

ShowFeed(u) ==
  /\ page[u] = Closed
  /\ \E i \in DOMAIN feed[u] : page' = [page EXCEPT ![u] = i]
  /\ UNCHANGED <<feed, noteReq, begun, told, acted>>

\* By id and recipient, whatever the row has become; it waits for a change
\* that absorbs into it.
MarkRead(u) ==
  LET i == page[u]
  IN
  /\ page[u] # Closed
  /\ \A t \in Requests : (noteReq[t] # Quiet => u \notin noteReq[t].absorbed)
  /\ feed' = [feed EXCEPT ![u][i].read = TRUE]
  /\ acted' = IF feed[u][i].read THEN acted ELSE [acted EXCEPT ![u] = told[u]]
  /\ page' = [page EXCEPT ![u] = Closed]
  /\ UNCHANGED <<noteReq, begun, told>>

MarkAllRead(u) ==
  /\ Unread(u) # {}
  /\ \A t \in Requests : (noteReq[t] # Quiet => u \notin noteReq[t].absorbed)
  /\ feed' = [feed EXCEPT ![u] = [i \in DOMAIN feed[u] |-> [feed[u][i] EXCEPT !.read = TRUE]]]
  /\ page' = [page EXCEPT ![u] = Closed]
  /\ acted' = [acted EXCEPT ![u] = told[u]]
  /\ UNCHANGED <<noteReq, begun, told>>

NoteNext ==
  \/ \E t \in Requests :
       \/ \E order \in Orders : Change(t, order)
       \/ Absorb(t) \/ Insert(t) \/ CommitChange(t) \/ RollbackChange(t)
  \/ \E u \in Recipients : ShowFeed(u) \/ MarkRead(u) \/ MarkAllRead(u)

\* A change notifies its recipients one after the other.
NoteConstants == \A order \in Orders : order \in Seq(Recipients)

-----------------------------------------------------------------------------
\* The changes that the rows count, added up one by one.
Counted(rows) ==
  LET upTo[i \in 0 .. Len(rows)] == IF i = 0 THEN 0 ELSE upTo[i - 1] + rows[i].count
  IN  upTo[Len(rows)]

\* A recipient has one unread row, and its rows count every change that was
\* committed, whoever read which of them in between.
EveryChangeIsCounted ==
  \A u \in Recipients :
    Cardinality(Unread(u)) <= 1 /\ told[u] = Counted(feed[u])

\* A recipient with nothing unread has been told of nothing since it last
\* marked what it had: no change lands in a row that is being read.
NewsAwaitsItsReader == \A u \in Recipients : Unread(u) = {} => acted[u] = told[u]
=============================================================================
