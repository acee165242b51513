------------------------------ MODULE SyncEcho ------------------------------
(***************************************************************************)
(* One linked case between XMS and a client's ServiceNow instance:         *)
(* pollOne, applyOne, applyRecord, push and echoGuard of                   *)
(* src/src/modules/connectors/sync.worker.ts over isReflection of          *)
(* src/src/domain/sync/rules.ts.                                           *)
(*                                                                         *)
(* The poller reads the case when its stamp is past the watermark, then    *)
(* its journal since the watermark, and stores both as an inbox row keyed  *)
(* by the stamp.  A pass of the apply job takes the pending rows in order. *)
(* A row that reads like our own last write is dropped whole; otherwise    *)
(* its field value and its journal entries reach the ticket.  A push       *)
(* writes a message of ours at the instance and then commits the echo      *)
(* guard.  All stamps are the instance's, in whole seconds; value is a     *)
(* field the client owns and the map carries both ways.                    *)
(***************************************************************************)
EXTENDS Integers, FiniteSets, Sequences

CONSTANTS
  Comments,          \* comments the client may write
  Tolerance,         \* clock_tolerance_seconds
  MaxInboxAttempts,  \* MAX_INBOX_ATTEMPTS
  PassSize,          \* the limit of pendingInbox, 50
  MaxPushes, MaxEdits, MaxNow,  \* bounds on pushes, client edits and time
  MaxDisturbances    \* bound on lost commits, failed applies, replays and rewinds

ASSUME EchoAssumption ==
  /\ Tolerance \in Nat /\ {MaxInboxAttempts, PassSize} \subseteq Nat \ {0}
  /\ {MaxPushes, MaxEdits, MaxDisturbances} \subseteq Nat /\ MaxNow \in Nat \ {0}
ASSUME CommentsAssumption == Comments \cap {"xms", "edit"} = {}

None == -1

VARIABLES
  now,
  case,      \* the record at the instance: its stamp and the client's value
  journal,   \* its journal entries
  value,     \* the field of the ticket
  shown,     \* shown[c]: comments of the ticket made from the client's c
  echoes,    \* comments of the ticket made from messages of ours
  links,     \* entries with a row in acct.sync_journal_links
  sent,      \* those of them linked as ours, with direction 'out'
  guard,     \* the link's last outbound instant and hash
  watermark,
  poll,      \* the record a poll has read, before it stores the page
  inbox,     \* the rows of sys.inbox, in order
  pass,      \* rows the apply pass has still to take
  push,      \* the value and the entry a push read back, before it commits
  pushes, edits, disturbances, \* counted against the bounds
  quiet      \* history: changes of the client no push has come near

vars == <<now, case, journal, value, shown, echoes, links, sent, guard, watermark, poll,
          inbox, pass, push, pushes, edits, disturbances, quiet>>
remoteVars == <<case, journal>>
ticketVars == <<value, shown, echoes>>
linkVars == <<links, sent, guard>>
inboundVars == <<watermark, poll, inbox, pass>>
bounds == <<pushes, edits, disturbances>>

Instants == -1 .. MaxNow
NoEntry == [by |-> "none", at |-> None]
Entry == [by : Comments \cup {"xms"}, at : Instants]
InboxRow ==
  [version : Instants, value : Nat, entries : SUBSET Entry,
   outcome : {"pending", "applied", "dropped_reflection", "failed"}, attempts : Nat]

Push == [value : Nat, entry : Entry \cup {NoEntry}]
Changes == Comments \cup {"edit"}

NoGuard == [at |-> None, hash |-> None]
NoPush == [value |-> None, entry |-> NoEntry]
NoPoll == [stamp |-> None, value |-> 0]

TypeOK ==
  /\ now \in 1 .. MaxNow
  /\ case \in [stamp : Instants, value : Nat] /\ journal \subseteq Entry
  /\ value \in Nat /\ shown \in [Comments -> Nat] /\ echoes \in Nat
  /\ links \subseteq Entry /\ sent \subseteq links /\ guard \in [at : Instants, hash : Nat \cup {None}]
  /\ watermark \in Instants
  /\ poll \in [stamp : Instants, value : Nat]
  /\ inbox \in Seq(InboxRow) /\ pass \subseteq DOMAIN inbox
  /\ push \in Push \cup {NoPush}
  /\ pushes \in 0 .. MaxPushes /\ edits \in 0 .. MaxEdits
  /\ disturbances \in 0 .. MaxDisturbances /\ quiet \subseteq Changes

(* The case was polled, applied and linked at second 0. *)
Init ==
  /\ now = 1
  /\ case = [stamp |-> 0, value |-> 0] /\ journal = {}
  /\ value = 0 /\ shown = [c \in Comments |-> 0] /\ echoes = 0
  /\ links = {} /\ sent = {} /\ guard = NoGuard
  /\ watermark = 0 /\ poll = NoPoll /\ inbox = <<>> /\ pass = {}
  /\ push = NoPush
  /\ pushes = 0 /\ edits = 0 /\ disturbances = 0 /\ quiet = {}

Disturbed == disturbances < MaxDisturbances /\ disturbances' = disturbances + 1

-----------------------------------------------------------------------------
(* The client writes a comment, or edits the field. *)
Made(c) == \E e \in journal : e.by = c

Shown(c) == IF c = "edit" THEN value = case.value ELSE shown[c] > 0

NearPush == push # NoPush \/ (guard.at # None /\ now <= guard.at + Tolerance)
Stored(version) == \E i \in DOMAIN inbox : inbox[i].version = version
SecondOfAPoll == now <= watermark \/ now <= poll.stamp \/ Stored(now)

Quiet(change) ==
  quiet' = IF NearPush \/ SecondOfAPoll THEN quiet \ {change} ELSE quiet \cup {change}

ClientComments(c) ==
  /\ ~Made(c)
  /\ journal' = journal \cup {[by |-> c, at |-> now]}
  /\ case' = [case EXCEPT !.stamp = now]
  /\ Quiet(c)
  /\ UNCHANGED <<now, ticketVars, linkVars, inboundVars, push, bounds>>

ClientEdits ==
  /\ edits < MaxEdits /\ edits' = edits + 1
  /\ case' = [stamp |-> now, value |-> case.value + 1]
  /\ Quiet("edit")
  /\ UNCHANGED <<now, journal, ticketVars, linkVars, inboundVars, push, pushes, disturbances>>

-----------------------------------------------------------------------------
(* push: createJournal writes a message of ours; the answer is the record.  *)
PushWrite ==
  /\ push = NoPush /\ pushes < MaxPushes
  /\ pushes' = pushes + 1
  /\ journal' = journal \cup {[by |-> "xms", at |-> now]}
  /\ case' = [case EXCEPT !.stamp = now]
  /\ push' = [value |-> case.value, entry |-> NoEntry]
  /\ quiet' = {c \in quiet : Shown(c)}
  /\ UNCHANGED <<now, ticketVars, linkVars, inboundVars, edits, disturbances>>

(* createJournal, the second call: the newest entry, by a stamp in seconds. *)
Newest(entries) == {e \in entries : \A f \in entries : f.at <= e.at}

PushReadBack ==
  /\ push # NoPush /\ push.entry = NoEntry
  /\ \E e \in Newest(journal) : push' = [push EXCEPT !.entry = e]
  /\ UNCHANGED <<now, remoteVars, ticketVars, linkVars, inboundVars, bounds, quiet>>

(* echoGuard: the commit of the journal link, the hash and the instant.     *)
PushCommit ==
  /\ push.entry # NoEntry
  /\ links' = links \cup {push.entry}
  /\ sent' = IF push.entry \in links THEN sent ELSE sent \cup {push.entry}
  /\ guard' = [at |-> now, hash |-> push.value]
  /\ push' = NoPush
  /\ quiet' = {c \in quiet : Shown(c)}
  /\ UNCHANGED <<now, remoteVars, ticketVars, inboundVars, bounds>>

(* The commit is lost: the entry stays at the instance, with no link and no *)
(* guard, and the message is pushed again later.                            *)
PushLost ==
  /\ push # NoPush /\ push' = NoPush
  /\ Disturbed
  /\ UNCHANGED <<now, remoteVars, ticketVars, linkVars, inboundVars, pushes, edits, quiet>>

-----------------------------------------------------------------------------
(* pollOne: changedSince. *)
PollRead ==
  /\ poll = NoPoll /\ case.stamp > watermark
  /\ poll' = case
  /\ UNCHANGED <<now, remoteVars, ticketVars, linkVars, watermark, inbox, pass, push, bounds, quiet>>

(* pollOne: the journal since the watermark, insertInbox on conflict do      *)
(* nothing, and the watermark moves to the stamp of the record.             *)
\* A mutant of the next definition.
OldWatermark == watermark
NewWatermark == poll.stamp
JournalSince == {e \in journal : e.at > watermark}

PollStore ==
  /\ poll # NoPoll
  /\ inbox' = IF Stored(poll.stamp) THEN inbox
              ELSE Append(inbox, [version |-> poll.stamp, value |-> poll.value,
                                  entries |-> JournalSince, outcome |-> "pending", attempts |-> 0])
  /\ watermark' = NewWatermark
  /\ poll' = NoPoll
  /\ UNCHANGED <<now, remoteVars, ticketVars, linkVars, pass, push, bounds, quiet>>

(* watermark: an operator rewinds it, between polls. *)
Rewind ==
  /\ poll = NoPoll /\ watermark > 0
  /\ watermark' = 0
  /\ Disturbed
  /\ UNCHANGED <<now, remoteVars, ticketVars, linkVars, poll, inbox, pass, push, pushes, edits, quiet>>

-----------------------------------------------------------------------------
(* applyPending: the oldest pending rows, to be taken in order. *)
Pending == {i \in DOMAIN inbox : inbox[i].outcome = "pending"}
Oldest(rows) == {i \in rows : Cardinality({j \in rows : j < i}) < PassSize}

StartPass ==
  /\ pass = {} /\ Pending # {}
  /\ pass' = Oldest(Pending)
  /\ UNCHANGED <<now, remoteVars, ticketVars, linkVars, watermark, poll, inbox, push, bounds, quiet>>

(* The row the pass is at: the oldest it has left. *)
Taken == CHOOSE i \in pass : \A j \in pass : i <= j

(* isReflection: not later than our last write plus the tolerance, and the  *)
(* same values.                                                             *)
\* A mutant of the next definition.
isSameValue(row) == guard.at # None /\ row.value = guard.hash
isReflection(row) ==
  guard.at # None /\ row.version <= guard.at + Tolerance /\ row.value = guard.hash

\* A mutant of the next definition.
RunOutcome(i, outcome) ==
  inbox' = [inbox EXCEPT ![i].outcome = IF outcome = "applied" THEN "success" ELSE "skipped_reflection"]
Outcome(i, outcome) ==
  inbox' = [inbox EXCEPT ![i].outcome = outcome]

Drop ==
  /\ pass # {} /\ isReflection(inbox[Taken])
  /\ Outcome(Taken, "dropped_reflection")
  /\ pass' = pass \ {Taken}
  /\ UNCHANGED <<now, remoteVars, ticketVars, linkVars, watermark, poll, push, bounds, quiet>>

(* hasJournalMarker, and journalLinkExists. *)
hasJournalMarker(e) == e.by = "xms"
\* A mutant of the next definition.
Unmarked(entries) == {e \in entries : ~hasJournalMarker(e)}
Fresh(entries) == {e \in entries : ~hasJournalMarker(e) /\ e \notin links}

(* applyRecord on a linked case: the client's value, then the entries.      *)
Apply ==
  LET row   == inbox[Taken]
      fresh == Fresh(row.entries)
  IN  /\ pass # {} /\ ~isReflection(row)
      /\ value' = row.value
      /\ shown' = [c \in Comments |->
                     shown[c] + Cardinality({e \in fresh : e.by = c})]
      /\ echoes' = echoes + Cardinality({e \in fresh : e.by = "xms"})
      /\ links' = links \cup fresh
      /\ Outcome(Taken, "applied")
      /\ pass' = pass \ {Taken}
      /\ UNCHANGED <<now, remoteVars, sent, guard, watermark, poll, push, bounds, quiet>>

(* applyOne, the catch: retried by the next pass, or dead-lettered when the *)
(* error is for good or the attempts are used up.  The pass goes on.        *)
ApplyFails(terminal) ==
  LET i == Taken
      n == inbox[i].attempts + 1
  IN  /\ pass # {} /\ Disturbed
      /\ inbox' = [inbox EXCEPT ![i].attempts = n,
                                ![i].outcome = IF terminal \/ n >= MaxInboxAttempts
                                               THEN "failed" ELSE @]
      /\ pass' = pass \ {Taken}
      /\ UNCHANGED <<now, remoteVars, ticketVars, linkVars, watermark, poll, push, pushes, edits, quiet>>

(* resolveDeadLetters, replay: reopenInbox. *)
ReplayInbox(i) ==
  /\ i \in DOMAIN inbox /\ inbox[i].outcome = "failed"
  /\ inbox' = [inbox EXCEPT ![i].outcome = "pending", ![i].attempts = 0]
  /\ Disturbed
  /\ UNCHANGED <<now, remoteVars, ticketVars, linkVars, watermark, poll, pass, push, pushes, edits, quiet>>

Tick ==
  /\ now < MaxNow /\ now' = now + 1
  /\ UNCHANGED <<remoteVars, ticketVars, linkVars, inboundVars, push, bounds, quiet>>

Next ==
  \/ \E c \in Comments : ClientComments(c)
  \/ ClientEdits
  \/ PushWrite \/ PushReadBack \/ PushCommit \/ PushLost
  \/ PollRead \/ PollStore \/ Rewind
  \/ StartPass \/ Drop \/ Apply
  \/ \E terminal \in BOOLEAN : ApplyFails(terminal)
  \/ \E i \in DOMAIN inbox : ReplayInbox(i)
  \/ Tick

Spec == Init /\ [][Next]_vars

(* The jobs come round, and a push ends. *)
FairSpec ==
  /\ Spec
  /\ WF_vars(PollRead) /\ WF_vars(PollStore)
  /\ WF_vars(StartPass) /\ WF_vars(Drop \/ Apply)
  /\ WF_vars(PushReadBack \/ PushCommit)

-----------------------------------------------------------------------------
(* What we wrote never comes back as a comment of the ticket: not when the   *)
(* commit of the push was lost, and no link and no guard knows of it, and    *)
(* not when the watermark is rewound over it.                                *)
OursNeverReturn == echoes = 0

(* A comment of the client's becomes one comment of the ticket, however      *)
(* often it is polled, replayed or carried by a later version of the case.   *)
ClientCommentOnce == \A c \in Comments : shown[c] <= 1

(* Both: the import of journal entries neither returns ours nor repeats      *)
(* theirs.                                                                   *)
CommentsAppearOnce == OursNeverReturn /\ ClientCommentOnce

Failed == {i \in DOMAIN inbox : inbox[i].outcome = "failed"}
Carries(i, c) == \E e \in inbox[i].entries : e.by = c

(* Nothing is in progress, and the watermark has passed the comment. *)
DealtWith(c) ==
  /\ \E e \in journal : e.by = c /\ e.at <= watermark
  /\ poll = NoPoll /\ Pending = {}

(* A client comment is lost only to a push of ours: one that no push comes   *)
(* near, from the tolerance before it until it is applied, and that does not *)
(* fall into the very second of a poll, reaches the ticket or a dead letter. *)
QuietCommentsArrive ==
  \A c \in Comments \cap quiet :
     DealtWith(c) => Shown(c) \/ \E i \in Failed : Carries(i, c)

(* Nor is a quiet change of the client's field taken for an echo or          *)
(* overwritten: when nothing failed, the ticket ends up with it.             *)
QuietEditArrives ==
  (/\ "edit" \in quiet /\ disturbances = 0
   /\ poll = NoPoll /\ Pending = {} /\ case.stamp <= watermark)
    => value = case.value

(* Both: the poll, the inbox and the reflection test lose nothing the client *)
(* changed while we were not writing.                                        *)
QuietChangesArrive == QuietCommentsArrive /\ QuietEditArrives

(* What a client changes is dealt with: the watermark catches up with the    *)
(* case, and no inbox row stays pending.                                     *)
InboxDrains == []<>(poll = NoPoll /\ Pending = {} /\ case.stamp <= watermark)

(* snow-client.ts 234: "the entry read back is the one just written": a link *)
(* with direction 'out' is to an entry of ours.                              *)
OutLinksAreOurs == \A e \in sent : e.by = "xms"

(* sync.worker.ts 474: "Journal entries: comments become public comments;    *)
(* ... our own echoes never": each comment in the inbox, whatever is pushed  *)
(* meanwhile.                                                                *)
PolledCommentsArrive ==
  \A c \in Comments :
     (Pending = {} /\ \E i \in DOMAIN inbox : Carries(i, c))
       => Shown(c) \/ \E i \in Failed : Carries(i, c)
=============================================================================
