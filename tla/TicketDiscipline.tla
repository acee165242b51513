-------------------------- MODULE TicketDiscipline --------------------------
(***************************************************************************)
(* Changes of one configuration item and the windows they are planned in:  *)
(* create and patch of                                                     *)
(* src/src/modules/tickets/change-windows.module.ts, and the gate of       *)
(* transition, assertChangeWindow and conflictsFor, and the patch of the   *)
(* window and item of a ticket, in                                         *)
(* src/src/modules/tickets/tickets.service.ts.                             *)
(*                                                                         *)
(* transition locks its ticket; the window and the other changes of the    *)
(* item it reads unlocked.  A window's patch is under its version and is   *)
(* one step.  Spans are half-open ranges of hours.                         *)
(*                                                                         *)
(* The discipline of closing: one ticket moved along a configured state    *)
(* machine, what a transition requires, and the machine, the catalogs, the *)
(* article and the logged time that others change meanwhile.               *)
(*                                                                         *)
(* A transition holds the ticket's row from its first read to its commit;  *)
(* everything else it decides on is read without a lock.  Clocks are       *)
(* Ticket's; change windows are above; the catalogs are read as they      *)
(* are in force (Administration has their cache).                          *)
(***************************************************************************)
EXTENDS Integers, FiniteSets

CONSTANTS
  Requests,
  Changes,       \* changes of one account
  Windows, PlannedSpans,
  Freezes,       \* spans windows and freezes are given
  MaxHour,       \* bound on the clock
  MaxReplanned,  \* bound on patches of windows and of the plan of a change
  MaxMinutes, MaxMoves, None

VARIABLES
  windows,       \* span, freezes and status of the groups
  changes,       \* state, group and whether the item is set
  changeHolder,  \* the transition that has locked the change
  hour,
  changeReq,     \* what a transition has read
  replanned,
  acknowledged,  \* audit: the conflicts a change that holds its item was scheduled over
  unchecked,     \* history: claims altered since the change was scheduled
  overlapped,    \* history: pairs scheduled by overlapping transactions
  shipped,       \* how each change entered its deploying state
  late,          \* history: the window or the hour changed under a deploy
  machine,   \* the body in force: its states and its paths
  catalog,   \* resolution codes, those that need no solution, exemption reasons configured
  moving,    \* acct.tickets: state, code, exemption, solution, version
  minutes,   \* logged minutes, adjustments included
  published, \* whether the article of the solution is published
  closing,   \* the transition that holds the row, with what it read
  exempted,  \* outbox events 'ticket.time_exempted'
  waived,    \* history: resolutions without logged time
  lowered,   \* history: time was corrected after the transition had read it
  withdrawn, \* history: the article was retired after the transition had read it
  outlived   \* history: a machine came into force without the ticket's state

-----------------------------------------------------------------------------
(* Change windows                                                          *)

windowVars == <<windows, changes, changeHolder, hour, changeReq, replanned, acknowledged,
                unchecked, overlapped, shipped, late>>

NoTicket == "nobody"
Free == [at |-> "free"]
NoGroup == "none"
NoWindow == [span |-> [from |-> 0, to |-> 0], freezes |-> {}, cancelled |-> TRUE]
Spans == {s \in [from : 1 .. MaxHour, to : 2 .. MaxHour + 1] : s.from < s.to}
States == {"approved", "scheduled", "implementing", "validation", "completed", "cancelled"}

WindowsTypeOK ==
  /\ windows \in [Windows -> [span : Spans, freezes : SUBSET Spans, cancelled : BOOLEAN]]
  /\ changes \in [Changes -> [state : States, group : Windows \cup {NoGroup}, item : BOOLEAN]]
  /\ changeHolder \in [Changes -> Requests \cup {NoTicket}]
  /\ hour \in 1 .. MaxHour /\ replanned \in 0 .. MaxReplanned
  /\ \A t \in Requests : changeReq[t].at \in {"free", "read"}
  /\ acknowledged \in [Changes -> SUBSET Changes]
  /\ unchecked \subseteq Changes /\ overlapped \subseteq SUBSET Changes
  /\ shipped \in [Changes -> {"no", "open", "closed", "overridden"}] /\ late \subseteq Changes

(* Two approved changes, each in one of two windows that may overlap; one  *)
(* of the windows is open.                                                 *)
WindowsInit ==
  /\ \E spans \in [Windows -> PlannedSpans] :
     /\ \E w \in Windows : spans[w].from = 1
     /\ windows = [w \in Windows |-> [span |-> spans[w], freezes |-> {}, cancelled |-> FALSE]]
  /\ \E groups \in [Changes -> Windows] :
       changes = [c \in Changes |-> [state |-> "approved", group |-> groups[c], item |-> TRUE]]
  /\ changeHolder = [c \in Changes |-> NoTicket]
  /\ hour = 1 /\ replanned = 0
  /\ changeReq = [t \in Requests |-> Free]
  /\ acknowledged = [c \in Changes |-> {}]
  /\ unchecked = {} /\ overlapped = {}
  /\ shipped = [c \in Changes |-> "no"] /\ late = {}

Overlap(s, t) == s.from < t.to /\ t.from < s.to
Within(s) == hour \in s.from .. s.to - 1

Live(c) == changes[c].group # NoGroup /\ ~windows[changes[c].group].cancelled

Holding == {"scheduled", "implementing", "validation"}
Claiming == {"scheduled", "implementing", "validation"}

WindowOf(c) == IF Live(c) THEN windows[changes[c].group] ELSE NoWindow

(* conflictsOnItem, for a change with this window.                         *)
Conflicts(c, w) ==
  {d \in Changes \ {c} :
     /\ changes[c].item /\ changes[d].item
     /\ changes[d].state \in Claiming
     /\ Live(d) /\ Overlap(windows[changes[d].group].span, w.span)}

InFreeze(w) == \E f \in w.freezes : Within(f)
Open(w) == Within(w.span) /\ ~InFreeze(w)

(* The change machine from approval on.                                    *)
Moves ==
  {<<"approved", "scheduled">>, <<"approved", "cancelled">>, <<"scheduled", "implementing">>,
   <<"scheduled", "approved">>, <<"scheduled", "cancelled">>, <<"implementing", "validation">>,
   <<"implementing", "scheduled">>, <<"validation", "completed">>,
   <<"validation", "implementing">>, <<"completed", "validation">>}

Schedules(from, to) == from = "approved" /\ to = "scheduled"
Deploys(to) == to = "implementing"

Scheduling(t) == changeReq[t].at = "read" /\ changeReq[t].schedules

(* Scheduling needs a window, and a reason for a freeze or a conflict;     *)
(* deploying needs an open window, or a reason and the right to override.  *)
ReadChange(t, c, to, reason) ==
  LET from == changes[c].state
      row  == WindowOf(c)
      found == IF Schedules(from, to) THEN Conflicts(c, row) ELSE {}
      overrides == ~Open(row)
  IN
  /\ changeReq[t] = Free
  /\ changeHolder[c] = NoTicket
  /\ <<from, to>> \in Moves
  /\ Schedules(from, to) =>
       /\ Live(c)
       /\ found # {} \/ (\E f \in row.freezes : Overlap(f, row.span)) => reason
  /\ Deploys(to) => ~overrides \/ reason
  /\ changeHolder' = [changeHolder EXCEPT ![c] = t]
  /\ changeReq' = [changeReq EXCEPT ![t] =
       [at |-> "read", change |-> c, to |-> to, row |-> row, found |-> found, hour |-> IF Deploys(to) THEN hour ELSE 0,
        schedules |-> Schedules(from, to), overrides |-> Deploys(to) /\ overrides,
        reopens |-> from = "completed"]]
  /\ overlapped' = IF ~Schedules(from, to) THEN overlapped
       ELSE overlapped \cup {{c, changeReq[u].change} : u \in {v \in Requests : Scheduling(v)}}
  /\ UNCHANGED <<windows, changes, hour, replanned, acknowledged, unchecked, shipped, late>>

Moved(r) == r.row # WindowOf(r.change)

CommitChange(t) ==
  LET r == changeReq[t]
      c == r.change
      keeps == r.to \in Holding
  IN
  /\ r.at = "read"
  /\ changes' = [changes EXCEPT ![c].state = r.to]
  /\ changeHolder' = [changeHolder EXCEPT ![c] = NoTicket]
  /\ changeReq' = [changeReq EXCEPT ![t] = Free]
  /\ acknowledged' = [acknowledged EXCEPT ![c] = IF r.schedules THEN r.found
                                                 ELSE IF keeps THEN @ ELSE {}]
  /\ unchecked' = IF r.reopens \/ (r.schedules /\ Moved(r)) THEN unchecked \cup {c}
                  ELSE IF r.schedules \/ ~keeps THEN unchecked \ {c} ELSE unchecked
  /\ shipped' = [shipped EXCEPT ![c] =
       IF ~Deploys(r.to) THEN "no"
       ELSE IF r.overrides THEN "overridden"
       ELSE IF Live(c) /\ Open(windows[changes[c].group]) THEN "open" ELSE "closed"]
  /\ late' = IF Deploys(r.to) /\ (Moved(r) \/ hour # r.hour) THEN late \cup {c} ELSE late \ {c}
  /\ UNCHANGED <<windows, hour, replanned, overlapped>>

AbortChange(t) ==
  /\ changeReq[t].at = "read"
  /\ changeHolder' = [changeHolder EXCEPT ![changeReq[t].change] = NoTicket]
  /\ changeReq' = [changeReq EXCEPT ![t] = Free]
  /\ UNCHANGED <<windows, changes, hour, replanned, acknowledged, unchecked, overlapped, shipped,
                 late>>

-----------------------------------------------------------------------------
Replans == replanned < MaxReplanned /\ replanned' = replanned + 1
Members(w) == {c \in Changes : changes[c].group = w /\ changes[c].state \in Holding}

(* A change of the schedule needs the right and a reason, a change of the  *)
(* status neither; nobody looks at the changes planned in the window.      *)
PatchWindow(w) ==
  /\ Replans
  /\ \/ \E span \in PlannedSpans : windows' = [windows EXCEPT ![w].span = span]
     \/ \E freezes \in {{}} \cup {{f} : f \in Freezes} :
          windows' = [windows EXCEPT ![w].freezes = freezes]
     \/ windows' = [windows EXCEPT ![w].cancelled = ~@]
  /\ windows' # windows
  /\ unchecked' = unchecked \cup Members(w)
  /\ UNCHANGED <<changes, changeHolder, hour, changeReq, acknowledged, overlapped, shipped, late>>

(* patch of ticket_group_id and configuration_item_id, in any state that   *)
(* is not closed.                                                          *)
PatchChange(c) ==
  /\ Replans
  /\ changeHolder[c] = NoTicket /\ changes[c].state # "cancelled"
  /\ \/ \E w \in Windows \cup {NoGroup} :
          /\ w # changes[c].group
          /\ w # NoGroup => ~windows[w].cancelled
          /\ changes' = [changes EXCEPT ![c].group = w]
     \/ changes' = [changes EXCEPT ![c].item = ~@]
  /\ unchecked' = IF changes[c].state \in Holding THEN unchecked \cup {c} ELSE unchecked
  /\ UNCHANGED <<windows, changeHolder, hour, changeReq, acknowledged, overlapped, shipped, late>>

Tick ==
  /\ hour < MaxHour /\ hour' = hour + 1
  /\ UNCHANGED <<windows, changes, changeHolder, changeReq, replanned, acknowledged, unchecked,
                 overlapped, shipped, late>>

WindowsNext ==
  \/ \E t \in Requests :
       \/ \E c \in Changes, to \in States, reason \in BOOLEAN : ReadChange(t, c, to, reason)
       \/ CommitChange(t) \/ AbortChange(t)
  \/ \E w \in Windows : PatchWindow(w)
  \/ \E c \in Changes : PatchChange(c)
  \/ Tick

-----------------------------------------------------------------------------
Holds(c) == changes[c].state \in Holding /\ Live(c)
Clash(c, d) ==
  /\ Holds(c) /\ Holds(d) /\ changes[c].item /\ changes[d].item
  /\ Overlap(windows[changes[c].group].span, windows[changes[d].group].span)

\* Two changes hold one configuration item at once only if one of them was
\* scheduled with a reason that names the other (TM-18).  The gate runs when
\* a change is scheduled and at no other time: a claim whose window, item or
\* state was altered later, by a patch or a reopening, was not checked, and
\* of two schedulings that overlap neither sees the other.
ClashIsAcknowledged ==
  \A c, d \in Changes :
    c # d /\ Clash(c, d) =>
      d \in acknowledged[c] \/ c \in acknowledged[d] \/ {c, d} \in overlapped
        \/ c \in unchecked \/ d \in unchecked

\* A change goes to work inside its window and outside the window's freezes,
\* or by an override, unless the window or the hour changed under the
\* transition that checked it.
DeploysAreOpen == \A c \in Changes : shipped[c] = "closed" => c \in late

-----------------------------------------------------------------------------
(* Closing a ticket                                                        *)

closingVars == <<machine, catalog, moving, minutes, published, closing, exempted, waived, lowered,
                 withdrawn, outlived>>

-----------------------------------------------------------------------------
(* State machines as data.                                                 *)

Kind == [new |-> "intake", work |-> "active", held |-> "paused", resolved |-> "resolved",
         closed |-> "terminal"]

Path(from, to, requires) == [from |-> from, to |-> to, requires |-> requires]
Gate == {"resolution", "solution_link", "time_logged"}

Bodies ==
  [states : {DOMAIN Kind, DOMAIN Kind \ {"held"}},
   paths : {{Path("new", "work", {}), Path("resolved", "closed", {})} \cup more : more \in
     SUBSET {Path("work", "held", {"pause_reason"}), Path("work", "held", {}),
             Path("held", "work", {}), Path("work", "resolved", Gate),
             Path("work", "resolved", {"resolution"}), Path("resolved", "work", {}),
             Path("closed", "work", {})}}]

Reached(b) ==
  LET reach[n \in Nat] ==
        IF n = 0 THEN {"new"}
        ELSE LET before == reach[n - 1]
             IN before \cup {p.to : p \in {q \in b.paths : q.from \in before}}
  IN reach[Cardinality(b.states)]

\* Every state is defined once and reachable, a terminal state is left by no
\* path and a paused one is entered with a reason only.
Valid(b) ==
  /\ \A p \in b.paths : p.from \in b.states /\ p.to \in b.states
  /\ \A p, q \in b.paths : p.from = q.from /\ p.to = q.to => p = q
  /\ \A p \in b.paths : Kind[p.from] # "terminal"
  /\ \A p \in b.paths : Kind[p.to] = "paused" => "pause_reason" \in p.requires
  /\ b.states \subseteq Reached(b)

Machines == {b \in Bodies : Valid(b)}

\* The seeded machine, as far as the states go.
Seeded ==
  [states |-> DOMAIN Kind,
   paths |-> {Path("new", "work", {}), Path("work", "held", {"pause_reason"}),
              Path("held", "work", {}), Path("work", "resolved", Gate),
              Path("resolved", "work", {}), Path("resolved", "closed", {})}]

(* The close discipline.                                                   *)

Codes == {"fixed", "duplicate"}
DefaultExemptions == {"merged"}
Exemptions == {"merged", "internal"}
Catalogs == [known : {Codes}, noSolution : {{"duplicate"}},
             exemptions : {{}, {"internal"}}]

\* A catalog that is missing or empty falls back to the built-in reasons.
AllowedExemptions == IF catalog.exemptions = {} THEN DefaultExemptions ELSE catalog.exemptions

Inputs ==
  [reason : BOOLEAN, code : Codes \cup {None}, solution : {"article", "candidate", None},
   exemption : Exemptions \cup {None}]

Missing(requires, input, logged) ==
  {r \in requires :
     \/ r = "pause_reason" /\ ~input.reason
     \/ r = "resolution" /\ input.code \notin catalog.known
     \/ r = "solution_link" /\ input.code \notin catalog.noSolution /\ input.solution = None
     \/ r = "time_logged" /\ logged <= 0 /\ input.exemption \notin AllowedExemptions}

\* What the dialog shows before it asks: the time half alone.
CanResolve == minutes > 0

ClosingInit ==
  /\ machine = Seeded
  /\ catalog \in Catalogs
  /\ moving = [state |-> "new", code |-> None, exemption |-> None, solution |-> None,
               reason |-> FALSE, gated |-> FALSE, version |-> 1]
  /\ minutes = 0
  /\ published = TRUE
  /\ closing = None
  /\ exempted = 0
  /\ waived = 0
  /\ lowered = FALSE /\ withdrawn = FALSE /\ outlived = FALSE

-----------------------------------------------------------------------------
\* The machine is the account's current one; the one the row names is not read.
BeginTransition ==
  /\ closing = None /\ moving.version < MaxMoves
  /\ \E p \in machine.paths, input \in Inputs :
       /\ p.from = moving.state
       /\ p.to # "held" => ~input.reason
       /\ p.to # "resolved" => input.code = None /\ input.solution = None /\ input.exemption = None
       /\ Missing(p.requires, input, minutes) = {}
       /\ (p.to = "resolved" /\ input.solution = "article") => published
       /\ closing' = [path |-> p, input |-> input, logged |-> minutes]
       /\ lowered' = (lowered /\ p.to # "resolved")
       /\ withdrawn' = (withdrawn /\ p.to # "resolved")
  /\ UNCHANGED <<machine, catalog, moving, minutes, published, exempted, waived, outlived>>

\* Without a resolution the earlier one stays; its time exemption is told of
\* when the path asked for time and none was logged.
CommitTransition ==
  /\ closing # None
  /\ LET p == closing.path
         input == closing.input
         resolves == p.to = "resolved" /\ input.code # None
         waives == /\ resolves /\ "time_logged" \in p.requires /\ closing.logged <= 0
                   /\ input.exemption # None
     IN /\ moving' = [state |-> p.to,
                      code |-> IF resolves THEN input.code ELSE moving.code,
                      exemption |-> IF resolves THEN input.exemption ELSE moving.exemption,
                      solution |-> IF resolves THEN input.solution ELSE moving.solution,
                      reason |-> input.reason,
                      gated |-> IF p.to = "resolved" THEN "time_logged" \in p.requires
                                ELSE moving.gated,
                      version |-> moving.version + 1]
        /\ exempted' = exempted + (IF waives THEN 1 ELSE 0)
        /\ waived' = waived + (IF /\ p.to = "resolved" /\ "time_logged" \in p.requires
                                  /\ minutes = 0 /\ ~lowered THEN 1 ELSE 0)
  /\ closing' = None
  /\ UNCHANGED <<machine, catalog, minutes, published, lowered, withdrawn, outlived>>

\* Time logged on the ticket and corrections of it take no lock on its row.
LogMinutes ==
  /\ minutes < MaxMinutes
  /\ minutes' = minutes + 1
  /\ UNCHANGED <<machine, catalog, moving, published, closing, exempted, waived, lowered,
                 withdrawn, outlived>>

CorrectMinutes ==
  /\ minutes > 0
  /\ minutes' = minutes - 1
  /\ lowered' = TRUE
  /\ UNCHANGED <<machine, catalog, moving, published, closing, exempted, waived, withdrawn, outlived>>

\* Another machine is activated at most once, while the ticket is worked on.
ActivateMachine ==
  /\ machine = Seeded /\ moving.state \in {"work", "held"} /\ minutes = 0
  /\ \E b \in Machines :
       /\ b # machine
       /\ machine' = b
       /\ outlived' = (outlived \/ moving.state \notin b.states
                                \/ (closing # None /\ closing.path.to \notin b.states))
  /\ UNCHANGED <<catalog, moving, minutes, published, closing, exempted, waived, lowered, withdrawn>>

ActivateCatalog ==
  /\ closing # None /\ closing.path.to = "resolved"
  /\ \E c \in Catalogs : c # catalog /\ catalog' = c
  /\ UNCHANGED <<machine, moving, minutes, published, closing, exempted, waived, lowered,
                 withdrawn, outlived>>

RetireArticle ==
  /\ published /\ (closing # None \/ moving.state = "resolved")
  /\ published' = FALSE
  /\ withdrawn' = TRUE
  /\ UNCHANGED <<machine, catalog, moving, minutes, closing, exempted, waived, lowered, outlived>>

ClosingNext ==
  \/ BeginTransition \/ CommitTransition \/ LogMinutes \/ CorrectMinutes
  \/ ActivateMachine \/ ActivateCatalog \/ RetireArticle

-----------------------------------------------------------------------------
ClosingTypeOK ==
  /\ Valid(machine)
  /\ catalog \in Catalogs
  /\ moving \in [state : DOMAIN Kind, code : Codes \cup {None}, exemption : Exemptions \cup {None},
                 solution : {"article", "candidate", None}, reason : BOOLEAN, gated : BOOLEAN,
                 version : 1..MaxMoves]
  /\ minutes \in 0..MaxMinutes
  /\ published \in BOOLEAN
  /\ closing # None =>
       closing \in [path : [from : DOMAIN Kind, to : DOMAIN Kind,
                            requires : SUBSET (Gate \cup {"pause_reason"})],
                    input : Inputs, logged : 0..MaxMinutes]
  /\ exempted \in Nat /\ waived \in Nat
  /\ lowered \in BOOLEAN /\ withdrawn \in BOOLEAN /\ outlived \in BOOLEAN

\* A ticket resolved where the machine asks for time has time or a reason,
\* unless the time was corrected since the transition read it, and every
\* resolution without time was told of (tickets.service.ts transition).
ResolvedIsEarned ==
  /\ moving.state = "resolved" /\ moving.gated /\ ~lowered
       => minutes > 0 \/ moving.exemption # None
  /\ waived <= exempted

\* A resolved ticket says what solved it: the article is published, unless it
\* was retired since, or the code needs no solution.
ResolvedHasSolution ==
  moving.state = "resolved" /\ moving.gated
    => /\ moving.code # None
       /\ moving.solution # None \/ moving.code \in {"duplicate"}
       /\ moving.solution = "article" => published \/ withdrawn

\* A ticket's state is one of the machine's, unless a machine without it came
\* into force, and a ticket that waits was given a reason.
StateIsKnown ==
  /\ moving.state \in machine.states \/ outlived
  /\ moving.state = "held" => moving.reason
=============================================================================
