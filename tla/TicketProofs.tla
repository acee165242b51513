---------------------------- MODULE TicketProofs ----------------------------
(***************************************************************************)
(* Proofs about Ticket for any state machine, any targets, any number of   *)
(* overlapping sweeps and any length of a minute; at the end, about the     *)
(* participants of TicketRelations for any people and any requests.        *)
(*                                                                         *)
(* A request reads, computes and saves much later, so every invariant of   *)
(* the committed rows is carried together with the same statement of the   *)
(* rows an open request is going to write.  It can be, because nothing     *)
(* but the request writes the clocks while it holds the ticket's row: the  *)
(* sweep takes that row before it commits.                                 *)
(***************************************************************************)
EXTENDS Ticket, Sequences, TLAPS

-----------------------------------------------------------------------------
(* Minutes *)

LEMMA Spread == \A a, b, m \in Int : (a + b) * m = a * m + b * m
  BY SMT

LEMMA Scale == \A a, b \in Int, m \in Nat : a <= b => a * m <= b * m
  BY SMT

LEMMA DivIs ==
  ASSUME NEW n \in Nat, NEW m \in Nat \ {0}
  PROVE  /\ n \div m \in Nat
         /\ (n \div m) * m <= n
         /\ n < (n \div m) * m + m
  BY SMT

LEMMA MinutesBetweenFits ==
  ASSUME NEW a \in Nat, NEW b \in Nat
  PROVE  /\ minutesBetween(a, b) \in Nat
         /\ a <= b => a + minutesBetween(a, b) * Minute <= b
         /\ a <= b => b < a + minutesBetween(a, b) * Minute + Minute
  BY DivIs, MinuteAssumption DEF minutesBetween

-----------------------------------------------------------------------------
(* What every function of the engine keeps true of a clock *)

(* The instant up to which a clock has run. *)
RunTo(c, at) == IF c.pausedAt = None THEN at ELSE c.pausedAt

(* The due time is the target plus the excluded minutes, to within a minute, *)
(* unless the target was spent when it was last restamped; excluded minutes  *)
(* have passed; a latched clock is not paused, and latched after its window. *)
ClockFits(c, at) ==
  /\ c.pausedAt # None => c.pausedAt <= at
  /\ c.due >= WindowOf(c)
  /\ c.due < WindowOf(c) + Minute \/ c.due <= RunTo(c, at)
  /\ c.pausedTotal * Minute <= RunTo(c, at)
  /\ c.breachedAt # None => c.pausedAt = None /\ WindowOf(c) <= c.breachedAt /\ c.breachedAt <= at

(* d is what became of c: a clock that still fits, latched if c was, and     *)
(* latched at the same instant.                                              *)
Follows(d, c, at) ==
  /\ d \in Clock
  /\ ClockFits(d, at)
  /\ c.breachedAt # None => d.breachedAt = c.breachedAt
  /\ isLive(d) => isLive(c)

LEMMA WindowType ==
  ASSUME NEW c \in Clock
  PROVE  WindowOf(c) \in Nat /\ WindowOf(c) = (c.target + c.pausedTotal) * Minute
<1>1. c.target \in Nat /\ c.pausedTotal \in Nat /\ Minute \in Nat
  BY MinuteAssumption DEF Clock
<1>2. WindowOf(c) = (c.target + c.pausedTotal) * Minute
  BY <1>1 DEF WindowOf, addMinutes
<1>3. \A a, m \in Nat : a * m \in Nat
  BY SMT
<1> QED
  BY <1>1, <1>2, <1>3

LEMMA FitsLater ==
  ASSUME NEW c \in Clock, NEW at \in Nat, NEW then \in Nat, at <= then, ClockFits(c, at)
  PROVE  ClockFits(c, then)
<1>1. /\ c.pausedAt \in Nat \cup {None} /\ c.due \in Nat /\ c.breachedAt \in Nat \cup {None}
      /\ WindowOf(c) \in Nat /\ c.pausedTotal * Minute \in Int
  BY WindowType, MinuteAssumption DEF Clock, Instants
<1> QED
  BY <1>1 DEF ClockFits, RunTo, None

LEMMA StartFits ==
  ASSUME NEW m \in Nat
  PROVE  startClock(m, 0) \in Clock /\ ClockFits(startClock(m, 0), 0) /\ isLive(startClock(m, 0))
<1> DEFINE c == startClock(m, 0)
<1>1. m * Minute \in Nat /\ Minute \in Nat /\ Minute > 0 /\ 0 * Minute = 0
  BY MinuteAssumption, SMT
<1>2. c \in Clock
  BY <1>1 DEF startClock, Clock, Instants, addMinutes, None
<1>3. /\ c.pausedAt = None /\ c.breachedAt = None /\ c.metAt = None
      /\ c.due = m * Minute /\ c.target = m /\ c.pausedTotal = 0
  BY <1>1 DEF startClock, addMinutes
<1>4. WindowOf(c) = m * Minute
  BY <1>2, <1>3, WindowType
<1>5. ClockFits(c, 0)
  BY <1>1, <1>3, <1>4 DEF ClockFits, RunTo
<1> QED
  BY <1>2, <1>3, <1>5 DEF isLive

LEMMA LatchFollows ==
  ASSUME NEW c \in Clock, NEW at \in Nat, NEW then \in Nat, at <= then, ClockFits(c, then)
  PROVE  /\ Follows(latch(c, at), c, then)
         /\ latch(c, at).pausedAt = c.pausedAt
         /\ latches(c, at) => latch(c, at).breachedAt = at
         /\ isLive(latch(c, at)) => ~latches(c, at) /\ latch(c, at) = c
<1>1. /\ c.pausedAt \in Nat \cup {None} /\ c.due \in Nat /\ c.breachedAt \in Nat \cup {None}
      /\ WindowOf(c) \in Nat /\ c.pausedTotal * Minute \in Int
  BY WindowType, MinuteAssumption DEF Clock, Instants
<1>2. CASE ~latches(c, at)
  BY <1>2 DEF latch, Follows
<1>3. CASE latches(c, at)
  <2> DEFINE d == latch(c, at)
  <2>1. d = [c EXCEPT !.breachedAt = at]
    BY <1>3 DEF latch
  <2>2. /\ d \in Clock /\ d.target = c.target /\ d.due = c.due /\ d.pausedAt = c.pausedAt
        /\ d.pausedTotal = c.pausedTotal /\ d.breachedAt = at /\ d.metAt = c.metAt
    BY <2>1 DEF Clock, Instants
  <2>3. c.breachedAt = None /\ c.pausedAt = None /\ at >= c.due
    BY <1>3 DEF latches, isLive
  <2>4. WindowOf(d) = WindowOf(c)
    BY <2>2, WindowType
  <2>5. ClockFits(d, then)
    BY <1>1, <2>2, <2>3, <2>4 DEF ClockFits, RunTo
  <2>6. ~isLive(d)
    BY <2>2 DEF isLive, None
  <2> QED
    BY <1>3, <2>2, <2>3, <2>5, <2>6 DEF Follows
<1> QED
  BY <1>2, <1>3

LEMMA PauseFollows ==
  ASSUME NEW c \in Clock, NEW at \in Nat, ClockFits(c, at)
  PROVE  Follows(pause(c, at), c, at) /\ (isLive(pause(c, at)) => pause(c, at).pausedAt # None)
<1>1. /\ c.pausedAt \in Nat \cup {None} /\ c.due \in Nat /\ c.breachedAt \in Nat \cup {None}
      /\ WindowOf(c) \in Nat /\ c.pausedTotal * Minute \in Int
  BY WindowType, MinuteAssumption DEF Clock, Instants
<1>2. CASE ~(isLive(c) /\ c.pausedAt = None)
  BY <1>2 DEF pause, Follows
<1>3. CASE isLive(c) /\ c.pausedAt = None
  <2> DEFINE d == pause(c, at)
  <2>1. d = [c EXCEPT !.pausedAt = at]
    BY <1>3 DEF pause
  <2>2. /\ d \in Clock /\ d.target = c.target /\ d.due = c.due /\ d.pausedAt = at
        /\ d.pausedTotal = c.pausedTotal /\ d.breachedAt = c.breachedAt /\ d.metAt = c.metAt
    BY <2>1 DEF Clock, Instants
  <2>3. WindowOf(d) = WindowOf(c)
    BY <2>2, WindowType
  <2>4. c.breachedAt = None
    BY <1>3 DEF isLive
  <2>5. ClockFits(d, at)
    BY <1>1, <1>3, <2>2, <2>3, <2>4 DEF ClockFits, RunTo, None
  <2> QED
    BY <1>3, <2>2, <2>4, <2>5 DEF Follows, None
<1> QED
  BY <1>2, <1>3

LEMMA ResumeFollows ==
  ASSUME NEW c \in Clock, NEW at \in Nat, ClockFits(c, at)
  PROVE  Follows(resume(c, at), c, at) /\ resume(c, at).pausedAt = None
<1>1. CASE c.pausedAt = None
  BY <1>1 DEF resume, Follows
<1>2. CASE c.pausedAt # None
  <2> DEFINE d == resume(c, at)
             e == minutesBetween(c.pausedAt, at)
  <2>1. /\ c.pausedAt \in Nat /\ c.due \in Nat /\ c.breachedAt = None
        /\ c.pausedTotal \in Nat /\ c.target \in Nat /\ Minute \in Nat
        /\ c.pausedAt <= at
    BY <1>2, MinuteAssumption DEF Clock, Instants, ClockFits
  <2>2. e \in Nat /\ c.pausedAt + e * Minute <= at
    BY <2>1, MinutesBetweenFits
  <2>3. e * Minute \in Nat
    BY <2>1, <2>2, SMT
  <2>4. d = [c EXCEPT !.pausedAt = None, !.pausedTotal = c.pausedTotal + e,
                      !.due = c.due + e * Minute]
    BY <1>2 DEF resume, addMinutes
  <2>5. /\ d.target = c.target /\ d.due = c.due + e * Minute /\ d.pausedAt = None
        /\ d.pausedTotal = c.pausedTotal + e /\ d.breachedAt = None /\ d.metAt = c.metAt
    BY <2>1, <2>4 DEF Clock
  <2>6. d \in Clock
    <3>1. c.due + e * Minute \in Nat /\ c.pausedTotal + e \in Nat /\ None \in Instants
      BY <2>1, <2>2, <2>3 DEF Instants
    <3> QED
      BY <2>4, <3>1 DEF Clock
  <2>7. WindowOf(d) = WindowOf(c) + e * Minute
    <3>1. WindowOf(d) = ((c.target + c.pausedTotal) + e) * Minute
      BY <2>1, <2>2, <2>5, <2>6, WindowType
    <3>2. WindowOf(c) = (c.target + c.pausedTotal) * Minute
      BY WindowType
    <3> QED
      BY <2>1, <2>2, <3>1, <3>2, Spread
  <2>8. /\ (c.pausedTotal + e) * Minute = c.pausedTotal * Minute + e * Minute
        /\ c.pausedTotal * Minute \in Int /\ WindowOf(c) \in Nat
    BY <2>1, <2>2, Spread, WindowType
  <2>9. ClockFits(d, at)
    BY <1>2, <2>1, <2>2, <2>3, <2>5, <2>7, <2>8 DEF ClockFits, RunTo, None
  <2>10. isLive(d) => isLive(c)
    BY <2>1, <2>5 DEF isLive
  <2> QED
    BY <2>1, <2>5, <2>6, <2>9, <2>10 DEF Follows
<1> QED
  BY <1>1, <1>2

LEMMA MetFollows ==
  ASSUME NEW c \in Clock, NEW at \in Nat, ClockFits(c, at)
  PROVE  Follows(markMet(c, at), c, at) /\ ~isLive(markMet(c, at))
<1>1. CASE c.metAt # None
  BY <1>1 DEF markMet, Follows, isLive
<1>2. CASE c.metAt = None
  <2> DEFINE d == markMet(c, at)
  <2>1. d = [c EXCEPT !.metAt = at]
    BY <1>2 DEF markMet
  <2>2. /\ d \in Clock /\ d.target = c.target /\ d.due = c.due /\ d.pausedAt = c.pausedAt
        /\ d.pausedTotal = c.pausedTotal /\ d.breachedAt = c.breachedAt /\ d.metAt = at
    BY <2>1 DEF Clock, Instants
  <2>3. WindowOf(d) = WindowOf(c)
    BY <2>2, WindowType
  <2>4. ClockFits(d, at)
    BY <2>2, <2>3 DEF ClockFits, RunTo
  <2> QED
    BY <2>2, <2>4 DEF Follows, isLive, None
<1> QED
  BY <1>1, <1>2

(* A live clock whose excluded minutes have passed has consumed at least     *)
(* none, so the new due time is exactly the new window, or the reference.    *)
LEMMA RestampFollows ==
  ASSUME NEW c \in Clock, NEW at \in Nat, NEW m \in Nat, ClockFits(c, at)
  PROVE  /\ Follows(restampForPriority(c, m, at), c, at)
         /\ restampForPriority(c, m, at).pausedAt = c.pausedAt
         /\ restampForPriority(c, m, at).breachedAt = c.breachedAt
<1>1. CASE ~isLive(c)
  BY <1>1 DEF restampForPriority, Follows
<1>2. CASE isLive(c)
  <2> DEFINE d == restampForPriority(c, m, at)
             r == RunTo(c, at)
             passed == minutesBetween(0, r)
             left == AtLeastZero(m - AtLeastZero(passed - c.pausedTotal))
  <2>1. /\ c.pausedAt \in Nat \cup {None} /\ c.due \in Nat /\ c.breachedAt = None
        /\ c.pausedTotal \in Nat /\ c.target \in Nat /\ Minute \in Nat \ {0}
    BY <1>2, MinuteAssumption DEF Clock, Instants, isLive
  <2>2. r \in Nat /\ c.pausedTotal * Minute <= r
    BY <2>1 DEF ClockFits, RunTo
  <2>3. passed \in Nat /\ passed * Minute <= r /\ r < passed * Minute + Minute
    <3>1. 0 \in Nat /\ 0 <= r
      BY <2>2
    <3>2. /\ passed \in Nat /\ 0 + passed * Minute <= r
          /\ r < 0 + passed * Minute + Minute
      BY <2>2, <3>1, MinutesBetweenFits
    <3>3. passed * Minute \in Int
      BY <2>1, <3>2, SMT
    <3> QED
      BY <3>2, <3>3
  <2>4. c.pausedTotal <= passed
    <3> SUFFICES ASSUME passed + 1 <= c.pausedTotal PROVE FALSE
      BY <2>1, <2>3
    <3>1. (passed + 1) * Minute <= c.pausedTotal * Minute
      BY <2>1, <2>3, Scale
    <3>2. (passed + 1) * Minute = passed * Minute + 1 * Minute
      BY <2>1, <2>3, Spread
    <3> QED
      BY <2>1, <2>2, <2>3, <3>1, <3>2
  <2>5. left = IF m >= passed - c.pausedTotal THEN m - (passed - c.pausedTotal) ELSE 0
    BY <2>1, <2>3, <2>4 DEF AtLeastZero
  <2>6. left \in Nat /\ left * Minute \in Nat
    <3>1. left \in Nat
      BY <2>1, <2>3, <2>4, <2>5
    <3> QED
      BY <2>1, <3>1, SMT
  <2>7. d = [c EXCEPT !.target = m, !.due = r + left * Minute]
    BY <1>2 DEF restampForPriority, addMinutes, RunTo
  <2>8. /\ d \in Clock /\ d.target = m /\ d.due = r + left * Minute /\ d.pausedAt = c.pausedAt
        /\ d.pausedTotal = c.pausedTotal /\ d.breachedAt = None /\ d.metAt = c.metAt
    <3>1. r + left * Minute \in Nat
      BY <2>2, <2>6
    <3> QED
      BY <2>1, <2>7, <3>1 DEF Clock
  <2>9. WindowOf(d) = (m + c.pausedTotal) * Minute /\ WindowOf(d) \in Nat
    BY <2>8, WindowType
  <2>10. CASE m >= passed - c.pausedTotal
    <3>1. m + c.pausedTotal = left + passed
      BY <2>1, <2>3, <2>4, <2>5, <2>10
    <3>2. WindowOf(d) = left * Minute + passed * Minute
      BY <2>1, <2>3, <2>6, <2>9, <3>1, Spread
    <3>3. d.due >= WindowOf(d) /\ d.due < WindowOf(d) + Minute
      BY <2>1, <2>2, <2>3, <2>6, <2>8, <3>2
    <3> QED
      BY <2>1, <2>2, <2>8, <3>3 DEF ClockFits, RunTo, Follows, isLive
  <2>11. CASE ~(m >= passed - c.pausedTotal)
    <3>1. m + c.pausedTotal <= passed
      BY <2>1, <2>3, <2>4, <2>11
    <3>2. WindowOf(d) <= passed * Minute
      BY <2>1, <2>3, <2>9, <3>1, Scale
    <3>3. left * Minute = 0
      BY <2>1, <2>5, <2>11, SMT
    <3>4. d.due = r
      BY <2>2, <2>8, <3>3
    <3>5. passed * Minute \in Int
      BY <2>1, <2>3, SMT
    <3>6. d.due >= WindowOf(d)
      BY <2>2, <2>3, <2>9, <3>2, <3>4, <3>5
    <3> QED
      BY <2>1, <2>2, <2>8, <3>4, <3>6 DEF ClockFits, RunTo, Follows, isLive
  <2> QED
    BY <2>1, <2>8, <2>10, <2>11
<1> QED
  BY <1>1, <1>2

LEMMA FollowsAgain ==
  ASSUME NEW at \in Nat, NEW c \in Clock, NEW d \in Clock, NEW e,
         Follows(d, c, at), Follows(e, d, at)
  PROVE  Follows(e, c, at)
  BY DEF Follows

LEMMA FollowsItself ==
  ASSUME NEW at \in Nat, NEW c \in Clock, ClockFits(c, at)
  PROVE  Follows(c, c, at)
  BY DEF Follows

-----------------------------------------------------------------------------
(* The inductive invariant *)

(* ClocksPauseWithTicket and FlagsHaveLatches, of any row with its clocks.   *)
StandWith(row, cs, open) ==
  /\ \A k \in Kinds : isLive(cs[k]) => (cs[k].pausedAt # None <=> row.state \in Pausing)
  /\ open = IF row.state \in Pausing THEN 1 ELSE 0

FlagsOf(row, cs) ==
  /\ row.breached["resolution"] <=> cs["resolution"].breachedAt # None
  /\ row.breached["response"] => cs["response"].breachedAt # None

(* What an open request will write follows from the clocks as they still    *)
(* are, and only what it announces is newly latched.                        *)
RequestFits ==
  request.open =>
    /\ \A k \in Kinds : Follows(request.clocks[k], clocks[k], now)
    /\ \A k \in Kinds \ request.saves : request.clocks[k] = clocks[k]
    /\ \A k \in request.events : /\ clocks[k].breachedAt = None
                                 /\ request.clocks[k].breachedAt # None
    /\ StandWith(request.ticket, request.clocks, request.openPauses)
    /\ FlagsOf(request.ticket, request.clocks)

(* A claimed clock is still one to latch, and one sweep's only.              *)
ClaimsFit ==
  /\ \A s \in Sweepers : \A k \in claims[s].kinds :
        latches(clocks[k], claims[s].at) /\ claims[s].at <= now
  /\ \A s, r \in Sweepers : s # r => claims[s].kinds \cap claims[r].kinds = {}

TicketInv ==
  /\ TypeOK
  /\ \A k \in Kinds : ClockFits(clocks[k], now)
  /\ StandWith(ticket, clocks, openPauses)
  /\ FlagsOf(ticket, clocks)
  /\ AnnouncedOnce
  /\ RequestFits
  /\ ClaimsFit

LEMMA OpenRequest ==
  ASSUME TypeOK
  PROVE  IF request.open THEN request \in Request ELSE request = NoRequest
<1>1. CASE request \in Request
  BY <1>1 DEF Request
<1>2. CASE request = NoRequest
  BY <1>2 DEF NoRequest
<1> QED
  BY <1>1, <1>2 DEF TypeOK

LEMMA InitFits == Init => TicketInv
<1> SUFFICES ASSUME Init PROVE TicketInv
  OBVIOUS
<1> DEFINE first(k) == startClock(Targets[FirstPriority][k], 0)
<1>1. \A k \in Kinds : /\ first(k) \in Clock /\ ClockFits(first(k), 0) /\ isLive(first(k))
                       /\ first(k).pausedAt = None
  <2> TAKE k \in Kinds
  <2>1. Targets[FirstPriority][k] \in Nat
    BY TargetsAssumption
  <2> QED
    BY <2>1, StartFits DEF startClock
<1>2. clocks \in [Kinds -> Clock] /\ now = 0 /\ \A k \in Kinds : clocks[k] = first(k)
  BY <1>1 DEF Init
<1>3. ticket \in TicketRow
  <2>1. [k \in Kinds |-> FALSE] \in [Kinds -> BOOLEAN]
    BY DEF Kinds
  <2> QED
    BY <2>1, MachineAssumption, TargetsAssumption DEF Init, TicketRow
<1>4. TypeOK
  <2>1. announced \in [Kinds -> Nat] /\ openPauses \in Nat /\ now \in Nat
    BY DEF Init
  <2>2. claims \in [Sweepers -> [kinds : SUBSET Kinds, at : Nat]]
    BY DEF Init, NoClaim
  <2>3. request \in Request \cup {NoRequest}
    BY DEF Init
  <2> QED
    BY <1>2, <1>3, <2>1, <2>2, <2>3 DEF TypeOK
<1>5. StandWith(ticket, clocks, openPauses)
  BY <1>1, <1>2, MachineAssumption DEF StandWith, Init
<1>6. FlagsOf(ticket, clocks) /\ AnnouncedOnce
  <2>1. \A k \in Kinds : ticket.breached[k] = FALSE /\ announced[k] = 0
    BY DEF Init
  <2>2. \A k \in Kinds : clocks[k].breachedAt = None
    BY <1>1, <1>2 DEF isLive
  <2> QED
    BY <2>1, <2>2 DEF FlagsOf, AnnouncedOnce, Kinds
<1>7. RequestFits
  BY DEF Init, NoRequest, RequestFits
<1>8. ClaimsFit
  <2>1. \A s \in Sweepers : claims[s].kinds = {}
    BY DEF Init, NoClaim
  <2> QED
    BY <2>1 DEF ClaimsFit
<1> QED
  BY <1>1, <1>2, <1>4, <1>5, <1>6, <1>7, <1>8 DEF TicketInv

-----------------------------------------------------------------------------
(* Requests *)

LEMMA HoldFits ==
  ASSUME TicketInv, NEW row \in TicketRow, NEW drafts \in [Kinds -> Clock],
         NEW saves \in SUBSET Kinds, NEW events \in SUBSET Kinds, NEW open \in Nat,
         Hold(row, drafts, saves, events, open),
         UNCHANGED <<now, ticket, clocks, openPauses, announced, claims>>,
         \A k \in Kinds : Follows(drafts[k], clocks[k], now),
         \A k \in Kinds \ saves : drafts[k] = clocks[k],
         \A k \in events : clocks[k].breachedAt = None /\ drafts[k].breachedAt # None,
         StandWith(row, drafts, open), FlagsOf(row, drafts)
  PROVE  TicketInv'
<1>1. request' = [open |-> TRUE, ticket |-> [row EXCEPT !.version = @ + 1], clocks |-> drafts,
                  saves |-> saves, events |-> events, openPauses |-> open]
  BY DEF Hold
<1>2. /\ request'.ticket \in TicketRow /\ request'.ticket.state = row.state
      /\ request'.ticket.breached = row.breached
  BY <1>1 DEF TicketRow
<1>3. request' \in Request
  BY <1>1, <1>2 DEF Request
<1>4. TypeOK'
  BY <1>3 DEF TicketInv, TypeOK
<1>5. RequestFits'
  <2>1. StandWith(request'.ticket, drafts, open) /\ FlagsOf(request'.ticket, drafts)
    BY <1>2 DEF StandWith, FlagsOf
  <2> QED
    BY <1>1, <2>1 DEF RequestFits
<1>6. (\A k \in Kinds : ClockFits(clocks[k], now))' /\ StandWith(ticket, clocks, openPauses)'
  BY DEF TicketInv, StandWith
<1>7. FlagsOf(ticket, clocks)' /\ AnnouncedOnce' /\ ClaimsFit'
  BY DEF TicketInv, FlagsOf, AnnouncedOnce, ClaimsFit
<1> QED
  BY <1>4, <1>5, <1>6, <1>7 DEF TicketInv

(* The clocks of a transition before the response and the resolution are    *)
(* met: resumed, paused, or left as the latch left them.                    *)
LEMMA AfterPauseFollows ==
  ASSUME TicketInv, NEW t \in Transitions, NEW k \in Kinds
  PROVE  LET d == AfterPause(t, clocks)[k] IN
         /\ Follows(d, clocks[k], now)
         /\ Leaves(t) => d.pausedAt = None
         /\ Enters(t) /\ isLive(d) => d.pausedAt # None
         /\ ~Leaves(t) /\ ~Enters(t) => d.pausedAt = clocks[k].pausedAt
<1> DEFINE c == clocks[k]
           one == latch(c, now)
<1>1. c \in Clock /\ now \in Nat /\ now <= now /\ ClockFits(c, now)
  BY DEF TicketInv, TypeOK
<1>2. Follows(one, c, now) /\ one.pausedAt = c.pausedAt
  BY <1>1, LatchFollows
<1>3. one \in Clock /\ ClockFits(one, now)
  BY <1>2 DEF Follows
<1>4. Latched(clocks)[k] = one
  BY DEF Latched
<1>5. CASE Leaves(t)
  <2> DEFINE two == resume(one, now)
             three == latch(two, now)
  <2>1. Follows(two, one, now) /\ two.pausedAt = None
    BY <1>1, <1>3, ResumeFollows
  <2>2. two \in Clock /\ ClockFits(two, now)
    BY <2>1 DEF Follows
  <2>3. Follows(three, two, now) /\ three.pausedAt = None
    BY <1>1, <2>1, <2>2, LatchFollows
  <2>4. Follows(two, c, now)
    BY <1>1, <1>2, <1>3, <2>1, FollowsAgain
  <2>5. Follows(three, c, now)
    BY <1>1, <2>2, <2>3, <2>4, FollowsAgain
  <2>6. AfterPause(t, clocks)[k] = three
    BY <1>4, <1>5 DEF AfterPause, Latched
  <2> QED
    BY <1>5, <2>3, <2>5, <2>6 DEF Leaves, Enters
<1>6. CASE ~Leaves(t) /\ Enters(t)
  <2> DEFINE two == pause(one, now)
  <2>1. Follows(two, one, now) /\ (isLive(two) => two.pausedAt # None)
    BY <1>1, <1>3, PauseFollows
  <2>2. Follows(two, c, now)
    BY <1>1, <1>2, <1>3, <2>1, FollowsAgain
  <2>3. AfterPause(t, clocks)[k] = two
    BY <1>4, <1>6 DEF AfterPause
  <2> QED
    BY <1>6, <2>1, <2>2, <2>3
<1>7. CASE ~Leaves(t) /\ ~Enters(t)
  <2>1. AfterPause(t, clocks)[k] = one
    BY <1>4, <1>7 DEF AfterPause
  <2> QED
    BY <1>2, <1>7, <2>1
<1> QED
  BY <1>5, <1>6, <1>7

LEMMA AfterTransitionFollows ==
  ASSUME TicketInv, NEW t \in Transitions, NEW internal \in BOOLEAN, NEW k \in Kinds
  PROVE  LET d == AfterTransition(t, internal, clocks)[k] IN
         /\ Follows(d, clocks[k], now)
         /\ isLive(d) => d = AfterPause(t, clocks)[k]
<1> DEFINE p == AfterPause(t, clocks)[k]
           d == AfterTransition(t, internal, clocks)[k]
<1>1. now \in Nat /\ clocks[k] \in Clock
  BY DEF TicketInv, TypeOK
<1>2. Follows(p, clocks[k], now)
  BY AfterPauseFollows
<1>3. p \in Clock /\ ClockFits(p, now)
  BY <1>2 DEF Follows
<1>4. Follows(markMet(p, now), p, now) /\ ~isLive(markMet(p, now))
  BY <1>1, <1>3, MetFollows
<1>5. Follows(markMet(p, now), clocks[k], now)
  BY <1>1, <1>2, <1>3, <1>4, FollowsAgain
<1>6. d = p \/ d = markMet(p, now)
  BY DEF AfterTransition
<1> QED
  BY <1>2, <1>4, <1>5, <1>6

LEMMA TransitionFits ==
  ASSUME TicketInv, NEW t \in Transitions, NEW internal \in BOOLEAN, Transition(t, internal)
  PROVE  TicketInv'
<1> DEFINE drafts == AfterTransition(t, internal, clocks)
           row == Moved(t, internal, drafts)
<1>1. /\ t.from = ticket.state /\ UNCHANGED <<now, ticket, clocks, openPauses, announced, claims>>
      /\ Hold(row, drafts, Kinds, NewlyBreached(drafts), PausesAfter(t))
  BY DEF Transition
<1>2. /\ t.to \in States /\ t.reopen \in BOOLEAN /\ ticket \in TicketRow
      /\ openPauses \in Nat /\ clocks \in [Kinds -> Clock]
  BY MachineAssumption DEF TicketInv, TypeOK
<1>3. \A k \in Kinds : Follows(drafts[k], clocks[k], now)
  BY AfterTransitionFollows
<1>4. drafts \in [Kinds -> Clock]
  <2>1. \A k \in Kinds : drafts[k] \in Clock
    BY <1>3 DEF Follows
  <2> QED
    BY <2>1 DEF AfterTransition
<1>5. /\ row \in TicketRow /\ row.state = t.to
      /\ \A k \in Kinds : row.breached[k] = (drafts[k].breachedAt # None)
  <2>1. Responds(t, internal) \in BOOLEAN
    BY DEF Responds
  <2>2. Flags(drafts) \in [Kinds -> BOOLEAN]
    BY DEF Flags
  <2>3. row.breached = Flags(drafts) /\ row.state = t.to
    BY <1>2 DEF Moved, TicketRow
  <2>4. row \in TicketRow
    BY <1>2, <2>1, <2>2, ZenonT(60) DEF Moved, TicketRow
  <2> QED
    BY <2>3, <2>4 DEF Flags
<1>6. FlagsOf(row, drafts)
  BY <1>5 DEF FlagsOf, Kinds
<1>7. PausesAfter(t) \in Nat /\ StandWith(row, drafts, PausesAfter(t))
  <2>1. openPauses = IF t.from \in Pausing THEN 1 ELSE 0
    BY <1>1 DEF TicketInv, StandWith
  <2>2. PausesAfter(t) = IF t.to \in Pausing THEN 1 ELSE 0
    BY <2>1 DEF PausesAfter, Leaves, Enters
  <2>3. ASSUME NEW k \in Kinds, isLive(drafts[k])
        PROVE  drafts[k].pausedAt # None <=> t.to \in Pausing
    <3> DEFINE d == AfterPause(t, clocks)[k]
    <3>1. drafts[k] = d /\ isLive(clocks[k])
      BY <1>3, <2>3, AfterTransitionFollows DEF Follows
    <3>2. clocks[k].pausedAt # None <=> t.from \in Pausing
      BY <1>1, <3>1 DEF TicketInv, StandWith
    <3>3. CASE Leaves(t)
      BY <3>1, <3>3, AfterPauseFollows DEF Leaves
    <3>4. CASE Enters(t)
      BY <2>3, <3>1, <3>4, AfterPauseFollows DEF Enters
    <3>5. CASE ~Leaves(t) /\ ~Enters(t)
      BY <3>1, <3>2, <3>5, AfterPauseFollows DEF Leaves, Enters
    <3> QED
      BY <3>3, <3>4, <3>5
  <2> QED
    BY <1>5, <2>2, <2>3 DEF StandWith
<1>8. /\ NewlyBreached(drafts) \in SUBSET Kinds
      /\ \A k \in NewlyBreached(drafts) : clocks[k].breachedAt = None /\ drafts[k].breachedAt # None
  BY DEF NewlyBreached
<1> QED
  BY <1>1, <1>3, <1>4, <1>5, <1>6, <1>7, <1>8, HoldFits

LEMMA FirstResponseFits ==
  ASSUME TicketInv, FirstResponse
  PROVE  TicketInv'
<1> DEFINE c == clocks["response"]
           one == latch(c, now)
           met == markMet(one, now)
           drafts == [clocks EXCEPT !["response"] = met]
           row == [ticket EXCEPT !.responded = TRUE, !.breached["response"] = FALSE]
<1>1. /\ UNCHANGED <<now, ticket, clocks, openPauses, announced, claims>>
      /\ Hold(row, drafts, {"response"}, {}, openPauses)
  BY DEF FirstResponse
<1>2. /\ now \in Nat /\ now <= now /\ ticket \in TicketRow /\ openPauses \in Nat
      /\ clocks \in [Kinds -> Clock] /\ "response" \in Kinds /\ "resolution" \in Kinds
      /\ \A k \in Kinds : clocks[k] \in Clock /\ ClockFits(clocks[k], now)
  BY DEF TicketInv, TypeOK, Kinds
<1>3. Follows(one, c, now)
  BY <1>2, LatchFollows
<1>4. one \in Clock /\ ClockFits(one, now)
  BY <1>3 DEF Follows
<1>5. Follows(met, one, now) /\ ~isLive(met)
  BY <1>2, <1>4, MetFollows
<1>6. Follows(met, c, now)
  BY <1>2, <1>3, <1>4, <1>5, FollowsAgain
<1>7. /\ drafts \in [Kinds -> Clock] /\ drafts["response"] = met
      /\ \A k \in Kinds \ {"response"} : drafts[k] = clocks[k]
  <2>1. met \in Clock
    BY <1>6 DEF Follows
  <2> QED
    BY <1>2, <2>1
<1>8. \A k \in Kinds : Follows(drafts[k], clocks[k], now)
  BY <1>2, <1>6, <1>7, FollowsItself
<1>9. /\ row \in TicketRow /\ row.state = ticket.state
      /\ row.breached["response"] = FALSE
      /\ row.breached["resolution"] = ticket.breached["resolution"]
  <2>1. ticket.breached \in [Kinds -> BOOLEAN]
    BY <1>2 DEF TicketRow
  <2>2. row.breached = [ticket.breached EXCEPT !["response"] = FALSE] /\ row.state = ticket.state
    BY <1>2 DEF TicketRow
  <2>3. row \in TicketRow
    BY <1>2, <2>1 DEF TicketRow
  <2> QED
    BY <1>2, <2>1, <2>2, <2>3
<1>10. FlagsOf(row, drafts) /\ StandWith(row, drafts, openPauses)
  <2>1. FlagsOf(row, drafts)
    BY <1>2, <1>7, <1>9 DEF FlagsOf, TicketInv
  <2>2. StandWith(row, drafts, openPauses)
    BY <1>5, <1>7, <1>9 DEF StandWith, TicketInv
  <2> QED
    BY <2>1, <2>2
<1>11. {"response"} \in SUBSET Kinds /\ {} \in SUBSET Kinds
  BY <1>2
<1> HIDE DEF drafts, row
<1> QED
  BY <1>1, <1>2, <1>7, <1>8, <1>9, <1>10, <1>11, HoldFits

LEMMA ChangePriorityFits ==
  ASSUME TicketInv, NEW p \in Priorities, ChangePriority(p)
  PROVE  TicketInv'
<1> DEFINE drafts == Restamped(p)
           saves == {k \in Kinds : Targets[p][k] > 0}
           row == [ticket EXCEPT !.priority = p]
<1>1. /\ UNCHANGED <<now, ticket, clocks, openPauses, announced, claims>>
      /\ Hold(row, drafts, saves, {}, openPauses)
  BY DEF ChangePriority
<1>2. /\ now \in Nat /\ ticket \in TicketRow /\ openPauses \in Nat
      /\ \A k \in Kinds : clocks[k] \in Clock /\ ClockFits(clocks[k], now) /\ Targets[p][k] \in Nat
  BY TargetsAssumption DEF TicketInv, TypeOK
<1>3. \A k \in Kinds : /\ Follows(drafts[k], clocks[k], now)
                       /\ drafts[k].pausedAt = clocks[k].pausedAt
                       /\ drafts[k].breachedAt = clocks[k].breachedAt
                       /\ k \notin saves => drafts[k] = clocks[k]
  <2> TAKE k \in Kinds
  <2>1. drafts[k] = IF Targets[p][k] = 0 THEN clocks[k]
                    ELSE restampForPriority(clocks[k], Targets[p][k], now)
    BY DEF Restamped
  <2>2. CASE Targets[p][k] = 0
    BY <1>2, <2>1, <2>2, FollowsItself
  <2>3. CASE Targets[p][k] # 0
    BY <1>2, <2>1, <2>3, RestampFollows
  <2> QED
    BY <2>2, <2>3
<1>4. drafts \in [Kinds -> Clock]
  <2>1. \A k \in Kinds : drafts[k] \in Clock
    BY <1>3 DEF Follows
  <2> QED
    BY <2>1 DEF Restamped
<1>5. row \in TicketRow /\ row.state = ticket.state /\ row.breached = ticket.breached
  BY <1>2 DEF TicketRow
<1>6. FlagsOf(row, drafts) /\ StandWith(row, drafts, openPauses)
  <2>1. FlagsOf(row, drafts)
    BY <1>3, <1>5 DEF FlagsOf, TicketInv, Kinds
  <2>2. StandWith(row, drafts, openPauses)
    BY <1>3, <1>5 DEF StandWith, TicketInv, Follows
  <2> QED
    BY <2>1, <2>2
<1> QED
  BY <1>1, <1>2, <1>3, <1>4, <1>5, <1>6, HoldFits

(* Nobody has claimed a clock that is saved, and the others stay as they    *)
(* are: every claim still fits.                                             *)
LEMMA SaveFits ==
  ASSUME TicketInv, Save
  PROVE  TicketInv'
<1>1. /\ request.open /\ request \in Request
      /\ \A s \in Sweepers : claims[s].kinds \cap request.saves = {}
  BY OpenRequest DEF Save, Blocking, TicketInv
<1>2. request.clocks \in [Kinds -> Clock] /\ request.ticket \in TicketRow /\ request.openPauses \in Nat
  BY <1>1 DEF Request
<1>3. /\ ticket' = request.ticket /\ openPauses' = request.openPauses /\ request' = NoRequest
      /\ now' = now /\ claims' = claims
  BY DEF Save
<1>4. clocks' \in [Kinds -> Clock] /\ \A k \in Kinds : clocks'[k] = request.clocks[k]
  <2>1. clocks' = [k \in Kinds |-> IF k \in request.saves THEN request.clocks[k] ELSE clocks[k]]
    BY DEF Save
  <2>2. \A k \in Kinds : clocks'[k] = request.clocks[k]
    BY <1>1, <2>1 DEF TicketInv, RequestFits
  <2> QED
    BY <1>2, <2>1, <2>2
<1>5. announced' \in [Kinds -> Nat] /\ AnnouncedOnce'
  <2>1. announced' = [k \in Kinds |-> IF k \in request.events THEN announced[k] + 1 ELSE announced[k]]
    BY DEF Save
  <2>2. announced \in [Kinds -> Nat]
    BY DEF TicketInv, TypeOK
  <2>3. ASSUME NEW k \in Kinds
        PROVE  announced'[k] <= IF clocks'[k].breachedAt = None THEN 0 ELSE 1
    <3>1. announced[k] <= IF clocks[k].breachedAt = None THEN 0 ELSE 1
      BY DEF TicketInv, AnnouncedOnce
    <3>2. CASE k \in request.events
      BY <1>1, <1>4, <2>1, <2>2, <3>1, <3>2 DEF TicketInv, RequestFits
    <3>3. CASE k \notin request.events
      <4>1. clocks[k].breachedAt # None => clocks'[k].breachedAt # None
        BY <1>1, <1>4 DEF TicketInv, RequestFits, Follows
      <4> QED
        BY <2>1, <2>2, <3>1, <3>3, <4>1
    <3> QED
      BY <3>2, <3>3
  <2> QED
    BY <2>1, <2>2, <2>3 DEF AnnouncedOnce
<1>6. TypeOK'
  BY <1>2, <1>3, <1>4, <1>5 DEF TypeOK, TicketInv
<1>7. \A k \in Kinds : ClockFits(clocks'[k], now')
  BY <1>1, <1>3, <1>4 DEF TicketInv, RequestFits, Follows
<1>8. StandWith(ticket', clocks', openPauses') /\ FlagsOf(ticket', clocks')
  BY <1>1, <1>3, <1>4 DEF TicketInv, RequestFits, StandWith, FlagsOf, Kinds
<1>9. RequestFits'
  BY <1>3 DEF RequestFits, NoRequest
<1>10. ClaimsFit'
  <2>1. \A s \in Sweepers : \A k \in claims[s].kinds : k \in Kinds /\ clocks'[k] = clocks[k]
    BY <1>1, <1>4 DEF TicketInv, TypeOK, RequestFits
  <2> QED
    BY <1>3, <2>1 DEF TicketInv, ClaimsFit
<1>11. (\A k \in Kinds : ClockFits(clocks[k], now))'
  BY <1>7
<1>12. StandWith(ticket, clocks, openPauses)' /\ FlagsOf(ticket, clocks)'
  BY <1>8
<1> QED
  BY <1>5, <1>6, <1>9, <1>10, <1>11, <1>12 DEF TicketInv

-----------------------------------------------------------------------------
(* Sweeps and time *)

LEMMA SweepClaimFits ==
  ASSUME TicketInv, NEW s \in Sweepers, SweepClaim(s)
  PROVE  TicketInv'
<1> DEFINE found == {k \in Kinds : Overdue(k) /\ Unclaimed(k)}
<1>1. /\ claims' = [claims EXCEPT ![s] = [kinds |-> found, at |-> now]]
      /\ UNCHANGED <<now, ticket, clocks, openPauses, announced, request>>
  BY DEF SweepClaim
<1>2. now \in Nat /\ claims \in [Sweepers -> [kinds : SUBSET Kinds, at : Nat]]
  BY DEF TicketInv, TypeOK
<1>3. /\ claims'[s].kinds = found /\ claims'[s].at = now
      /\ \A r \in Sweepers : r # s => claims'[r] = claims[r]
  BY <1>1, <1>2
<1>4. TypeOK'
  <2>1. [kinds |-> found, at |-> now] \in [kinds : SUBSET Kinds, at : Nat]
    BY <1>2
  <2>2. claims' \in [Sweepers -> [kinds : SUBSET Kinds, at : Nat]]
    BY <1>1, <1>2, <2>1
  <2> QED
    BY <1>1, <2>2 DEF TicketInv, TypeOK
<1>5. \A k \in found : latches(clocks[k], now)
  <2>1. \A k \in Kinds : clocks[k].due \in Nat
    BY DEF TicketInv, TypeOK, Clock
  <2> QED
    BY <1>2, <2>1 DEF Overdue, latches
<1>6. \A r \in Sweepers : r # s => claims[r].kinds \cap found = {}
  BY DEF Unclaimed
<1>7. ClaimsFit'
  <2>1. \A r \in Sweepers : \A k \in claims'[r].kinds :
           latches(clocks[k], claims'[r].at) /\ claims'[r].at <= now
    BY <1>2, <1>3, <1>5 DEF TicketInv, ClaimsFit
  <2>2. \A q, r \in Sweepers : q # r => claims'[q].kinds \cap claims'[r].kinds = {}
    BY <1>3, <1>6 DEF TicketInv, ClaimsFit
  <2> QED
    BY <1>1, <2>1, <2>2 DEF ClaimsFit
<1>8. /\ (\A k \in Kinds : ClockFits(clocks[k], now))' /\ StandWith(ticket, clocks, openPauses)'
      /\ FlagsOf(ticket, clocks)' /\ AnnouncedOnce' /\ RequestFits'
  BY <1>1 DEF TicketInv, AnnouncedOnce, RequestFits, StandWith, FlagsOf
<1> QED
  BY <1>4, <1>7, <1>8 DEF TicketInv

(* The ticket's row is free, so there is no request whose clocks would be   *)
(* out of date; the other sweeps' claims are on other clocks.               *)
LEMMA SweepCommitFits ==
  ASSUME TicketInv, NEW s \in Sweepers, SweepCommit(s)
  PROVE  TicketInv'
<1> DEFINE mine == claims[s].kinds
           at == claims[s].at
<1>1. ~request.open /\ now' = now /\ openPauses' = openPauses /\ request' = request
  BY DEF SweepCommit, TicketFree
<1>2. /\ now \in Nat /\ clocks \in [Kinds -> Clock] /\ announced \in [Kinds -> Nat]
      /\ ticket \in TicketRow /\ claims \in [Sweepers -> [kinds : SUBSET Kinds, at : Nat]]
  BY DEF TicketInv, TypeOK
<1>3. mine \subseteq Kinds /\ at \in Nat
  BY <1>2
<1>4. \A k \in mine : at <= now /\ latches(clocks[k], at)
  BY DEF TicketInv, ClaimsFit
<1>5. clocks' = [k \in Kinds |-> IF k \in mine THEN latch(clocks[k], at) ELSE clocks[k]]
  BY DEF SweepCommit
<1>6. \A k \in mine : Follows(clocks'[k], clocks[k], now) /\ clocks'[k].breachedAt = at
  <2> TAKE k \in mine
  <2>1. k \in Kinds /\ clocks[k] \in Clock /\ ClockFits(clocks[k], now)
    BY <1>2, <1>3 DEF TicketInv
  <2>2. at <= now /\ latches(clocks[k], at)
    BY <1>4
  <2>3. clocks'[k] = latch(clocks[k], at)
    BY <1>5, <2>1
  <2> QED
    BY <1>2, <1>3, <2>1, <2>2, <2>3, LatchFollows
<1>7. \A k \in Kinds \ mine : clocks'[k] = clocks[k]
  BY <1>5
<1>8. clocks' \in [Kinds -> Clock]
  <2>1. \A k \in Kinds : clocks'[k] \in Clock
    BY <1>2, <1>6, <1>7 DEF Follows
  <2> QED
    BY <1>5, <2>1
<1>9. (\A k \in Kinds : ClockFits(clocks[k], now))'
  <2>1. \A k \in Kinds : ClockFits(clocks'[k], now)
    BY <1>6, <1>7 DEF Follows, TicketInv
  <2> QED
    BY <1>1, <2>1
<1>10. at # None /\ \A k \in mine : clocks'[k].breachedAt # None /\ ~isLive(clocks'[k])
  <2>1. at # None
    BY <1>3 DEF None
  <2> QED
    BY <1>6, <2>1 DEF isLive
<1>11. /\ ticket' \in TicketRow /\ ticket'.state = ticket.state
       /\ \A k \in Kinds : ticket'.breached[k] = (ticket.breached[k] \/ k \in mine)
  <2> DEFINE flags == [k \in Kinds |-> ticket.breached[k] \/ k \in mine]
  <2>1. ticket.breached \in [Kinds -> BOOLEAN]
    BY <1>2 DEF TicketRow
  <2>2. flags \in [Kinds -> BOOLEAN]
    OBVIOUS
  <2>3. ticket' = [ticket EXCEPT !.breached = flags]
    BY DEF SweepCommit
  <2>4. ticket' \in TicketRow /\ ticket'.state = ticket.state /\ ticket'.breached = flags
    <3> HIDE DEF flags
    <3> QED
      BY <1>2, <2>2, <2>3 DEF TicketRow
  <2> QED
    BY <2>4
<1>12. FlagsOf(ticket, clocks)'
  BY <1>7, <1>10, <1>11 DEF TicketInv, FlagsOf, Kinds
<1>13. StandWith(ticket, clocks, openPauses)'
  BY <1>1, <1>7, <1>10, <1>11 DEF TicketInv, StandWith
<1>14. announced' \in [Kinds -> Nat] /\ AnnouncedOnce'
  <2>1. announced' = [k \in Kinds |-> IF k \in mine THEN announced[k] + 1 ELSE announced[k]]
    BY DEF SweepCommit
  <2>2. ASSUME NEW k \in Kinds
        PROVE  announced'[k] <= IF clocks'[k].breachedAt = None THEN 0 ELSE 1
    <3>1. announced[k] <= IF clocks[k].breachedAt = None THEN 0 ELSE 1
      BY DEF TicketInv, AnnouncedOnce
    <3>2. CASE k \in mine
      <4>1. clocks[k].breachedAt = None
        BY <1>4, <3>2 DEF latches, isLive
      <4> QED
        BY <1>2, <1>10, <2>1, <3>1, <3>2, <4>1
    <3>3. CASE k \notin mine
      BY <1>7, <2>1, <3>1, <3>3
    <3> QED
      BY <3>2, <3>3
  <2> QED
    BY <1>2, <2>1, <2>2 DEF AnnouncedOnce
<1>15. /\ claims' = [claims EXCEPT ![s] = NoClaim]
       /\ claims' \in [Sweepers -> [kinds : SUBSET Kinds, at : Nat]]
  <2>1. NoClaim \in [kinds : SUBSET Kinds, at : Nat]
    BY DEF NoClaim
  <2>2. claims' = [claims EXCEPT ![s] = NoClaim]
    BY DEF SweepCommit
  <2> QED
    BY <1>2, <2>1, <2>2
<1>16. ClaimsFit'
  <2>1. claims'[s].kinds = {} /\ \A r \in Sweepers : r # s => claims'[r] = claims[r]
    BY <1>2, <1>15 DEF NoClaim
  <2>2. \A r \in Sweepers : r # s => \A k \in claims[r].kinds : k \in Kinds /\ clocks'[k] = clocks[k]
    BY <1>2, <1>7 DEF TicketInv, ClaimsFit
  <2>3. \A r \in Sweepers : \A k \in claims'[r].kinds :
           latches(clocks'[k], claims'[r].at) /\ claims'[r].at <= now
    BY <2>1, <2>2 DEF TicketInv, ClaimsFit
  <2>4. \A q, r \in Sweepers : q # r => claims'[q].kinds \cap claims'[r].kinds = {}
    BY <2>1 DEF TicketInv, ClaimsFit
  <2> QED
    BY <1>1, <2>3, <2>4 DEF ClaimsFit
<1>17. TypeOK' /\ RequestFits'
  <2>1. TypeOK'
    BY <1>1, <1>8, <1>11, <1>14, <1>15 DEF TicketInv, TypeOK
  <2>2. RequestFits'
    BY <1>1 DEF RequestFits
  <2> QED
    BY <2>1, <2>2
<1> QED
  BY <1>9, <1>12, <1>13, <1>14, <1>16, <1>17 DEF TicketInv

LEMMA KillFits ==
  ASSUME TicketInv, NEW s \in Sweepers, KillRequest(s) \/ KillSweep(s)
  PROVE  TicketInv'
<1>1. UNCHANGED <<now, ticket, clocks, openPauses, announced>>
  BY DEF KillRequest, KillSweep
<1>2. claims \in [Sweepers -> [kinds : SUBSET Kinds, at : Nat]]
  BY DEF TicketInv, TypeOK
<1>3. \/ request' = NoRequest /\ claims' = claims
      \/ request' = request /\ claims' = [claims EXCEPT ![s] = NoClaim]
  BY DEF KillRequest, KillSweep
<1>4. /\ claims' \in [Sweepers -> [kinds : SUBSET Kinds, at : Nat]]
      /\ \A r \in Sweepers : claims'[r] = claims[r] \/ claims'[r].kinds = {}
  <2>1. NoClaim \in [kinds : SUBSET Kinds, at : Nat] /\ NoClaim.kinds = {}
    BY DEF NoClaim
  <2> QED
    BY <1>2, <1>3, <2>1
<1>5. request' \in Request \cup {NoRequest}
  BY <1>3 DEF TicketInv, TypeOK
<1>6. TypeOK'
  BY <1>1, <1>4, <1>5 DEF TicketInv, TypeOK
<1>7. ClaimsFit'
  BY <1>1, <1>4 DEF TicketInv, ClaimsFit
<1>8. RequestFits'
  <2>1. CASE request' = NoRequest
    BY <2>1 DEF NoRequest, RequestFits
  <2>2. CASE request' = request
    BY <1>1, <2>2 DEF TicketInv, RequestFits
  <2> QED
    BY <1>3, <2>1, <2>2
<1>9. /\ (\A k \in Kinds : ClockFits(clocks[k], now))' /\ StandWith(ticket, clocks, openPauses)'
      /\ FlagsOf(ticket, clocks)' /\ AnnouncedOnce'
  BY <1>1 DEF TicketInv, AnnouncedOnce, StandWith, FlagsOf
<1> QED
  BY <1>6, <1>7, <1>8, <1>9 DEF TicketInv

LEMMA TickFits ==
  ASSUME TicketInv, Tick
  PROVE  TicketInv'
<1>1. now' = now + 1 /\ UNCHANGED <<ticket, clocks, openPauses, announced, request, claims>>
  BY DEF Tick
<1>2. now \in Nat /\ now' \in Nat /\ now <= now' /\ clocks \in [Kinds -> Clock]
  BY <1>1 DEF TicketInv, TypeOK
<1>3. TypeOK'
  BY <1>1, <1>2 DEF TicketInv, TypeOK
<1>4. (\A k \in Kinds : ClockFits(clocks[k], now))'
  <2>1. \A k \in Kinds : ClockFits(clocks[k], now')
    BY <1>2, FitsLater DEF TicketInv
  <2> QED
    BY <1>1, <2>1
<1>5. RequestFits'
  <2> SUFFICES ASSUME request.open PROVE RequestFits'
    BY <1>1 DEF RequestFits
  <2>1. \A k \in Kinds : Follows(request.clocks[k], clocks[k], now')
    BY <1>2, FitsLater DEF TicketInv, RequestFits, Follows
  <2> QED
    BY <1>1, <2>1 DEF TicketInv, RequestFits
<1>6. ClaimsFit'
  <2>1. \A s \in Sweepers : claims[s].at \in Nat
    BY DEF TicketInv, TypeOK
  <2> QED
    BY <1>1, <1>2, <2>1 DEF TicketInv, ClaimsFit
<1>7. StandWith(ticket, clocks, openPauses)' /\ FlagsOf(ticket, clocks)' /\ AnnouncedOnce'
  BY <1>1 DEF TicketInv, AnnouncedOnce, StandWith, FlagsOf
<1> QED
  BY <1>3, <1>4, <1>5, <1>6, <1>7 DEF TicketInv

LEMMA StepFits == TicketInv /\ [Next]_vars => TicketInv'
<1> SUFFICES ASSUME TicketInv, [Next]_vars PROVE TicketInv'
  OBVIOUS
<1>1. CASE UNCHANGED vars
  BY <1>1 DEF vars, TicketInv, TypeOK, StandWith, FlagsOf, AnnouncedOnce, RequestFits, ClaimsFit
<1>2. CASE Next
  BY <1>2, TransitionFits, FirstResponseFits, ChangePriorityFits, SaveFits, SweepClaimFits,
     SweepCommitFits, KillFits, TickFits DEF Next
<1> QED
  BY <1>1, <1>2

THEOREM SpecTicketInv == Spec => []TicketInv
  BY InitFits, StepFits, PTL DEF Spec

-----------------------------------------------------------------------------
(* Theorems *)

(* Types: the ticket, its clocks, the pause rows, the outbox rows, the open  *)
(* request and the sweeps' claims keep their shape.                          *)
THEOREM TicketTypeCorrect == Spec => []TypeOK
<1>1. TicketInv => TypeOK
  BY DEF TicketInv
<1> QED
  BY <1>1, SpecTicketInv, PTL

(* Live clocks stand still exactly while the ticket's state pauses them, and *)
(* one pause row is open then: transition resumes, latches and pauses in an  *)
(* order that keeps this, and no sweep or priority change comes between.     *)
THEOREM ClocksPause == Spec => []ClocksPauseWithTicket
<1>1. TicketInv => ClocksPauseWithTicket
  BY DEF TicketInv, StandWith, ClocksPauseWithTicket, Paused
<1> QED
  BY <1>1, SpecTicketInv, PTL

(* Each clock's breach is announced at most once, whichever sweeps and       *)
(* requests reach it.                                                        *)
THEOREM OneAnnouncement == Spec => []AnnouncedOnce
<1>1. TicketInv => AnnouncedOnce
  BY DEF TicketInv
<1> QED
  BY <1>1, SpecTicketInv, PTL

(* No pause and no change of priority moves a deadline before the target     *)
(* plus the excluded minutes, or a breach before the target was spent.       *)
THEOREM WindowsKept == Spec => []ClocksKeepTheirWindow
<1>1. TicketInv => ClocksKeepTheirWindow
  <2> SUFFICES ASSUME TicketInv PROVE ClocksKeepTheirWindow
    OBVIOUS
  <2>1. /\ now \in Nat
        /\ \A k \in Kinds : /\ clocks[k].due \in Nat /\ WindowOf(clocks[k]) \in Nat
                            /\ clocks[k].pausedAt \in Nat \cup {None}
                            /\ ClockFits(clocks[k], now)
    BY WindowType DEF TicketInv, TypeOK, Clock, Instants
  <2>2. DueIsWindow
    BY <2>1, MinuteAssumption DEF DueIsWindow, ClockFits, RunTo
  <2>3. BreachMeansTargetSpent
    BY <2>1 DEF BreachMeansTargetSpent, ClockFits
  <2> QED
    BY <2>2, <2>3 DEF ClocksKeepTheirWindow
<1> QED
  BY <1>1, SpecTicketInv, PTL

(* The instant a breach latched is never rewritten: not by a request that    *)
(* read the clock before the sweep, and not by a second sweep.               *)
THEOREM LatchStays == Spec => LatchIsForever
<1> DEFINE Kept == \A k \in Kinds :
              clocks[k].breachedAt # None => clocks'[k].breachedAt = clocks[k].breachedAt
<1>1. TicketInv /\ [Next]_vars => [Kept]_vars
  <2> SUFFICES ASSUME TicketInv, [Next]_vars PROVE Kept
    OBVIOUS
  <2>1. CASE UNCHANGED clocks
    BY <2>1
  <2>2. CASE Save
    <3>1. request.open /\ request \in Request
      BY <2>2, OpenRequest DEF Save, TicketInv
    <3>2. \A k \in Kinds : Follows(request.clocks[k], clocks[k], now)
      BY <3>1 DEF TicketInv, RequestFits
    <3>3. clocks' = [k \in Kinds |-> IF k \in request.saves THEN request.clocks[k] ELSE clocks[k]]
      BY <2>2 DEF Save
    <3> QED
      BY <3>2, <3>3 DEF Follows
  <2>3. ASSUME NEW s \in Sweepers, SweepCommit(s) PROVE Kept
    <3>1. clocks' = [k \in Kinds |-> IF k \in claims[s].kinds
                                     THEN latch(clocks[k], claims[s].at) ELSE clocks[k]]
      BY <2>3 DEF SweepCommit
    <3>2. \A k \in claims[s].kinds : clocks[k].breachedAt = None
      BY DEF TicketInv, ClaimsFit, latches, isLive
    <3> QED
      BY <3>1, <3>2
  <2>4. Save \/ (\E s \in Sweepers : SweepCommit(s)) \/ UNCHANGED clocks
    BY DEF Next, vars, Transition, FirstResponse, ChangePriority, SweepClaim, KillRequest,
           KillSweep, Tick
  <2> QED
    BY <2>1, <2>2, <2>3, <2>4
<1> QED
  BY <1>1, SpecTicketInv, PTL DEF Spec, LatchIsForever

-----------------------------------------------------------------------------
(* The stamps, for machines like the seeded ones *)

Stamped(row) ==
  /\ row.resolved <=> row.state \in Resolving \cup Closing
  /\ row.closed <=> row.state \in Closing
  /\ row.cancelled <=> row.state \in Cancelling

StampInv == Stamped(ticket) /\ (request.open => Stamped(request.ticket))

LEMMA HoldStamped ==
  ASSUME NEW row \in TicketRow, NEW drafts, NEW saves, NEW events, NEW open,
         Hold(row, drafts, saves, events, open), Stamped(row)
  PROVE  Stamped(request'.ticket)
<1>1. request'.ticket = [row EXCEPT !.version = @ + 1]
  BY DEF Hold
<1> QED
  BY <1>1 DEF Stamped, TicketRow

LEMMA StepStamped == StampingMachine /\ TicketInv /\ StampInv /\ [Next]_vars => StampInv'
<1> SUFFICES ASSUME StampingMachine, TicketInv, StampInv, [Next]_vars PROVE StampInv'
  OBVIOUS
<1>1. ticket \in TicketRow
  BY DEF TicketInv, TypeOK
<1>2. ASSUME NEW t \in Transitions, NEW internal \in BOOLEAN, Transition(t, internal)
      PROVE  StampInv'
  <2> DEFINE drafts == AfterTransition(t, internal, clocks)
             row == Moved(t, internal, drafts)
  <2>1. /\ t.from = ticket.state /\ ticket' = ticket
        /\ Hold(row, drafts, Kinds, NewlyBreached(drafts), PausesAfter(t))
    BY <1>2 DEF Transition
  <2>2. t.to \in States /\ t.reopen \in BOOLEAN
    BY MachineAssumption
  <2>3. Responds(t, internal) \in BOOLEAN /\ Flags(drafts) \in [Kinds -> BOOLEAN]
    BY DEF Responds, Flags
  <2>4. /\ row \in TicketRow /\ row.state = t.to
        /\ row.resolved = ((ticket.resolved \/ t.to \in Resolving) /\ ~t.reopen)
        /\ row.closed = (ticket.closed \/ t.to \in Closing)
        /\ row.cancelled = (ticket.cancelled \/ t.to \in Cancelling)
    BY <1>1, <2>2, <2>3, ZenonT(60) DEF Moved, TicketRow
  <2>5. Stamped(row)
    BY <2>1, <2>4 DEF Stamped, StampInv, StampingMachine
  <2> HIDE DEF row, drafts
  <2> QED
    BY <2>1, <2>4, <2>5, HoldStamped DEF StampInv, Stamped
<1>3. CASE FirstResponse
  <2> DEFINE row == [ticket EXCEPT !.responded = TRUE, !.breached["response"] = FALSE]
  <2>1. /\ ticket' = ticket /\ Hold(row, [clocks EXCEPT !["response"] = markMet(latch(@, now), now)],
                                    {"response"}, {}, openPauses)
    BY <1>3 DEF FirstResponse
  <2>2. row \in TicketRow /\ Stamped(row)
    BY <1>1 DEF Stamped, StampInv, TicketRow
  <2> HIDE DEF row
  <2> QED
    BY <2>1, <2>2, HoldStamped DEF StampInv, Stamped
<1>4. ASSUME NEW p \in Priorities, ChangePriority(p) PROVE StampInv'
  <2> DEFINE row == [ticket EXCEPT !.priority = p]
  <2>1. /\ ticket' = ticket
        /\ Hold(row, Restamped(p), {k \in Kinds : Targets[p][k] > 0}, {}, openPauses)
    BY <1>4 DEF ChangePriority
  <2>2. row \in TicketRow /\ Stamped(row)
    BY <1>1 DEF Stamped, StampInv, TicketRow
  <2> HIDE DEF row
  <2> QED
    BY <2>1, <2>2, HoldStamped DEF StampInv, Stamped
<1>5. CASE Save
  BY <1>5 DEF Save, NoRequest, StampInv, Stamped
<1>6. ASSUME NEW s \in Sweepers, SweepCommit(s) PROVE StampInv'
  BY <1>1, <1>6 DEF SweepCommit, TicketFree, StampInv, Stamped, TicketRow
<1>7. ASSUME NEW s \in Sweepers, SweepClaim(s) \/ KillRequest(s) \/ KillSweep(s) PROVE StampInv'
  BY <1>7 DEF SweepClaim, KillRequest, KillSweep, NoRequest, StampInv, Stamped
<1>8. CASE Tick \/ UNCHANGED vars
  BY <1>8 DEF Tick, vars, StampInv, Stamped
<1> QED
  BY <1>2, <1>3, <1>4, <1>5, <1>6, <1>7, <1>8 DEF Next

(* On a machine whose transitions keep the stamps (the seeded ones do), the  *)
(* row's flags and stamps say what its clocks and its state say, after any   *)
(* transition, comment, sweep, reopening or deadlock.                        *)
THEOREM RowAgrees == StampingMachine => (Spec => []RowAgreesWithClocks)
<1> SUFFICES ASSUME StampingMachine PROVE Spec => []RowAgreesWithClocks
  OBVIOUS
<1>1. Init => StampInv
  BY DEF Init, NoRequest, StampInv, Stamped, StampingMachine
<1>2. TicketInv /\ StampInv /\ [Next]_vars => StampInv'
  BY StepStamped
<1>3. TicketInv /\ StampInv => RowAgreesWithClocks
  BY DEF TicketInv, FlagsOf, StampInv, Stamped, RowAgreesWithClocks, FlagsHaveLatches,
         StampsAgreeWithState
<1> QED
  BY <1>1, <1>2, <1>3, SpecTicketInv, PTL DEF Spec

-----------------------------------------------------------------------------
(* Who has a part in a ticket (TicketRelations).                           *)

CONSTANTS Requests, People, GroupMembers, MaxParts

VARIABLES assignee, parts, partReq, ends, assignedSince

Par == INSTANCE TicketRelations WITH
  LinkedTickets <- {}, LinkTypes <- {}, MaxLinks <- 0,
  links <- {}, linkReq <- <<>>, made <- 0, overlapped <- {}

Part == [who : People \cup {Par!Nobody}, group : BOOLEAN,
         status : {"invited", "active", "declined", "withdrawn", "left"}, responded : BOOLEAN]
Ending == SUBSET {"accepted", "declined", "withdrawn", "left"}
Inserting == [at : {"insert"}, who : People \cup {Par!Nobody}, group : BOOLEAN, status : {"invited", "active"}]
Answering == [at : {"answer"}, row : Nat, who : People, accepts : BOOLEAN]
Removing == [at : {"remove"}, row : Nat, invited : BOOLEAN]
PartRequest == {Par!IdlePart} \cup Inserting \cup Answering \cup Removing

(* A row, and how it has ended: once, and not before it was answered,      *)
(* withdrawn or left.                                                      *)
RowFits(p, e) ==
  /\ p.who = Par!Nobody => p.group /\ p.status # "active"
  /\ p.responded => p.status \in {"active", "declined"}
  /\ p.status = "invited" \/ (p.status = "active" /\ ~p.responded) => e = {}
  /\ \A a, b \in e : a = b

(* What a request is going to write, and where.                            *)
PartRequestFits(r) ==
  /\ r.at = "insert" /\ r.group => r.who = Par!Nobody /\ r.status = "invited"
  /\ r.at = "insert" /\ ~r.group => r.who \in People
  /\ r.at \in {"answer", "remove"} => r.row \in DOMAIN parts

(* u has a part, or is being given one.                                    *)
Joins(r, u) == r.at \in {"insert", "answer"} /\ r.who = u /\ (r.at = "answer" => r.accepts)
Involved(u) == Par!LivePart(u) # {} \/ \E t \in Requests : Joins(partReq[t], u)

PartShape ==
  /\ parts \in Seq(Part) /\ ends \in Seq(Ending) /\ Len(ends) = Len(parts) /\ Len(parts) <= MaxParts
  /\ assignee \in People \cup {Par!Nobody} /\ assignedSince \subseteq People
  /\ partReq \in [Requests -> PartRequest]
  /\ \A i \in DOMAIN parts : RowFits(parts[i], ends[i])
  /\ \A t \in Requests : PartRequestFits(partReq[t])

AssignedSince == \A u \in People : assignee = u /\ Involved(u) => u \in assignedSince

PartInv == PartShape /\ Par!OnTicketOnce /\ AssignedSince

(* A request that has settled writes nothing and lets nobody join.         *)
LEMMA IdlePartFits == Par!IdlePart \in PartRequest /\ PartRequestFits(Par!IdlePart) /\ \A u : ~Joins(Par!IdlePart, u)
BY DEF Par!IdlePart, PartRequest, PartRequestFits, Joins

(* A ticket starts with no rows, whoever it is assigned to.                *)
LEMMA PartStarts ==
  ASSUME Par!PartConstants, Par!PartInit
  PROVE  PartInv
<1>1. /\ assignee \in People \cup {Par!Nobody} /\ parts = <<>> /\ ends = <<>> /\ assignedSince = {}
      /\ partReq = [t \in Requests |-> Par!IdlePart]
  BY DEF Par!PartInit
<1>2. PartShape
  BY <1>1, IdlePartFits DEF PartShape, Par!PartConstants
<1>3. \A u : ~Involved(u)
  BY <1>1, IdlePartFits DEF Involved, Par!LivePart
<1> QED BY <1>1, <1>2, <1>3 DEF PartInv, Par!OnTicketOnce, Par!OpenGroup, AssignedSince

(* The request moves; the rows stay.                                       *)
LEMMA PartRequestMoves ==
  ASSUME PartInv, NEW t \in Requests, NEW r \in PartRequest, PartRequestFits(r),
         partReq' = [partReq EXCEPT ![t] = r], UNCHANGED <<assignee, parts, ends>>,
         assignedSince' \subseteq People,
         \A u \in People : assignee = u /\ (Involved(u) \/ Joins(r, u)) => u \in assignedSince'
  PROVE  PartInv'
<1>1. partReq' \in [Requests -> PartRequest]
  BY DEF PartInv, PartShape
<1>2. ASSUME NEW u \in Requests PROVE partReq'[u] = IF u = t THEN r ELSE partReq[u]
  BY DEF PartInv, PartShape
<1>3. ASSUME NEW u \in Requests PROVE PartRequestFits(partReq[u])'
  <2>1. PICK x : x = partReq'[u]
    OBVIOUS
  <2>2. PartRequestFits(x)
    BY <1>2, <2>1 DEF PartInv, PartShape
  <2>3. PartRequestFits(x)'
    BY <2>2 DEF PartRequestFits
  <2> QED BY <2>1, <2>3 DEF PartRequestFits
<1>4. PartShape'
  BY <1>1, <1>3 DEF PartInv, PartShape
<1>5. ASSUME NEW u \in People, assignee' = u, Involved(u)' PROVE u \in assignedSince'
  <2>1. CASE Par!LivePart(u)' # {}
    <3>1. Par!LivePart(u) # {}
      BY <2>1 DEF Par!LivePart
    <3> QED BY <1>5, <3>1 DEF Involved
  <2>2. CASE Par!LivePart(u)' = {}
    <3>1. PICK v \in Requests : Joins(partReq[v], u)'
      BY <1>5, <2>2 DEF Involved
    <3>2. PICK x : x = partReq'[v]
      OBVIOUS
    <3>3. Joins(x, u)
      BY <3>1, <3>2 DEF Joins
    <3>4. x = r \/ x = partReq[v]
      BY <1>2, <3>2
    <3> QED BY <1>5, <3>3, <3>4 DEF Involved
  <2> QED BY <2>1, <2>2
<1>6. Par!OnTicketOnce'
  BY DEF PartInv, Par!OnTicketOnce, Par!OpenGroup
<1> QED BY <1>4, <1>5, <1>6 DEF PartInv, AssignedSince

(* A request that is refused or rolled back leaves the rows as they were.   *)
LEMMA RefusedKeeps ==
  ASSUME PartInv, NEW t \in Requests, Par!Refused(t)
  PROVE  PartInv'
<1>1. /\ partReq' = [partReq EXCEPT ![t] = Par!IdlePart] /\ UNCHANGED <<assignee, parts, ends>>
      /\ assignedSince' = assignedSince
  BY DEF Par!Refused
<1>2. \A u \in People : assignee = u /\ (Involved(u) \/ Joins(Par!IdlePart, u)) => u \in assignedSince'
  BY <1>1, IdlePartFits DEF PartInv, AssignedSince
<1>3. assignedSince' \subseteq People
  BY <1>1 DEF PartInv, PartShape
<1> QED BY <1>1, <1>2, <1>3, IdlePartFits, PartRequestMoves

(* add and invite of participants.module.ts check that the person is not   *)
(* the assignee: whoever joins counts from here on.                        *)
LEMMA AddKeeps ==
  ASSUME PartInv, NEW t \in Requests, NEW u \in People, NEW status \in {"invited", "active"},
         Par!RefuseAssigneeOrDuplicate(u), Par!Takes(t, Par!InsertOf(u, FALSE, status)), Par!Afresh(u)
  PROVE  PartInv'
<1>1. PICK r : r = Par!InsertOf(u, FALSE, status)
  OBVIOUS
<1>2. r \in PartRequest /\ PartRequestFits(r) /\ \A v : Joins(r, v) => v = u
  BY <1>1 DEF Par!InsertOf, PartRequest, Inserting, PartRequestFits, Joins
<1>3. partReq' = [partReq EXCEPT ![t] = r] /\ UNCHANGED <<assignee, parts, ends>>
  BY <1>1 DEF Par!Takes
<1>4. assignee # u /\ assignedSince' \in {assignedSince, assignedSince \ {u}}
  BY DEF Par!RefuseAssigneeOrDuplicate, Par!Afresh
<1>5. \A v \in People : assignee = v /\ (Involved(v) \/ Joins(r, v)) => v \in assignedSince'
  BY <1>2, <1>4 DEF PartInv, AssignedSince
<1>6. assignedSince' \subseteq People
  BY <1>4 DEF PartInv, PartShape
<1> QED BY <1>2, <1>3, <1>5, <1>6, PartRequestMoves

(* An invitation of a group names nobody yet.                              *)
LEMMA InviteGroupKeeps ==
  ASSUME PartInv, NEW t \in Requests, Par!PartConstants, Par!InviteGroup(t)
  PROVE  PartInv'
<1>1. PICK r : r = Par!InsertOf(Par!Nobody, TRUE, "invited")
  OBVIOUS
<1>2. r \in PartRequest /\ PartRequestFits(r) /\ \A v : Joins(r, v) => v = Par!Nobody
  BY <1>1 DEF Par!InsertOf, PartRequest, Inserting, PartRequestFits, Joins
<1>3. /\ partReq' = [partReq EXCEPT ![t] = r] /\ UNCHANGED <<assignee, parts, ends>>
      /\ assignedSince' = assignedSince
  BY <1>1 DEF Par!Takes, Par!InviteGroup
<1>4. \A v \in People : assignee = v /\ (Involved(v) \/ Joins(r, v)) => v \in assignedSince'
  BY <1>2, <1>3 DEF PartInv, AssignedSince, Par!PartConstants
<1>5. assignedSince' \subseteq People
  BY <1>3 DEF PartInv, PartShape
<1> QED BY <1>2, <1>3, <1>4, <1>5, PartRequestMoves

(* accept of participants.module.ts: an invited person has a part already,  *)
(* a member of an invited group is checked like a person who is added.     *)
LEMMA AcceptKeeps ==
  ASSUME PartInv, Par!PartConstants, NEW t \in Requests, NEW i \in DOMAIN parts, NEW u \in People, Par!Accept(t, i, u)
  PROVE  PartInv'
<1>1. PICK r : r = Par!AnswerOf(i, u, TRUE)
  OBVIOUS
<1>2. i \in Nat
  BY DEF PartInv, PartShape
<1>3. r \in PartRequest /\ PartRequestFits(r) /\ \A v : Joins(r, v) => v = u
  BY <1>1, <1>2 DEF Par!AnswerOf, PartRequest, Answering, PartRequestFits, Joins
<1>4. partReq' = [partReq EXCEPT ![t] = r] /\ UNCHANGED <<assignee, parts, ends>>
  BY <1>1 DEF Par!Takes, Par!Accept
<1>5. assignee # u \/ (Par!LivePart(u) # {} /\ assignedSince' = assignedSince)
  <2>1. CASE parts[i].group
    BY <2>1 DEF Par!Accept, Par!RefuseAssigneeOrDuplicate
  <2>2. CASE ~parts[i].group
    <3>1. parts[i].who = u /\ parts[i].status = "invited"
      BY <2>2 DEF Par!Accept, Par!Mine, PartInv, PartShape, RowFits
    <3>2. i \in Par!LivePart(u)
      BY <3>1 DEF Par!LivePart, Par!Alive
    <3> QED BY <3>2 DEF Par!Accept, Par!Afresh, Par!Engaged
  <2> QED BY <2>1, <2>2
<1>6. assignedSince' \in {assignedSince, assignedSince \ {u}}
  BY DEF Par!Accept, Par!Afresh
<1>7. \A v \in People : assignee = v /\ (Involved(v) \/ Joins(r, v)) => v \in assignedSince'
  BY <1>3, <1>5, <1>6 DEF PartInv, AssignedSince, Involved
<1>8. assignedSince' \subseteq People
  BY <1>6 DEF PartInv, PartShape
<1> QED BY <1>3, <1>4, <1>7, <1>8, PartRequestMoves

(* decline and remove only read here: nobody joins by them.                *)
LEMMA DeclineOrReadKeeps ==
  ASSUME PartInv, NEW t \in Requests, NEW i \in DOMAIN parts,
         (\E u \in People : Par!Decline(t, i, u)) \/ Par!ReadRemove(t, i)
  PROVE  PartInv'
<1>1. PICK r \in {Par!AnswerOf(i, u, FALSE) : u \in People} \cup {Par!RemoveOf(i, parts[i].status = "invited")} :
         Par!Takes(t, r) /\ assignedSince' = assignedSince
  BY DEF Par!Decline, Par!ReadRemove
<1>2. i \in Nat
  BY DEF PartInv, PartShape
<1>3. r \in PartRequest /\ PartRequestFits(r) /\ \A v : ~Joins(r, v)
  <2>1. CASE r = Par!RemoveOf(i, parts[i].status = "invited")
    <3>1. PICK b \in BOOLEAN : r = Par!RemoveOf(i, b)
      BY <2>1
    <3> QED BY <1>2, <3>1 DEF Par!RemoveOf, PartRequest, Removing, PartRequestFits, Joins
  <2>2. ASSUME NEW u \in People, r = Par!AnswerOf(i, u, FALSE)
        PROVE  r \in PartRequest /\ PartRequestFits(r) /\ \A v : ~Joins(r, v)
    BY <1>2, <2>2 DEF Par!AnswerOf, PartRequest, Answering, PartRequestFits, Joins
  <2> QED BY <1>1, <2>1, <2>2
<1>4. partReq' = [partReq EXCEPT ![t] = r] /\ UNCHANGED <<assignee, parts, ends>>
  BY <1>1 DEF Par!Takes
<1>5. \A v \in People : assignee = v /\ (Involved(v) \/ Joins(r, v)) => v \in assignedSince'
  BY <1>1, <1>3 DEF PartInv, AssignedSince
<1>6. assignedSince' \subseteq People
  BY <1>1 DEF PartInv, PartShape
<1> QED BY <1>3, <1>4, <1>5, <1>6, PartRequestMoves

(* What a committed request leaves of the open ones.                       *)
LEMMA Settled ==
  ASSUME PartShape, NEW t \in Requests, partReq' = [partReq EXCEPT ![t] = Par!IdlePart]
  PROVE  /\ partReq' \in [Requests -> PartRequest]
         /\ \A v \in Requests : partReq'[v] = IF v = t THEN Par!IdlePart ELSE partReq[v]
BY IdlePartFits DEF PartShape

(* Rows are never deleted: the row an open request has read is still there. *)
LEMMA RequestsStillFit ==
  ASSUME PartShape, NEW t \in Requests, partReq' = [partReq EXCEPT ![t] = Par!IdlePart],
         DOMAIN parts \subseteq DOMAIN parts'
  PROVE  \A v \in Requests : PartRequestFits(partReq[v])'
<1>1. ASSUME NEW v \in Requests PROVE PartRequestFits(partReq[v])'
  <2>1. PICK x : x = partReq'[v]
    OBVIOUS
  <2>2. PartRequestFits(x)
    BY <2>1, Settled, IdlePartFits DEF PartShape
  <2>3. PartRequestFits(x)'
    BY <2>2 DEF PartRequestFits
  <2> QED BY <2>1, <2>3 DEF PartRequestFits
<1> QED BY <1>1

(* A commit adds no person to those involved.                              *)
LEMMA AssignedSinceStays ==
  ASSUME PartInv, NEW t \in Requests, partReq' = [partReq EXCEPT ![t] = Par!IdlePart],
         UNCHANGED <<assignee, assignedSince>>,
         \A u \in People : Par!LivePart(u)' # {} => Involved(u)
  PROVE  AssignedSince'
<1>1. ASSUME NEW u \in People, assignee' = u, Involved(u)' PROVE u \in assignedSince'
  <2>1. CASE Par!LivePart(u)' # {}
    BY <1>1, <2>1 DEF PartInv, AssignedSince
  <2>2. CASE Par!LivePart(u)' = {}
    <3>1. PICK v \in Requests : Joins(partReq[v], u)'
      BY <1>1, <2>2 DEF Involved
    <3>2. PICK x : x = partReq'[v]
      OBVIOUS
    <3>3. Joins(x, u)
      BY <3>1, <3>2 DEF Joins
    <3>4. x = partReq[v]
      BY <3>2, <3>3, Settled, IdlePartFits DEF PartInv
    <3> QED BY <1>1, <3>3, <3>4 DEF PartInv, AssignedSince, Involved
  <2> QED BY <2>1, <2>2
<1> QED BY <1>1 DEF AssignedSince

(* The insert, under ux_acct_ticket_participants_live and                  *)
(* ux_acct_ticket_participants_group_open.                                 *)
LEMMA InsertKeeps ==
  ASSUME PartInv, Par!PartConstants, NEW t \in Requests, Par!Insert(t)
  PROVE  PartInv'
<1>1. PICK r, p : /\ r = partReq[t]
                  /\ p = [who |-> r.who, group |-> r.group, status |-> r.status, responded |-> FALSE]
  OBVIOUS
<1>2. /\ r.at = "insert" /\ Len(parts) < MaxParts
      /\ r.group => Par!OpenGroup = {}
      /\ ~r.group => Par!LivePart(r.who) = {}
      /\ parts' = Append(parts, p) /\ ends' = Append(ends, {})
      /\ partReq' = [partReq EXCEPT ![t] = Par!IdlePart]
      /\ UNCHANGED <<assignee, assignedSince>>
  BY <1>1 DEF Par!Insert
<1>3. PartShape /\ r \in PartRequest /\ PartRequestFits(r)
  BY <1>1 DEF PartInv, PartShape
<1>4. r \in Inserting
  BY <1>2, <1>3 DEF PartRequest, Par!IdlePart, Answering, Removing
<1>5. /\ p \in Part /\ p.who = r.who /\ p.group = r.group /\ p.status = r.status /\ Par!Alive(p)
      /\ RowFits(p, {})
  BY <1>1, <1>2, <1>3, <1>4 DEF Inserting, Part, PartRequestFits, RowFits, Par!Alive, Par!PartConstants
<1>6. PICK n \in Nat : n = Len(parts) + 1
  BY <1>3 DEF PartShape
<1>7. /\ parts' \in Seq(Part) /\ ends' \in Seq(Ending) /\ Len(parts') = n /\ Len(ends') = n
      /\ DOMAIN parts' = DOMAIN parts \cup {n} /\ n \notin DOMAIN parts
      /\ parts'[n] = p /\ ends'[n] = {}
      /\ \A i \in DOMAIN parts : parts'[i] = parts[i] /\ ends'[i] = ends[i]
  BY <1>2, <1>3, <1>5, <1>6 DEF PartShape, Ending
<1>8. PartShape'
  <2>1. \A i \in DOMAIN parts' : RowFits(parts[i], ends[i])'
    <3>1. ASSUME NEW i \in DOMAIN parts' PROVE RowFits(parts'[i], ends'[i])
      BY <1>3, <1>5, <1>7 DEF PartShape
    <3> QED BY <3>1 DEF RowFits
  <2>2. \A v \in Requests : PartRequestFits(partReq[v])'
    BY <1>2, <1>3, <1>7, RequestsStillFit
  <2>3. Len(parts') <= MaxParts
    BY <1>2, <1>3, <1>6, <1>7 DEF Par!PartConstants, PartShape
  <2> QED BY <1>2, <1>3, <1>7, <2>1, <2>2, <2>3, Settled DEF PartShape
<1>9. Par!OnTicketOnce'
  <2>1. ASSUME NEW i \in DOMAIN parts, Par!Alive(parts[i])
        PROVE  parts[i].who = Par!Nobody \/ parts[i].who # p.who
    BY <1>2, <1>3, <1>4, <1>5, <2>1 DEF Par!LivePart, PartRequestFits, Inserting
  <2>2. ASSUME NEW i \in DOMAIN parts', NEW j \in DOMAIN parts', i # j, Par!Alive(parts'[i]), Par!Alive(parts'[j])
        PROVE  parts'[i].who = Par!Nobody \/ parts'[i].who # parts'[j].who
    <3>1. CASE i \in DOMAIN parts /\ j \in DOMAIN parts
      BY <1>7, <2>2, <3>1 DEF PartInv, Par!OnTicketOnce
    <3>2. CASE i = n \/ j = n
      BY <1>7, <2>1, <2>2, <3>2
    <3> QED BY <1>7, <3>1, <3>2
  <2>3. ASSUME NEW i \in Par!OpenGroup', NEW j \in Par!OpenGroup' PROVE i = j
    <3>1. Par!OpenGroup' \subseteq Par!OpenGroup \cup {n} /\ (~r.group => n \notin Par!OpenGroup')
      BY <1>5, <1>7 DEF Par!OpenGroup
    <3> QED BY <1>2, <1>4, <2>3, <3>1 DEF PartInv, Par!OnTicketOnce, Inserting
  <2> QED BY <2>2, <2>3 DEF Par!OnTicketOnce, Par!Alive
<1>10. AssignedSince'
  <2>1. ASSUME NEW u \in People, Par!LivePart(u)' # {} PROVE Involved(u)
    <3>1. PICK i \in DOMAIN parts' : parts'[i].who = u /\ Par!Alive(parts'[i])
      BY <2>1 DEF Par!LivePart, Par!Alive
    <3>2. CASE i = n
      <4>1. Joins(r, u)
        BY <1>2, <1>5, <1>7, <3>1, <3>2 DEF Joins
      <4> QED BY <1>1, <4>1 DEF Involved
    <3>3. CASE i \in DOMAIN parts
      BY <1>7, <3>1, <3>3 DEF Involved, Par!LivePart
    <3> QED BY <1>7, <3>2, <3>3
  <2> QED BY <1>2, <2>1, AssignedSinceStays
<1> QED BY <1>8, <1>9, <1>10 DEF PartInv

(* A row that was invited or active gets its answer or its end.            *)
LEMMA RowChanges ==
  ASSUME PartInv, NEW t \in Requests, NEW k \in DOMAIN parts, NEW p \in Part, NEW e \in Ending,
         parts' = [parts EXCEPT ![k] = p], ends' = [ends EXCEPT ![k] = e],
         partReq' = [partReq EXCEPT ![t] = Par!IdlePart], UNCHANGED <<assignee, assignedSince>>,
         RowFits(p, e), p.status # "invited",
         Par!Alive(p) => Par!LivePart(p.who) \subseteq {k} /\ Involved(p.who)
  PROVE  PartInv'
<1>1. PartShape
  BY DEF PartInv
<1>2. /\ parts' \in Seq(Part) /\ ends' \in Seq(Ending)
      /\ Len(parts') = Len(parts) /\ Len(ends') = Len(ends) /\ DOMAIN parts' = DOMAIN parts
      /\ \A i \in DOMAIN parts : /\ parts'[i] = (IF i = k THEN p ELSE parts[i])
                                  /\ ends'[i] = (IF i = k THEN e ELSE ends[i])
  BY <1>1 DEF PartShape
<1>3. PartShape'
  <2>1. \A i \in DOMAIN parts' : RowFits(parts[i], ends[i])'
    <3>1. ASSUME NEW i \in DOMAIN parts' PROVE RowFits(parts'[i], ends'[i])
      BY <1>1, <1>2 DEF PartShape
    <3> QED BY <3>1 DEF RowFits
  <2>2. \A v \in Requests : PartRequestFits(partReq[v])'
    BY <1>1, <1>2, RequestsStillFit
  <2> QED BY <1>1, <1>2, <2>1, <2>2, Settled DEF PartShape
<1>4. Par!OnTicketOnce'
  <2>1. ASSUME NEW i \in DOMAIN parts, i # k, Par!Alive(parts[i]), Par!Alive(p)
        PROVE  parts[i].who # p.who
    BY <2>1 DEF Par!LivePart
  <2>2. ASSUME NEW i \in DOMAIN parts', NEW j \in DOMAIN parts', i # j, Par!Alive(parts'[i]), Par!Alive(parts'[j])
        PROVE  parts'[i].who = Par!Nobody \/ parts'[i].who # parts'[j].who
    BY <1>2, <2>1, <2>2 DEF PartInv, Par!OnTicketOnce
  <2>3. Par!OpenGroup' \subseteq Par!OpenGroup
    BY <1>2 DEF Par!OpenGroup
  <2> QED BY <2>2, <2>3 DEF PartInv, Par!OnTicketOnce, Par!Alive
<1>5. AssignedSince'
  <2>1. ASSUME NEW u \in People, Par!LivePart(u)' # {} PROVE Involved(u)
    <3>1. PICK i \in DOMAIN parts' : parts'[i].who = u /\ Par!Alive(parts'[i])
      BY <2>1 DEF Par!LivePart, Par!Alive
    <3> QED BY <1>2, <3>1 DEF Involved, Par!LivePart
  <2> QED BY <2>1, AssignedSinceStays
<1> QED BY <1>3, <1>4, <1>5 DEF PartInv

(* accept and decline, `where status = 'invited'': the row has not ended.   *)
LEMMA AnswerKeeps ==
  ASSUME PartInv, Par!PartConstants, NEW t \in Requests, Par!Answer(t)
  PROVE  PartInv'
<1>1. PICK r : r = partReq[t]
  OBVIOUS
<1>2. PICK k, q : k = r.row /\ q = parts[k]
  OBVIOUS
<1>3. PICK p, e :
        /\ p = Par!Answered(q, r)
        /\ e = ends[k] \cup {IF r.accepts THEN "accepted" ELSE "declined"}
  OBVIOUS
<1>4. /\ r.at = "answer" /\ q.status = "invited"
      /\ r.accepts => Par!LivePart(r.who) \subseteq {k}
      /\ parts' = [parts EXCEPT ![k] = p] /\ ends' = [ends EXCEPT ![k] = e]
      /\ partReq' = [partReq EXCEPT ![t] = Par!IdlePart]
      /\ UNCHANGED <<assignee, assignedSince>>
  BY <1>1, <1>2, <1>3 DEF Par!Answer, Par!StillInvited
<1>5. r \in Answering /\ k \in DOMAIN parts
  BY <1>1, <1>2, <1>4 DEF PartInv, PartShape, PartRequest, Par!IdlePart, Inserting, Removing, PartRequestFits
<1>6. q \in Part /\ RowFits(q, ends[k]) /\ ends[k] = {}
  <2>1. q \in Part /\ RowFits(q, ends[k])
    BY <1>2, <1>5 DEF PartInv, PartShape
  <2> QED BY <1>4, <2>1 DEF RowFits
<1>7. CASE r.accepts
  <2>1. p = [q EXCEPT !.status = "active", !.who = r.who, !.responded = TRUE] /\ e = {"accepted"}
    BY <1>3, <1>6, <1>7 DEF Par!Answered
  <2>2. /\ p \in Part /\ p.status = "active" /\ p.who = r.who /\ p.responded = TRUE /\ p.who # Par!Nobody
        /\ e \in Ending
    BY <1>5, <1>6, <2>1 DEF Part, Answering, Ending, Par!PartConstants
  <2>3. RowFits(p, e)
    BY <2>1, <2>2 DEF RowFits
  <2>4. Joins(r, p.who)
    BY <1>4, <1>7, <2>2 DEF Joins
  <2>5. Involved(p.who)
    BY <1>1, <2>4 DEF Involved
  <2>6. Par!LivePart(p.who) \subseteq {k}
    BY <1>4, <1>7, <2>2
  <2> QED BY <1>4, <1>5, <2>2, <2>3, <2>5, <2>6, RowChanges
<1>8. CASE ~r.accepts
  <2>1. p = [q EXCEPT !.status = "declined", !.responded = TRUE] /\ e = {"declined"}
    BY <1>3, <1>6, <1>8 DEF Par!Answered
  <2>2. /\ p \in Part /\ p.status = "declined" /\ p.who = q.who /\ p.group = q.group /\ p.responded = TRUE
        /\ e \in Ending /\ ~Par!Alive(p)
    BY <1>6, <2>1 DEF Part, Ending, Par!Alive
  <2>3. RowFits(p, e)
    BY <1>6, <2>1, <2>2 DEF RowFits
  <2> QED BY <1>4, <1>5, <2>2, <2>3, RowChanges
<1> QED BY <1>7, <1>8

(* remove, by the status it has read and ck_participant_responded.         *)
LEMMA RemoveKeeps ==
  ASSUME PartInv, NEW t \in Requests, Par!Remove(t)
  PROVE  PartInv'
<1>1. PICK r : r = partReq[t]
  OBVIOUS
<1>2. PICK k, q : k = r.row /\ q = parts[k]
  OBVIOUS
<1>3. PICK p, e : /\ p = [q EXCEPT !.status = IF r.invited THEN "withdrawn" ELSE "left"]
                  /\ e = ends[k] \cup {IF r.invited THEN "withdrawn" ELSE "left"}
  OBVIOUS
<1>4. /\ r.at = "remove"
      /\ q.status = "invited" \/ (q.status = "active" /\ ~q.responded)
      /\ parts' = [parts EXCEPT ![k] = p] /\ ends' = [ends EXCEPT ![k] = e]
      /\ partReq' = [partReq EXCEPT ![t] = Par!IdlePart]
      /\ UNCHANGED <<assignee, assignedSince>>
  BY <1>1, <1>2, <1>3 DEF Par!Remove, Par!StillInvited
<1>5. k \in DOMAIN parts
  BY <1>1, <1>2, <1>4 DEF PartInv, PartShape, PartRequestFits
<1>6. q \in Part /\ RowFits(q, ends[k])
  BY <1>2, <1>5 DEF PartInv, PartShape
<1>7. ends[k] = {} /\ ~q.responded
  BY <1>4, <1>6 DEF RowFits
<1>8. /\ p \in Part /\ p.status \in {"withdrawn", "left"} /\ p.who = q.who /\ p.group = q.group
      /\ p.responded = q.responded /\ ~Par!Alive(p)
  BY <1>3, <1>6 DEF Part, Par!Alive
<1>9. e \in Ending /\ \A a, b \in e : a = b
  BY <1>3, <1>7 DEF Ending
<1>10. RowFits(p, e)
  BY <1>6, <1>7, <1>8, <1>9 DEF RowFits
<1> QED BY <1>4, <1>5, <1>8, <1>9, <1>10, RowChanges

(* The ticket is handed to someone, who may have a part in it.             *)
LEMMA AssignKeeps ==
  ASSUME PartInv, NEW u \in People \cup {Par!Nobody}, Par!PartConstants, Par!Assign(u)
  PROVE  PartInv'
<1>1. /\ assignee' = u /\ assignedSince' = assignedSince \cup ({u} \ {Par!Nobody})
      /\ UNCHANGED <<parts, partReq, ends>>
  BY DEF Par!Assign
<1>2. PartShape'
  BY <1>1 DEF PartInv, PartShape, PartRequestFits, RowFits
<1>3. Par!OnTicketOnce'
  BY <1>1 DEF PartInv, Par!OnTicketOnce, Par!OpenGroup
<1>4. AssignedSince'
  BY <1>1 DEF AssignedSince, Par!PartConstants
<1> QED BY <1>2, <1>3, <1>4 DEF PartInv

(* Every request and every hand-over keeps it.                             *)
LEMMA PartStep ==
  ASSUME Par!PartConstants, PartInv, [Par!PartNext]_(Par!partVars)
  PROVE  PartInv'
<1>1. CASE UNCHANGED Par!partVars
  BY <1>1 DEF Par!partVars, PartInv, PartShape, RowFits, PartRequestFits, Par!OnTicketOnce, Par!OpenGroup, AssignedSince,
              Involved, Par!LivePart, Joins
<1>2. ASSUME NEW t \in Requests, NEW u \in People, Par!Add(t, u) \/ Par!Invite(t, u) PROVE PartInv'
  BY <1>2, AddKeeps DEF Par!Add, Par!Invite
<1>3. ASSUME NEW t \in Requests, NEW u \in People, NEW i \in DOMAIN parts, Par!Accept(t, i, u) \/ Par!Decline(t, i, u)
      PROVE  PartInv'
  BY <1>3, AcceptKeeps, DeclineOrReadKeeps
<1>4. ASSUME NEW t \in Requests, NEW i \in DOMAIN parts, Par!ReadRemove(t, i) PROVE PartInv'
  BY <1>4, DeclineOrReadKeeps
<1>5. ASSUME NEW t \in Requests, Par!InviteGroup(t) \/ Par!Insert(t) \/ Par!Answer(t) \/ Par!Remove(t) \/ Par!Refused(t)
      PROVE  PartInv'
  BY <1>5, InviteGroupKeeps, InsertKeeps, AnswerKeeps, RemoveKeeps, RefusedKeeps
<1> QED BY <1>1, <1>2, <1>3, <1>4, <1>5, AssignKeeps DEF Par!PartNext

(* The rows of acct.ticket_participants always fit their check constraints, *)
(* an open request of participants.module.ts names a row that exists, and   *)
(* whoever is the assignee with a part, or with one being written, was      *)
(* assigned after that part began.                                         *)
THEOREM ParticipantsInvariant ==
  ASSUME Par!PartConstants
  PROVE  Par!PartInit /\ [][Par!PartNext]_(Par!partVars) => []PartInv
<1>1. PartInv /\ [Par!PartNext]_(Par!partVars) => PartInv'
  BY PartStep
<1> QED BY <1>1, PartStarts, PTL

(* The rows of acct.ticket_participants satisfy the check constraints of    *)
(* the table (0048 and 0049) after any requests, whichever overlap.        *)
THEOREM ParticipantsTypeCorrect ==
  ASSUME Par!PartConstants
  PROVE  Par!PartInit /\ [][Par!PartNext]_(Par!partVars) => []Par!PartTypeOK
<1>1. PartInv => Par!PartTypeOK
  <2> SUFFICES ASSUME PartInv PROVE Par!PartTypeOK
    OBVIOUS
  <2>1. ASSUME NEW i \in DOMAIN parts
        PROVE  parts[i] \in Part /\ RowFits(parts[i], ends[i])
    BY DEF PartInv, PartShape
  <2>2. ASSUME NEW t \in Requests
        PROVE  partReq[t].at \in {"idle", "insert", "answer", "remove"}
    <3>1. partReq[t] \in PartRequest
      BY DEF PartInv, PartShape
    <3> QED BY <3>1 DEF PartRequest, Par!IdlePart, Inserting, Answering, Removing
  <2>3. ASSUME NEW i \in DOMAIN parts
        PROVE  /\ parts[i].who \in People \cup {Par!Nobody} /\ parts[i].group \in BOOLEAN
               /\ parts[i].status \in {"invited", "active", "declined", "withdrawn", "left"}
               /\ parts[i].who # Par!Nobody \/ (parts[i].group /\ parts[i].status # "active")
               /\ parts[i].responded => parts[i].status \in {"active", "declined"}
    BY <2>1 DEF Part, RowFits
  <2>4. /\ assignee \in People \cup {Par!Nobody} /\ assignedSince \subseteq People
        /\ Len(parts) <= MaxParts /\ Len(ends) = Len(parts)
    BY DEF PartInv, PartShape
  <2> QED BY <2>2, <2>3, <2>4 DEF Par!PartTypeOK
<1> QED BY <1>1, ParticipantsInvariant, PTL

(* Whatever requests overlap on a ticket without a lock: nobody takes part  *)
(* twice, a group has one open invitation, an invitation is not both       *)
(* accepted and withdrawn, and the assignee takes part only when the        *)
(* ticket came to them later (participants.module.ts and its two unique     *)
(* indexes).                                                               *)
THEOREM ParticipantsAreOnce ==
  ASSUME Par!PartConstants
  PROVE  Par!PartInit /\ [][Par!PartNext]_(Par!partVars) =>
           [](Par!OnTicketOnce /\ Par!InvitationEndsOnce /\ Par!AssigneeIsNoParticipant)
<1>1. PartInv => Par!OnTicketOnce /\ Par!InvitationEndsOnce /\ Par!AssigneeIsNoParticipant
  <2> SUFFICES ASSUME PartInv PROVE Par!InvitationEndsOnce /\ Par!AssigneeIsNoParticipant
    BY DEF PartInv
  <2>1. ASSUME NEW i \in DOMAIN ends PROVE \A a, b \in ends[i] : a = b
    <3>1. i \in DOMAIN parts
      BY DEF PartInv, PartShape
    <3> QED BY <3>1 DEF PartInv, PartShape, RowFits
  <2> QED BY <2>1 DEF Par!InvitationEndsOnce, Par!AssigneeIsNoParticipant, PartInv, AssignedSince, Involved
<1> QED BY <1>1, ParticipantsInvariant, PTL
=============================================================================
