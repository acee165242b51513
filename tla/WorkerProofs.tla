---------------------------- MODULE WorkerProofs ----------------------------
(***************************************************************************)
(* Proofs about what the worker runs.  The outbox dispatcher: for every    *)
(* backlog, every routing, every number of dispatchers, every batch and    *)
(* attempts limit.  The lease of a scheduled job: for every set of tasks,  *)
(* every number of invocations in flight, every lease and every run time.  *)
(***************************************************************************)
EXTENDS Outbox, JobLease, FiniteSetTheorems, TLAPS

-----------------------------------------------------------------------------
(* The outbox and its dispatchers                                          *)

(* What a live tick holds is its own and not yet settled; a tick without    *)
(* rows is not a lost one.                                                  *)
LiveClaims ==
  /\ \A c, d \in Dispatchers \ lost : c # d => claimed[c] \cap claimed[d] = {}
  /\ \A d \in Dispatchers \ lost : claimed[d] \cap dispatched = {}

(* The verdicts of a tick are about rows it claimed, one verdict each. *)
VerdictsOnClaims ==
  \A d \in Dispatchers :
     /\ okRows[d] \subseteq claimed[d] /\ failedRows[d] \subseteq claimed[d]
     /\ okRows[d] \cap failedRows[d] = {}

(* Handlers run for the rows routed to them only; a row found delivered has *)
(* run them all, and the row in hand those before the next one.             *)
HandlersRan ==
  /\ \A e \in Events, h \in Handlers : runs[e][h] > 0 => h \in RoutedTo(e)
  /\ \A d \in Dispatchers : \A e \in okRows[d] : \A h \in RoutedTo(e) : runs[e][h] > 0
  /\ \A d \in Dispatchers : \A e \in Unprocessed(d) :
        InHand(d, e) =>
          /\ handled[d] <= Len(Route[e])
          /\ \A i \in 1 .. handled[d] : runs[e][Route[e][i]] > 0
  /\ \A d \in Dispatchers : Unprocessed(d) = {} => handled[d] = 0

USE LastEventAssumption, RouteAssumption, RouteOnceAssumption, BatchAssumption,
    MaxAttemptsAssumption, MaxAbortsAssumption, DispatchersAssumption

(* The inductive invariant behind NoSilentLoss and SettledIsFinal. *)
DInv ==
  /\ TypeOK
  /\ LiveClaims
  /\ VerdictsOnClaims
  /\ NoSilentLoss
  /\ HandlersRan

(* Before the first event is published there is nothing to keep. *)
LEMMA InitDInv == Init => DInv
<1> SUFFICES ASSUME Init PROVE DInv
  OBVIOUS
<1>1. TypeOK
  BY DEF Init, TypeOK
<1>2. LiveClaims /\ VerdictsOnClaims
  BY DEF Init, LiveClaims, VerdictsOnClaims
<1>3. NoSilentLoss
  BY DEF Init, NoSilentLoss
<1>4. HandlersRan
  BY DEF Init, HandlersRan, Unprocessed
<1> QED
  BY <1>1, <1>2, <1>3, <1>4 DEF DInv

(* A new row is in nobody's tick. *)
LEMMA PublishDInv ==
  ASSUME DInv, NEW e \in Events, Publish(e)
  PROVE  DInv'
<1>1. TypeOK'
  BY DEF Publish, ticks, DInv, TypeOK
<1>2. LiveClaims' /\ VerdictsOnClaims'
  BY DEF Publish, ticks, DInv, LiveClaims, VerdictsOnClaims
<1>3. NoSilentLoss'
  BY DEF Publish, DInv, NoSilentLoss, RoutedTo
<1>4. HandlersRan'
  BY DEF Publish, ticks, DInv, HandlersRan, Unprocessed, InHand, RoutedTo
<1> QED
  BY <1>1, <1>2, <1>3, <1>4 DEF DInv

(* A claim takes rows no live tick has locked and none is settled. *)
LEMMA ClaimDInv ==
  ASSUME DInv, NEW d \in Dispatchers, Claim(d)
  PROVE  DInv'
<1>1. FirstOf(Claimable) \subseteq Claimable
  BY DEF FirstOf
<1>2. /\ claimed' = [claimed EXCEPT ![d] = FirstOf(Claimable)]
      /\ claimed[d] = {} /\ okRows[d] = {} /\ failedRows[d] = {}
      /\ UNCHANGED <<published, dispatched, attempts, letters, okRows, failedRows,
                     handled, lost, runs, aborts>>
  BY DEF Claim, rows, DInv, VerdictsOnClaims
<1>3. \A c \in Dispatchers : claimed'[c] = IF c = d THEN FirstOf(Claimable) ELSE claimed[c]
  BY <1>2 DEF DInv, TypeOK
<1>4. TypeOK'
  BY <1>1, <1>2 DEF Claimable, DInv, TypeOK
<1>5. LiveClaims'
  BY <1>1, <1>2, <1>3 DEF Claimable, Locked, DInv, LiveClaims
<1>6. VerdictsOnClaims'
  BY <1>2, <1>3 DEF DInv, VerdictsOnClaims
<1>7. NoSilentLoss'
  BY <1>2 DEF DInv, NoSilentLoss, RoutedTo
<1>8. HandlersRan'
  <2>1. handled[d] = 0
    BY <1>2 DEF DInv, HandlersRan, Unprocessed
  <2>2. \A c \in Dispatchers : c # d => Unprocessed(c)' = Unprocessed(c)
    BY <1>2, <1>3 DEF Unprocessed
  <2>3. Unprocessed(d)' \subseteq Events
    BY <1>1, <1>2, <1>3 DEF Unprocessed, Claimable, DInv, TypeOK
  <2> QED
    BY <1>2, <2>1, <2>2, <2>3 DEF DInv, HandlersRan, InHand, RoutedTo
<1> QED
  BY <1>4, <1>5, <1>6, <1>7, <1>8 DEF DInv

(* One more run of a handler is routed to the row in hand, and takes away   *)
(* no run that was there.                                                   *)
LEMMA RanMore ==
  ASSUME DInv, NEW d \in Dispatchers, NEW e \in Events,
         InHand(d, e), HasNextHandler(d, e)
  PROVE  /\ NextHandler(d, e) \in RoutedTo(e) /\ NextHandler(d, e) \in Handlers
         /\ handled[d] + 1 \in DOMAIN Route[e]
         /\ Ran(e, NextHandler(d, e)) \in [Events -> [Handlers -> Nat]]
         /\ \A f \in Events, h \in Handlers :
              Ran(e, NextHandler(d, e))[f][h]
                = IF f = e /\ h = NextHandler(d, e) THEN runs[f][h] + 1 ELSE runs[f][h]
<1>1. handled[d] + 1 \in DOMAIN Route[e]
  BY DEF HasNextHandler, DInv, TypeOK
<1>2. NextHandler(d, e) \in RoutedTo(e) /\ NextHandler(d, e) \in Handlers
  BY <1>1 DEF NextHandler, RoutedTo
<1> QED
  BY <1>1, <1>2, SMTT(30) DEF Ran, DInv, TypeOK

(* A handler returns: the row in hand has one handler more behind it. *)
LEMMA ReturnsDInv ==
  ASSUME DInv, NEW d \in Dispatchers, NEW e \in Events, HandlerReturns(d, e)
  PROVE  DInv'
<1>1. /\ InHand(d, e) /\ HasNextHandler(d, e)
      /\ handled' = [handled EXCEPT ![d] = @ + 1]
      /\ runs' = Ran(e, NextHandler(d, e))
      /\ UNCHANGED <<published, dispatched, attempts, letters, claimed, okRows, failedRows,
                     lost, aborts>>
  BY DEF HandlerReturns, rows
<1>2. /\ NextHandler(d, e) \in RoutedTo(e)
      /\ runs' \in [Events -> [Handlers -> Nat]]
      /\ \A f \in Events, h \in Handlers :
           /\ runs[f][h] \in Nat
           /\ runs'[f][h] = IF f = e /\ h = NextHandler(d, e) THEN runs[f][h] + 1 ELSE runs[f][h]
  BY <1>1, RanMore, SMTT(30) DEF DInv, TypeOK
<1>grow. \A f \in Events, h \in Handlers : runs[f][h] > 0 => runs'[f][h] > 0
  <2> SUFFICES ASSUME NEW f \in Events, NEW h \in Handlers, runs[f][h] > 0
               PROVE  runs'[f][h] > 0
    OBVIOUS
  <2>1. runs[f][h] \in Nat /\ (runs'[f][h] = runs[f][h] \/ runs'[f][h] = runs[f][h] + 1)
    BY <1>2
  <2> QED
    BY <2>1
<1>3. TypeOK'
  BY <1>1, <1>2 DEF DInv, TypeOK
<1>4. LiveClaims' /\ VerdictsOnClaims'
  BY <1>1 DEF DInv, LiveClaims, VerdictsOnClaims
<1>5. NoSilentLoss'
  <2>1. \A f \in Events : \A h \in RoutedTo(f) : runs[f][h] > 0 => runs'[f][h] > 0
    BY <1>grow DEF RoutedTo
  <2> QED
    BY <1>1, <2>1 DEF DInv, NoSilentLoss, RoutedTo, TypeOK
<1>6. HandlersRan'
  <2>1. \A f \in Events, h \in Handlers : runs'[f][h] > 0 => h \in RoutedTo(f)
    BY <1>2 DEF DInv, HandlersRan
  <2>2. ASSUME NEW c \in Dispatchers, NEW f \in okRows'[c], NEW h \in RoutedTo(f)
        PROVE  runs'[f][h] > 0
    <3>1. f \in okRows[c] /\ f \in Events
      BY <1>1, <2>2 DEF DInv, TypeOK
    <3>2. h \in Handlers
      BY <3>1 DEF RoutedTo
    <3>3. runs[f][h] > 0
      BY <3>1 DEF DInv, HandlersRan
    <3> QED
      BY <1>grow, <3>1, <3>2, <3>3
  <2>3. ASSUME NEW c \in Dispatchers, NEW f \in Unprocessed(c)', InHand(c, f)'
        PROVE  /\ handled'[c] <= Len(Route[f])
               /\ \A i \in 1 .. handled'[c] : runs'[f][Route[f][i]] > 0
    <3>1. f \in Unprocessed(c) /\ InHand(c, f) /\ f \in Events
      BY <1>1, <2>3 DEF Unprocessed, InHand, DInv, TypeOK
    <3>2. handled[c] <= Len(Route[f]) /\ \A i \in 1 .. handled[c] : runs[f][Route[f][i]] > 0
      BY <3>1 DEF DInv, HandlersRan
    <3>3. \A i \in 1 .. handled[c] : runs'[f][Route[f][i]] > 0
      <4>1. \A i \in 1 .. handled[c] : Route[f][i] \in Handlers
        BY <3>1, <3>2 DEF DInv, TypeOK
      <4> QED
        BY <1>grow, <3>1, <3>2, <4>1
    <3>4. CASE c # d
      BY <1>1, <3>2, <3>3, <3>4 DEF DInv, TypeOK
    <3>5. CASE c = d
      <4>1. f = e
        BY <1>1, <3>1, <3>5 DEF InHand, Events
      <4>2. handled'[c] = handled[c] + 1 /\ handled[c] \in Nat
        BY <1>1, <3>5 DEF DInv, TypeOK
      <4>3. handled[c] + 1 <= Len(Route[f])
        BY <1>1, <3>5, <4>1, <4>2 DEF HasNextHandler
      <4>4. runs'[f][Route[f][handled[c] + 1]] > 0
        <5>1. Route[f][handled[c] + 1] = NextHandler(d, e) /\ NextHandler(d, e) \in Handlers
          BY <1>1, <3>5, <4>1, RanMore DEF NextHandler
        <5>2. runs'[e][NextHandler(d, e)] = runs[e][NextHandler(d, e)] + 1
          BY <1>2, <5>1
        <5> QED
          BY <1>2, <4>1, <5>1, <5>2
      <4>5. \A i \in 1 .. handled[c] + 1 : i \in 1 .. handled[c] \/ i = handled[c] + 1
        BY <4>2
      <4> QED
        BY <3>3, <4>2, <4>3, <4>4, <4>5
    <3> QED
      BY <3>4, <3>5
  <2>4. \A c \in Dispatchers : Unprocessed(c)' = {} => handled'[c] = 0
    BY <1>1 DEF DInv, HandlersRan, Unprocessed, InHand, TypeOK
  <2> QED
    BY <2>1, <2>2, <2>3, <2>4 DEF HandlersRan, RoutedTo
<1> QED
  BY <1>3, <1>4, <1>5, <1>6 DEF DInv

(* A row whose handlers are all behind it is found delivered. *)
LEMMA DeliveredDInv ==
  ASSUME DInv, NEW d \in Dispatchers, NEW e \in Events, RowDelivered(d, e)
  PROVE  DInv'
<1>1. /\ InHand(d, e) /\ ~HasNextHandler(d, e)
      /\ okRows' = [okRows EXCEPT ![d] = @ \cup {e}]
      /\ handled' = [handled EXCEPT ![d] = 0]
      /\ UNCHANGED <<published, dispatched, attempts, letters, claimed, failedRows, lost,
                     runs, aborts>>
  BY DEF RowDelivered, rows
<1>2. e \in Unprocessed(d)
  BY <1>1 DEF InHand
<1>3. TypeOK'
  BY <1>1 DEF DInv, TypeOK
<1>4. LiveClaims' /\ VerdictsOnClaims'
  BY <1>1, <1>2 DEF Unprocessed, DInv, TypeOK, LiveClaims, VerdictsOnClaims
<1>5. NoSilentLoss'
  BY <1>1 DEF DInv, NoSilentLoss, RoutedTo
<1>6. \A h \in RoutedTo(e) : runs[e][h] > 0
  <2>1. handled[d] = Len(Route[e]) /\ \A i \in 1 .. handled[d] : runs[e][Route[e][i]] > 0
    BY <1>1, <1>2 DEF HasNextHandler, DInv, HandlersRan, TypeOK
  <2> QED
    BY <2>1 DEF RoutedTo
<1>7. HandlersRan'
  <2>1. \A c \in Dispatchers : c # d => Unprocessed(c)' = Unprocessed(c)
    BY <1>1 DEF Unprocessed, DInv, TypeOK
  <2>2. \A c \in Dispatchers : handled'[c] = IF c = d THEN 0 ELSE handled[c]
    BY <1>1 DEF DInv, TypeOK
  <2>3. \A c \in Dispatchers : \A f \in okRows'[c] : f \in okRows[c] \/ f = e
    BY <1>1 DEF DInv, TypeOK
  <2>4. Unprocessed(d)' \subseteq Events
    BY <1>1 DEF Unprocessed, DInv, TypeOK
  <2>5. \A e1 \in Events, h \in Handlers : runs'[e1][h] > 0 => h \in RoutedTo(e1)
    BY <1>1 DEF DInv, HandlersRan
  <2>6. \A c \in Dispatchers : \A f \in okRows'[c] : \A h \in RoutedTo(f) : runs'[f][h] > 0
    BY <1>1, <1>6, <2>3 DEF DInv, HandlersRan
  <2>7. ASSUME NEW c \in Dispatchers, NEW f \in Unprocessed(c)', InHand(c, f)'
        PROVE  /\ handled'[c] <= Len(Route[f])
               /\ \A i \in 1 .. handled'[c] : runs'[f][Route[f][i]] > 0
    <3>1. CASE c = d
      BY <2>2, <2>4, <2>7, <3>1
    <3>2. CASE c # d
      <4>1. f \in Unprocessed(c) /\ InHand(c, f)
        BY <2>1, <2>7, <3>2 DEF InHand
      <4> QED
        BY <1>1, <2>2, <3>2, <4>1 DEF DInv, HandlersRan
    <3> QED
      BY <3>1, <3>2
  <2>8. \A c \in Dispatchers : Unprocessed(c)' = {} => handled'[c] = 0
    BY <2>1, <2>2 DEF DInv, HandlersRan
  <2> QED
    BY <2>5, <2>6, <2>7, <2>8 DEF HandlersRan, RoutedTo
<1> QED
  BY <1>3, <1>4, <1>5, <1>7 DEF DInv

(* A handler throws, with or without its effect: the row fails. *)
LEMMA ThrowsDInv ==
  ASSUME DInv, NEW d \in Dispatchers, NEW e \in Events, NEW effect \in BOOLEAN,
         HandlerThrows(d, e, effect)
  PROVE  DInv'
<1>1. /\ InHand(d, e) /\ HasNextHandler(d, e)
      /\ failedRows' = [failedRows EXCEPT ![d] = @ \cup {e}]
      /\ handled' = [handled EXCEPT ![d] = 0]
      /\ runs' = runs \/ runs' = Ran(e, NextHandler(d, e))
      /\ UNCHANGED <<published, dispatched, attempts, letters, claimed, okRows, lost, aborts>>
  BY DEF HandlerThrows, rows
<1>2. /\ NextHandler(d, e) \in RoutedTo(e)
      /\ runs' \in [Events -> [Handlers -> Nat]]
      /\ \A f \in Events, h \in Handlers :
           /\ runs[f][h] \in Nat
           /\ runs'[f][h] # runs[f][h] =>
                f = e /\ h = NextHandler(d, e) /\ runs'[f][h] = runs[f][h] + 1
  <2>1. /\ NextHandler(d, e) \in RoutedTo(e)
        /\ Ran(e, NextHandler(d, e)) \in [Events -> [Handlers -> Nat]]
        /\ \A f \in Events, h \in Handlers :
             Ran(e, NextHandler(d, e))[f][h]
               = IF f = e /\ h = NextHandler(d, e) THEN runs[f][h] + 1 ELSE runs[f][h]
    BY <1>1, RanMore
  <2>2. runs \in [Events -> [Handlers -> Nat]]
    BY DEF DInv, TypeOK
  <2>3. CASE runs' = runs
    BY <2>1, <2>2, <2>3
  <2>4. CASE runs' = Ran(e, NextHandler(d, e))
    BY <2>1, <2>2, <2>4
  <2> QED
    BY <1>1, <2>3, <2>4
<1>grow. \A f \in Events, h \in Handlers : runs[f][h] > 0 => runs'[f][h] > 0
  <2> SUFFICES ASSUME NEW f \in Events, NEW h \in Handlers, runs[f][h] > 0
               PROVE  runs'[f][h] > 0
    OBVIOUS
  <2>1. runs[f][h] \in Nat /\ (runs'[f][h] = runs[f][h] \/ runs'[f][h] = runs[f][h] + 1)
    BY <1>2
  <2> QED
    BY <2>1
<1>3. TypeOK'
  BY <1>1, <1>2 DEF DInv, TypeOK
<1>4. LiveClaims' /\ VerdictsOnClaims'
  BY <1>1 DEF InHand, Unprocessed, DInv, TypeOK, LiveClaims, VerdictsOnClaims
<1>5. NoSilentLoss'
  <2>1. \A f \in Events : \A h \in RoutedTo(f) : runs[f][h] > 0 => runs'[f][h] > 0
    BY <1>grow DEF RoutedTo
  <2> QED
    BY <1>1, <2>1 DEF DInv, NoSilentLoss, RoutedTo, TypeOK
<1>6. HandlersRan'
  <2>1. \A f \in Events, h \in Handlers : runs'[f][h] > 0 => h \in RoutedTo(f)
    BY <1>2, ZenonT(60) DEF DInv, HandlersRan
  <2>2. ASSUME NEW c \in Dispatchers, NEW f \in okRows'[c], NEW h \in RoutedTo(f)
        PROVE  runs'[f][h] > 0
    <3>1. f \in okRows[c] /\ f \in Events /\ h \in Handlers
      BY <1>1, <2>2 DEF DInv, TypeOK, RoutedTo
    <3> QED
      BY <1>grow, <3>1 DEF DInv, HandlersRan
  <2>3. \A c \in Dispatchers : handled'[c] = IF c = d THEN 0 ELSE handled[c]
    BY <1>1 DEF DInv, TypeOK
  <2>4. \A c \in Dispatchers : c # d => Unprocessed(c)' = Unprocessed(c)
    BY <1>1 DEF Unprocessed, DInv, TypeOK
  <2>5. ASSUME NEW c \in Dispatchers, NEW f \in Unprocessed(c)', InHand(c, f)'
        PROVE  /\ handled'[c] <= Len(Route[f])
               /\ \A i \in 1 .. handled'[c] : runs'[f][Route[f][i]] > 0
    <3>1. f \in Events
      BY <1>1, <2>5 DEF Unprocessed, DInv, TypeOK
    <3>2. CASE c = d
      BY <2>3, <3>1, <3>2
    <3>3. CASE c # d
      <4>1. f \in Unprocessed(c) /\ InHand(c, f)
        BY <2>4, <2>5, <3>3 DEF InHand
      <4>2. handled[c] <= Len(Route[f]) /\ \A i \in 1 .. handled[c] : runs[f][Route[f][i]] > 0
        BY <4>1 DEF DInv, HandlersRan
      <4>3. \A i \in 1 .. handled[c] : Route[f][i] \in Handlers
        BY <3>1, <4>2 DEF DInv, TypeOK
      <4> QED
        BY <1>grow, <2>3, <3>1, <3>3, <4>2, <4>3
    <3> QED
      BY <3>2, <3>3
  <2>6. \A c \in Dispatchers : Unprocessed(c)' = {} => handled'[c] = 0
    BY <2>3, <2>4 DEF DInv, HandlersRan
  <2> QED
    BY <2>1, <2>2, <2>5, <2>6 DEF HandlersRan, RoutedTo
<1> QED
  BY <1>3, <1>4, <1>5, <1>6 DEF DInv

(* The end of a tick, however it ends, leaves the ticks of the others as    *)
(* they are.                                                                *)
LEMMA TickOverDInv ==
  ASSUME DInv, NEW d \in Dispatchers, TickOver(d), UNCHANGED runs
  PROVE  /\ \A c \in Dispatchers :
              /\ claimed'[c] = IF c = d THEN {} ELSE claimed[c]
              /\ okRows'[c] = IF c = d THEN {} ELSE okRows[c]
              /\ failedRows'[c] = IF c = d THEN {} ELSE failedRows[c]
         /\ lost' = lost \ {d}
         /\ VerdictsOnClaims' /\ HandlersRan'
<1>1. /\ \A c \in Dispatchers :
           /\ claimed'[c] = IF c = d THEN {} ELSE claimed[c]
           /\ okRows'[c] = IF c = d THEN {} ELSE okRows[c]
           /\ failedRows'[c] = IF c = d THEN {} ELSE failedRows[c]
           /\ handled'[c] = IF c = d THEN 0 ELSE handled[c]
      /\ lost' = lost \ {d}
  BY DEF TickOver, DInv, TypeOK
<1>2. VerdictsOnClaims'
  BY <1>1 DEF DInv, VerdictsOnClaims
<1>3. \A c \in Dispatchers :
         Unprocessed(c)' = IF c = d THEN {} ELSE Unprocessed(c)
  BY <1>1 DEF Unprocessed
<1>4. HandlersRan'
  BY <1>1, <1>3, SMTT(30) DEF DInv, HandlersRan, InHand, RoutedTo
<1> QED
  BY <1>1, <1>2, <1>4

(* The commit: each row of the tick has a verdict, and none was settled     *)
(* before.                                                                  *)
LEMMA CommitDInv ==
  ASSUME DInv, NEW d \in Dispatchers, Commit(d)
  PROVE  DInv'
<1>1. /\ d \notin lost
      /\ claimed[d] = okRows[d] \cup failedRows[d]
      /\ okRows[d] \cap failedRows[d] = {}
      /\ claimed[d] \subseteq published \ dispatched
      /\ UNCHANGED <<published, runs, aborts>>
      /\ TickOver(d)
  BY DEF Commit, Unprocessed, DInv, VerdictsOnClaims, LiveClaims, TypeOK
<1>2. /\ \A e \in Events :
           /\ attempts'[e] = IF e \in claimed[d] THEN attempts[e] + 1 ELSE attempts[e]
           /\ letters'[e] = IF e \in Buried(d) THEN letters[e] + 1 ELSE letters[e]
      /\ dispatched' = dispatched \cup okRows[d] \cup Buried(d)
      /\ Buried(d) = {e \in failedRows[d] : attempts[e] + 1 >= MaxAttempts}
  BY DEF Commit, Buried, Exhausted
<1>3. \A e \in claimed[d] : letters[e] = 0 /\ attempts[e] \in Nat /\ attempts[e] < MaxAttempts
  BY <1>1 DEF DInv, NoSilentLoss, TypeOK
<1>4. TypeOK'
  <2>1. \A e \in Events : attempts'[e] \in 0 .. MaxAttempts /\ letters'[e] \in Nat
    <3> SUFFICES ASSUME NEW e \in Events
                 PROVE  attempts'[e] \in 0 .. MaxAttempts /\ letters'[e] \in Nat
      OBVIOUS
    <3>1. attempts[e] \in 0 .. MaxAttempts /\ letters[e] \in Nat
      BY DEF DInv, TypeOK
    <3>2. letters'[e] \in Nat
      BY <1>2, <3>1
    <3>3. CASE e \in claimed[d]
      BY <1>2, <1>3, <3>1, <3>2, <3>3
    <3>4. CASE e \notin claimed[d]
      BY <1>2, <3>1, <3>2, <3>4
    <3> QED
      BY <3>3, <3>4
  <2>2. attempts' \in [Events -> 0 .. MaxAttempts] /\ letters' \in [Events -> Nat]
    BY <2>1 DEF Commit
  <2>3. dispatched' \subseteq published
    BY <1>1, <1>2 DEF DInv, TypeOK
  <2> QED
    BY <1>1, <2>2, <2>3 DEF TickOver, DInv, TypeOK
<1>5. LiveClaims'
  BY <1>1, <1>2, TickOverDInv DEF DInv, LiveClaims
<1>6. NoSilentLoss'
  <2>1. ASSUME NEW e \in dispatched'
        PROVE  \/ letters'[e] = 0 /\ \A h \in RoutedTo(e) : runs'[e][h] > 0
               \/ letters'[e] = 1 /\ attempts'[e] = MaxAttempts
    <3>1. e \in Events
      BY <2>1, <1>4 DEF TypeOK
    <3>2. CASE e \in dispatched
      BY <1>1, <1>2, <3>1, <3>2 DEF DInv, NoSilentLoss
    <3>3. CASE e \in okRows[d]
      BY <1>1, <1>2, <1>3, <3>1, <3>3 DEF DInv, HandlersRan
    <3>4. CASE e \in Buried(d)
      BY <1>1, <1>2, <1>3, <3>1, <3>4
    <3> QED
      BY <1>2, <2>1, <3>2, <3>3, <3>4
  <2>2. ASSUME NEW e \in Events \ dispatched'
        PROVE  letters'[e] = 0 /\ attempts'[e] < MaxAttempts
    <3>1. e \notin dispatched /\ e \notin Buried(d) /\ letters[e] = 0 /\ attempts[e] < MaxAttempts
      BY <1>2, <2>2 DEF DInv, NoSilentLoss
    <3>2. CASE e \in claimed[d]
      BY <1>1, <1>2, <1>3, <2>2, <3>1, <3>2
    <3>3. CASE e \notin claimed[d]
      BY <1>2, <2>2, <3>1, <3>3
    <3> QED
      BY <3>2, <3>3
  <2> QED
    BY <2>1, <2>2 DEF NoSilentLoss, RoutedTo
<1> QED
  BY <1>1, <1>4, <1>5, <1>6, TickOverDInv DEF DInv

(* A dropped connection only takes a tick from the live ones. *)
LEMMA LoseConnectionDInv ==
  ASSUME DInv, NEW d \in Dispatchers, LoseConnection(d)
  PROVE  DInv'
<1>1. /\ lost' = lost \cup {d} /\ aborts' = aborts + 1 /\ aborts < MaxAborts
      /\ UNCHANGED <<published, dispatched, attempts, letters, claimed, okRows, failedRows,
                     handled, runs>>
  BY DEF LoseConnection, rows
<1>2. TypeOK'
  BY <1>1 DEF DInv, TypeOK
<1>3. LiveClaims' /\ VerdictsOnClaims'
  BY <1>1 DEF DInv, LiveClaims, VerdictsOnClaims
<1>4. NoSilentLoss'
  BY <1>1 DEF DInv, NoSilentLoss, RoutedTo
<1>5. HandlersRan'
  BY <1>1 DEF DInv, HandlersRan, Unprocessed, InHand, RoutedTo
<1> QED
  BY <1>2, <1>3, <1>4, <1>5 DEF DInv

(* A rollback forgets the tick and keeps what its handlers did. *)
LEMMA AbortDInv ==
  ASSUME DInv, NEW d \in Dispatchers, Abort(d)
  PROVE  DInv'
<1>1. /\ TickOver(d)
      /\ aborts' = (IF d \in lost THEN aborts ELSE aborts + 1)
      /\ d \notin lost => aborts < MaxAborts
      /\ UNCHANGED <<published, dispatched, attempts, letters, runs>>
  BY DEF Abort, rows
<1>2. TypeOK'
  <2>1. aborts' \in 0 .. MaxAborts
    BY <1>1 DEF DInv, TypeOK
  <2> QED
    BY <1>1, <2>1 DEF TickOver, DInv, TypeOK
<1>3. LiveClaims'
  BY <1>1, TickOverDInv DEF DInv, LiveClaims
<1>4. NoSilentLoss'
  BY <1>1 DEF DInv, NoSilentLoss, RoutedTo
<1> QED
  BY <1>1, <1>2, <1>3, <1>4, TickOverDInv DEF DInv

(* Every step preserves the invariant. *)
LEMMA NextDInv == DInv /\ [Next]_vars => DInv'
<1> SUFFICES ASSUME DInv, [Next]_vars PROVE DInv'
  OBVIOUS
<1>1. ASSUME NEW e \in Events, Publish(e) PROVE DInv'
  BY <1>1, PublishDInv
<1>2. ASSUME NEW d \in Dispatchers, Claim(d) PROVE DInv'
  BY <1>2, ClaimDInv
<1>3. ASSUME NEW d \in Dispatchers, Commit(d) PROVE DInv'
  BY <1>3, CommitDInv
<1>4. ASSUME NEW d \in Dispatchers, LoseConnection(d) PROVE DInv'
  BY <1>4, LoseConnectionDInv
<1>5. ASSUME NEW d \in Dispatchers, Abort(d) PROVE DInv'
  BY <1>5, AbortDInv
<1>6. ASSUME NEW d \in Dispatchers, NEW e \in Events, HandlerReturns(d, e) PROVE DInv'
  BY <1>6, ReturnsDInv
<1>7. ASSUME NEW d \in Dispatchers, NEW e \in Events, RowDelivered(d, e) PROVE DInv'
  BY <1>7, DeliveredDInv
<1>8. ASSUME NEW d \in Dispatchers, NEW e \in Events, NEW effect \in BOOLEAN,
             HandlerThrows(d, e, effect)
      PROVE DInv'
  BY <1>8, ThrowsDInv
<1>9. CASE UNCHANGED vars
  <2>1. UNCHANGED <<published, dispatched, attempts, letters, claimed, okRows, failedRows,
                    handled, lost, runs, aborts>>
    BY <1>9 DEF vars, rows, ticks
  <2> QED
    BY <2>1 DEF DInv, TypeOK, LiveClaims, VerdictsOnClaims, NoSilentLoss, HandlersRan,
                Unprocessed, InHand, RoutedTo
<1> QED
  BY <1>1, <1>2, <1>3, <1>4, <1>5, <1>6, <1>7, <1>8, <1>9 DEF Next

(* The inductive invariant holds in every reachable state. *)
THEOREM SpecDInv == Spec => []DInv
<1> QED
  BY InitDInv, NextDInv, PTL DEF Spec

(* The queue, the dead letters and the ticks are well-formed, and no row is  *)
(* attempted more than MAX_ATTEMPTS times (outbox-dispatcher.ts 57-114).     *)
THEOREM OutboxTypeCorrect == Spec => []TypeOK
<1>1. DInv => TypeOK
  BY DEF DInv
<1> QED
  BY <1>1, SpecDInv, PTL

(* No committed event leaves the queue without every handler it routes to,   *)
(* or one dead letter after the last attempt (outbox-dispatcher.ts 69-106).  *)
THEOREM NothingLostSilently == Spec => []NoSilentLoss
<1>1. DInv => NoSilentLoss
  BY DEF DInv
<1> QED
  BY <1>1, SpecDInv, PTL

(* A settled row is never written again: a tick in flight when it settled    *)
(* does not hold it, or has lost its connection and cannot commit            *)
(* (outbox-dispatcher.ts 64-73).                                             *)
THEOREM SettledStaysSettled == Spec => SettledIsFinal
<1> DEFINE Final == \A e \in dispatched :
               e \in dispatched' /\ attempts'[e] = attempts[e] /\ letters'[e] = letters[e]
<1>1. ASSUME DInv, [Next]_vars PROVE [Final]_vars
  <2>1. ASSUME NEW d \in Dispatchers, Commit(d) PROVE Final
    <3>1. claimed[d] \cap dispatched = {} /\ Buried(d) \subseteq claimed[d]
      BY <1>1, <2>1 DEF Commit, Buried, DInv, LiveClaims, VerdictsOnClaims
    <3> QED
      BY <1>1, <2>1, <3>1 DEF Commit, DInv, TypeOK
  <2>2. CASE UNCHANGED rows
    BY <2>2 DEF rows
  <2>3. CASE UNCHANGED <<dispatched, attempts, letters>>
    BY <2>3
  <2> QED
    BY <1>1, <2>1, <2>2, <2>3
    DEF Next, Publish, Claim, LoseConnection, Abort, HandlerReturns, RowDelivered, HandlerThrows,
        vars
<1> QED
  BY <1>1, SpecDInv, PTL DEF Spec, SettledIsFinal

-----------------------------------------------------------------------------
(* The tick of d has still to hand row e to handler h. *)
Owes(d, e, h) ==
  /\ e \in Unprocessed(d)
  /\ \E i \in DOMAIN Route[e] : Route[e][i] = h /\ (InHand(d, e) => i > handled[d])

Debtors(e, h) == {d \in Dispatchers : Owes(d, e, h)}

Budget(e) == attempts[e] + aborts + InFlight(e)

(* The runs there have been and those still owed, the ones of ticks that     *)
(* have lost their connection included, are within the bound on repeats.     *)
Ledger ==
  /\ \A e \in Events, h \in Handlers : runs[e][h] + Cardinality(Debtors(e, h)) <= Budget(e)
  /\ \A d \in lost : claimed[d] # {}

(* What is owed is a number, and it goes with the set of debtors. *)
LEMMA DebtorsCount ==
  ASSUME NEW e, NEW h
  PROVE  /\ IsFiniteSet(Debtors(e, h)) /\ Cardinality(Debtors(e, h)) \in Nat
         /\ \A S \in SUBSET Debtors(e, h) :
              Cardinality(S) \in Nat /\ Cardinality(S) <= Cardinality(Debtors(e, h))
         /\ \A d, S : S \subseteq Debtors(e, h) \cup {d} =>
              Cardinality(S) \in Nat /\ Cardinality(S) <= Cardinality(Debtors(e, h)) + 1
         /\ \A d \in Debtors(e, h) : \A S \in SUBSET (Debtors(e, h) \ {d}) :
              Cardinality(S) \in Nat /\ Cardinality(S) + 1 <= Cardinality(Debtors(e, h))
<1> DEFINE D == Debtors(e, h)
<1>1. IsFiniteSet(D) /\ Cardinality(D) \in Nat
  BY FS_Subset, FS_CardinalityType DEF Debtors
<1>2. ASSUME NEW T, IsFiniteSet(T), NEW S \in SUBSET T
      PROVE  Cardinality(S) \in Nat /\ Cardinality(S) <= Cardinality(T) /\ Cardinality(T) \in Nat
  BY <1>2, FS_Subset, FS_CardinalityType
<1>3. ASSUME NEW d, NEW S, S \subseteq D \cup {d}
      PROVE  Cardinality(S) \in Nat /\ Cardinality(S) <= Cardinality(D) + 1
  <2>1. /\ IsFiniteSet(D \cup {d})
        /\ Cardinality(D \cup {d}) = IF d \in D THEN Cardinality(D) ELSE Cardinality(D) + 1
    BY <1>1, FS_AddElement
  <2>2. Cardinality(D \cup {d}) <= Cardinality(D) + 1
    BY <1>1, <2>1
  <2>3. Cardinality(S) \in Nat /\ Cardinality(S) <= Cardinality(D \cup {d})
        /\ Cardinality(D \cup {d}) \in Nat
    BY <1>2, <1>3, <2>1
  <2> QED
    BY <1>1, <2>2, <2>3
<1>4. ASSUME NEW d \in D, NEW S \in SUBSET (D \ {d})
      PROVE  Cardinality(S) \in Nat /\ Cardinality(S) + 1 <= Cardinality(D)
  <2>1. IsFiniteSet(D \ {d}) /\ Cardinality(D \ {d}) = Cardinality(D) - 1
    BY <1>1, FS_RemoveElement
  <2> QED
    BY <1>1, <1>2, <2>1
<1> HIDE DEF D
<1>5. \A S \in SUBSET D : Cardinality(S) \in Nat /\ Cardinality(S) <= Cardinality(D)
  BY <1>1, <1>2
<1> QED
  BY <1>1, <1>5, <1>3, <1>4 DEF D

(* A step that runs nothing and adds no debtor keeps the ledger when the     *)
(* budget does not shrink.                                                   *)
LEMMA LedgerKept ==
  ASSUME DInv, DInv', Ledger, NEW e \in Events, NEW h \in Handlers,
         runs'[e][h] = runs[e][h], Debtors(e, h)' \subseteq Debtors(e, h),
         Budget(e)' >= Budget(e)
  PROVE  runs'[e][h] + Cardinality(Debtors(e, h)') <= Budget(e)'
<1>1. runs[e][h] \in Nat /\ Budget(e) \in Nat /\ Budget(e)' \in Nat
  <2>1. attempts[e] \in Nat /\ aborts \in Nat /\ attempts'[e] \in Nat /\ aborts' \in Nat
    BY DEF DInv, TypeOK
  <2>2. InFlight(e) \in Nat /\ InFlight(e)' \in Nat
    BY DEF InFlight
  <2>3. runs[e][h] \in Nat
    BY DEF DInv, TypeOK
  <2> QED
    BY <2>1, <2>2, <2>3, SMTT(30) DEF Budget
<1>2. /\ Cardinality(Debtors(e, h)) \in Nat /\ Cardinality(Debtors(e, h)') \in Nat
      /\ Cardinality(Debtors(e, h)') <= Cardinality(Debtors(e, h))
  BY DebtorsCount
<1>3. runs[e][h] + Cardinality(Debtors(e, h)) <= Budget(e)
  BY DEF Ledger
<1> QED
  BY <1>1, <1>2, <1>3

(* A tick that runs a handler it owed keeps the ledger. *)
LEMMA LedgerSpent ==
  ASSUME DInv, DInv', Ledger, NEW e \in Events, NEW h \in Handlers, NEW d \in Debtors(e, h),
         runs'[e][h] = runs[e][h] + 1, Debtors(e, h)' \subseteq Debtors(e, h) \ {d},
         Budget(e)' = Budget(e)
  PROVE  runs'[e][h] + Cardinality(Debtors(e, h)') <= Budget(e)'
<1>1. runs[e][h] \in Nat /\ Budget(e) \in Nat
  <2>1. attempts[e] \in Nat /\ aborts \in Nat /\ runs[e][h] \in Nat
    BY DEF DInv, TypeOK
  <2> QED
    BY <2>1 DEF Budget, InFlight
<1>2. /\ Cardinality(Debtors(e, h)) \in Nat /\ Cardinality(Debtors(e, h)') \in Nat
      /\ Cardinality(Debtors(e, h)') + 1 <= Cardinality(Debtors(e, h))
  BY DebtorsCount
<1>3. runs[e][h] + Cardinality(Debtors(e, h)) <= Budget(e)
  BY DEF Ledger
<1> QED
  BY <1>1, <1>2, <1>3

(* A claim lends the row one run of each of its handlers. *)
LEMMA LedgerLent ==
  ASSUME DInv, DInv', Ledger, NEW e \in Events, NEW h \in Handlers, NEW d,
         runs'[e][h] = runs[e][h], Debtors(e, h)' \subseteq Debtors(e, h) \cup {d},
         Budget(e)' = Budget(e) + 1
  PROVE  runs'[e][h] + Cardinality(Debtors(e, h)') <= Budget(e)'
<1>1. runs[e][h] \in Nat /\ Budget(e) \in Nat
  <2>1. attempts[e] \in Nat /\ aborts \in Nat /\ runs[e][h] \in Nat
    BY DEF DInv, TypeOK
  <2> QED
    BY <2>1 DEF Budget, InFlight
<1>2. /\ Cardinality(Debtors(e, h)) \in Nat /\ Cardinality(Debtors(e, h)') \in Nat
      /\ Cardinality(Debtors(e, h)') <= Cardinality(Debtors(e, h)) + 1
  BY DebtorsCount
<1>3. runs[e][h] + Cardinality(Debtors(e, h)) <= Budget(e)
  BY DEF Ledger
<1> QED
  BY <1>1, <1>2, <1>3

(* Initially nothing has run and nothing is owed. *)
LEMMA InitLedger == Init => Ledger
<1> SUFFICES ASSUME Init PROVE Ledger
  OBVIOUS
<1>1. \A e, h : Debtors(e, h) = {}
  BY DEF Init, Debtors, Owes, Unprocessed
<1>2. \A e \in Events, h \in Handlers : runs[e][h] = 0 /\ attempts[e] = 0 /\ aborts = 0
  BY DEF Init
<1>3. \A e : InFlight(e) \in {0, 1}
  BY DEF InFlight
<1>4. Cardinality({}) = 0
  BY FS_EmptySet
<1>5. \A e \in Events, h \in Handlers : runs[e][h] + Cardinality(Debtors(e, h)) <= Budget(e)
  <2> SUFFICES ASSUME NEW e \in Events, NEW h \in Handlers
               PROVE  runs[e][h] + Cardinality(Debtors(e, h)) <= Budget(e)
    OBVIOUS
  <2>1. Cardinality(Debtors(e, h)) = 0
    BY <1>1, <1>4
  <2>2. runs[e][h] = 0 /\ Budget(e) \in {0, 1}
    BY <1>2, <1>3, SMTT(30) DEF Budget
  <2> QED
    BY <2>1, <2>2
<1>6. lost = {}
  BY DEF Init
<1> QED
  BY <1>5, <1>6 DEF Ledger

(* Publishing a row runs no handler and is in nobody's tick. *)
LEMMA PublishLedger ==
  ASSUME DInv, DInv', Ledger, NEW f \in Events, Publish(f)
  PROVE  Ledger'
<1>1. UNCHANGED <<attempts, claimed, okRows, failedRows, handled, lost, runs, aborts>>
  BY DEF Publish, ticks
<1>2. \A e, h : Debtors(e, h)' = Debtors(e, h) /\ Budget(e)' = Budget(e)
  BY <1>1 DEF Debtors, Owes, InHand, Unprocessed, Budget, InFlight
<1> QED
  BY <1>1, <1>2 DEF Ledger

(* A live tick that claims a row is the only one in flight with it. *)
LEMMA ClaimLedger ==
  ASSUME DInv, DInv', Ledger, NEW d \in Dispatchers, Claim(d)
  PROVE  Ledger'
<1>1. /\ claimed[d] = {} /\ d \notin lost
      /\ \A c \in Dispatchers : claimed'[c] = IF c = d THEN FirstOf(Claimable) ELSE claimed[c]
      /\ UNCHANGED <<attempts, okRows, failedRows, handled, lost, runs, aborts>>
      /\ FirstOf(Claimable) \subseteq Claimable
  <2>1. FirstOf(Claimable) \subseteq Claimable
    BY DEF FirstOf
  <2> QED
    BY <2>1 DEF Claim, rows, Ledger, DInv, TypeOK
<1>2. \A c \in lost : claimed'[c] # {}
  BY <1>1 DEF Ledger, DInv, TypeOK
<1>3. \A c \in Dispatchers : c # d => Unprocessed(c)' = Unprocessed(c)
  BY <1>1 DEF Unprocessed
<1>4. \A e, h : \A c \in Dispatchers : c # d /\ Owes(c, e, h)' => Owes(c, e, h)
  BY <1>1, <1>3 DEF Owes, InHand
<1>5. ASSUME NEW e \in Events, NEW h \in Handlers
      PROVE  runs'[e][h] + Cardinality(Debtors(e, h)') <= Budget(e)'
  <2>1. CASE e \in FirstOf(Claimable)
    <3>1. InFlight(e) = 0 /\ InFlight(e)' = 1
      BY <1>1, <2>1, ZenonT(60) DEF InFlight, Claimable, Locked
    <3>2. Budget(e)' = Budget(e) + 1
      BY <1>1, <3>1 DEF Budget, DInv, TypeOK
    <3>3. Debtors(e, h)' \subseteq Debtors(e, h) \cup {d}
      BY <1>4 DEF Debtors
    <3> QED
      BY <1>1, <3>2, <3>3, LedgerLent
  <2>2. CASE e \notin FirstOf(Claimable)
    <3>1. InFlight(e)' = InFlight(e)
      BY <1>1, <2>2 DEF InFlight
    <3>2. Budget(e)' = Budget(e) /\ Budget(e) \in Nat
      BY <1>1, <3>1 DEF Budget, InFlight, DInv, TypeOK
    <3>3. ~Owes(d, e, h)'
      BY <1>1, <2>2 DEF Owes, Unprocessed
    <3>4. Debtors(e, h)' \subseteq Debtors(e, h)
      BY <1>4, <3>3 DEF Debtors
    <3> QED
      BY <1>1, <3>2, <3>4, LedgerKept
  <2> QED
    BY <2>1, <2>2
<1> QED
  BY <1>1, <1>2, <1>5 DEF Ledger

(* A handler of the row in hand was owed, and is owed no longer. *)
LEMMA ReturnsLedger ==
  ASSUME DInv, DInv', Ledger, NEW d \in Dispatchers, NEW f \in Events, HandlerReturns(d, f)
  PROVE  Ledger'
<1>1. /\ InHand(d, f) /\ HasNextHandler(d, f)
      /\ \A c \in Dispatchers : handled'[c] = IF c = d THEN handled[c] + 1 ELSE handled[c]
      /\ handled[d] \in Nat
      /\ runs' = Ran(f, NextHandler(d, f))
      /\ UNCHANGED <<attempts, claimed, okRows, failedRows, lost, aborts>>
  BY DEF HandlerReturns, rows, DInv, TypeOK
<1>2. \A c : Unprocessed(c)' = Unprocessed(c)
  BY <1>1 DEF Unprocessed
<1>3. \A c, e : InHand(c, e)' <=> InHand(c, e)
  BY <1>2 DEF InHand
<1>4. \A e, h : \A c \in Dispatchers : Owes(c, e, h)' => Owes(c, e, h)
  <2> SUFFICES ASSUME NEW e, NEW h, NEW c \in Dispatchers, Owes(c, e, h)'
               PROVE  Owes(c, e, h)
    OBVIOUS
  <2>1. e \in Unprocessed(c) /\ e \in Events
    BY <1>1, <1>2 DEF Owes, Unprocessed, DInv, TypeOK
  <2>2. PICK i \in DOMAIN Route[e] : Route[e][i] = h /\ (InHand(c, e)' => i > handled'[c])
    BY DEF Owes
  <2>3. i \in Nat
    BY <2>1
  <2>4. InHand(c, e) => i > handled[c]
    BY <1>1, <1>3, <2>2, <2>3
  <2> QED
    BY <2>1, <2>2, <2>4 DEF Owes
<1>5. \A e \in Events : Budget(e)' = Budget(e) /\ Budget(e) \in Nat
  BY <1>1, SMTT(30) DEF Budget, InFlight, DInv, TypeOK
<1>6. ASSUME NEW e \in Events, NEW h \in Handlers
      PROVE  runs'[e][h] + Cardinality(Debtors(e, h)') <= Budget(e)'
  <2>1. Debtors(e, h)' \subseteq Debtors(e, h)
    BY <1>4 DEF Debtors
  <2>2. CASE e = f /\ h = NextHandler(d, f)
    <3>1. runs'[e][h] = runs[e][h] + 1
      BY <1>1, <2>2, RanMore
    <3>2. handled[d] + 1 \in DOMAIN Route[f]
      BY <1>1, RanMore
    <3>3. Owes(d, e, h)
      BY <1>1, <2>2, <3>2 DEF Owes, NextHandler, InHand
    <3>4. ~Owes(d, e, h)'
      <4>1. SUFFICES ASSUME NEW i \in DOMAIN Route[f], Route[f][i] = h, i > handled'[d]
                     PROVE  FALSE
        BY <1>1, <1>3, <2>2 DEF Owes
      <4>2. i = handled[d] + 1
        BY <2>2, <3>2, <4>1 DEF NextHandler
      <4> QED
        BY <1>1, <4>1, <4>2
    <3>5. d \in Debtors(e, h) /\ Debtors(e, h)' \subseteq Debtors(e, h) \ {d}
      BY <2>1, <3>3, <3>4 DEF Debtors
    <3> QED
      BY <1>5, <3>1, <3>5, LedgerSpent
  <2>3. CASE ~(e = f /\ h = NextHandler(d, f))
    <3>1. runs'[e][h] = runs[e][h]
      BY <1>1, <2>3, RanMore
    <3> QED
      BY <1>5, <2>1, <3>1, LedgerKept
  <2> QED
    BY <2>2, <2>3
<1> QED
  BY <1>1, <1>6 DEF Ledger

(* A verdict on the row in hand ends what was owed for it. *)
LEMMA VerdictOwes ==
  ASSUME DInv, NEW d \in Dispatchers, NEW f \in Events, InHand(d, f),
         \A c \in Dispatchers : c # d => Unprocessed(c)' = Unprocessed(c),
         \A c \in Dispatchers : handled'[c] = IF c = d THEN 0 ELSE handled[c],
         Unprocessed(d)' = Unprocessed(d) \ {f}
  PROVE  \A e, h : /\ Debtors(e, h)' \subseteq Debtors(e, h)
                   /\ e = f => Debtors(e, h)' \subseteq Debtors(e, h) \ {d}
<1>1. \A e, h : \A c \in Dispatchers : c # d /\ Owes(c, e, h)' => Owes(c, e, h)
  BY DEF Owes, InHand
<1>2. ~ \E h : Owes(d, f, h)'
  BY DEF Owes
<1>3. ASSUME NEW e, NEW h, e # f, Owes(d, e, h)'
      PROVE  Owes(d, e, h)
  <2>1. e \in Unprocessed(d) /\ e \in Events
    BY <1>3 DEF Owes, Unprocessed, DInv, TypeOK
  <2>2. ~InHand(d, e)
    BY <1>3, <2>1 DEF InHand, Events
  <2> QED
    BY <1>3, <2>1, <2>2 DEF Owes
<1> QED
  BY <1>1, <1>2, <1>3 DEF Debtors

(* A row found delivered owes no run any more. *)
LEMMA DeliveredLedger ==
  ASSUME DInv, DInv', Ledger, NEW d \in Dispatchers, NEW f \in Events, RowDelivered(d, f)
  PROVE  Ledger'
<1>1. /\ InHand(d, f) /\ f \in Unprocessed(d)
      /\ \A c \in Dispatchers : /\ handled'[c] = IF c = d THEN 0 ELSE handled[c]
                               /\ okRows'[c] = IF c = d THEN okRows[c] \cup {f} ELSE okRows[c]
      /\ UNCHANGED <<attempts, claimed, failedRows, lost, runs, aborts>>
  BY DEF RowDelivered, InHand, rows, DInv, TypeOK
<1>2. \A e, h : Debtors(e, h)' \subseteq Debtors(e, h)
  <2>1. /\ \A c \in Dispatchers : c # d => Unprocessed(c)' = Unprocessed(c)
        /\ Unprocessed(d)' = Unprocessed(d) \ {f}
    BY <1>1 DEF Unprocessed
  <2> QED
    BY <1>1, <2>1, VerdictOwes
<1>3. \A e \in Events : Budget(e)' = Budget(e) /\ Budget(e) \in Nat
  BY <1>1 DEF Budget, InFlight, DInv, TypeOK
<1>4. ASSUME NEW e \in Events, NEW h \in Handlers
      PROVE  runs'[e][h] + Cardinality(Debtors(e, h)') <= Budget(e)'
  BY <1>1, <1>2, <1>3, LedgerKept
<1> QED
  BY <1>1, <1>4 DEF Ledger

(* The handler that throws was owed, whether it took effect or not. *)
LEMMA ThrowsLedger ==
  ASSUME DInv, DInv', Ledger, NEW d \in Dispatchers, NEW f \in Events, NEW effect \in BOOLEAN,
         HandlerThrows(d, f, effect)
  PROVE  Ledger'
<1>1. /\ InHand(d, f) /\ f \in Unprocessed(d) /\ HasNextHandler(d, f)
      /\ \A c \in Dispatchers :
           /\ handled'[c] = IF c = d THEN 0 ELSE handled[c]
           /\ failedRows'[c] = IF c = d THEN failedRows[c] \cup {f} ELSE failedRows[c]
      /\ runs' = runs \/ runs' = Ran(f, NextHandler(d, f))
      /\ UNCHANGED <<attempts, claimed, okRows, lost, aborts>>
  BY DEF HandlerThrows, InHand, rows, DInv, TypeOK
<1>2. \A e, h : /\ Debtors(e, h)' \subseteq Debtors(e, h)
                /\ e = f => Debtors(e, h)' \subseteq Debtors(e, h) \ {d}
  <2>1. /\ \A c \in Dispatchers : c # d => Unprocessed(c)' = Unprocessed(c)
        /\ Unprocessed(d)' = Unprocessed(d) \ {f}
    BY <1>1 DEF Unprocessed
  <2> QED
    BY <1>1, <2>1, VerdictOwes
<1>3. \A e \in Events : Budget(e)' = Budget(e) /\ Budget(e) \in Nat
  BY <1>1, SMTT(30) DEF Budget, InFlight, DInv, TypeOK
<1>4. ASSUME NEW e \in Events, NEW h \in Handlers
      PROVE  runs'[e][h] + Cardinality(Debtors(e, h)') <= Budget(e)'
  <2>1. CASE runs'[e][h] = runs[e][h]
    BY <1>2, <1>3, <2>1, LedgerKept
  <2>2. CASE runs'[e][h] # runs[e][h]
    <3>0. runs' = Ran(f, NextHandler(d, f)) /\ handled[d] \in Nat
      BY <1>1, <2>2 DEF DInv, TypeOK
    <3>1. /\ e = f /\ h = NextHandler(d, f) /\ runs'[e][h] = runs[e][h] + 1
          /\ handled[d] + 1 \in DOMAIN Route[f] /\ handled[d] \in Nat
      BY <1>1, <2>2, <3>0, RanMore
    <3>2. Owes(d, e, h)
      BY <1>1, <3>1 DEF Owes, NextHandler
    <3>3. d \in Debtors(e, h) /\ Debtors(e, h)' \subseteq Debtors(e, h) \ {d}
      BY <1>2, <3>1, <3>2 DEF Debtors
    <3> QED
      BY <1>3, <3>1, <3>3, LedgerSpent
  <2> QED
    BY <2>1, <2>2
<1> QED
  BY <1>1, <1>4 DEF Ledger

(* The end of a tick cancels what it still owed, and nothing else. *)
LEMMA TickOverOwes ==
  ASSUME DInv, NEW d \in Dispatchers, TickOver(d), UNCHANGED runs
  PROVE  \A e, h : Debtors(e, h)' \subseteq Debtors(e, h)
<1>1. \A c \in Dispatchers : Unprocessed(c)' = IF c = d THEN {} ELSE Unprocessed(c)
  BY TickOverDInv DEF Unprocessed
<1>2. \A c \in Dispatchers : c # d => handled'[c] = handled[c]
  BY DEF TickOver, DInv, TypeOK
<1>3. \A e, h : \A c \in Dispatchers : Owes(c, e, h)' => Owes(c, e, h)
  BY <1>1, <1>2 DEF Owes, InHand
<1> QED
  BY <1>3 DEF Debtors

(* The commit turns the run in flight of each of its rows into a counted    *)
(* attempt.                                                                 *)
LEMMA CommitLedger ==
  ASSUME DInv, DInv', Ledger, NEW d \in Dispatchers, Commit(d)
  PROVE  Ledger'
<1>1. /\ TickOver(d) /\ d \notin lost
      /\ UNCHANGED <<runs, aborts>>
      /\ \A e \in Events :
            attempts'[e] = IF e \in claimed[d] THEN attempts[e] + 1 ELSE attempts[e]
  BY DEF Commit
<1>2. /\ \A c \in Dispatchers : claimed'[c] = IF c = d THEN {} ELSE claimed[c]
      /\ lost' = lost \ {d}
  BY <1>1, TickOverDInv
<1>3. ASSUME NEW e \in Events PROVE Budget(e)' >= Budget(e)
  <2>1. attempts[e] \in Nat /\ attempts'[e] \in Nat /\ aborts \in Nat
    BY DEF DInv, TypeOK
  <2>2. InFlight(e) \in {0, 1} /\ InFlight(e)' \in {0, 1}
    BY DEF InFlight
  <2>3. CASE e \in claimed[d]
    BY <1>1, <2>1, <2>2, <2>3, SMTT(30) DEF Budget
  <2>4. CASE e \notin claimed[d]
    <3>1. InFlight(e)' = InFlight(e)
      BY <1>1, <1>2, <2>4 DEF InFlight
    <3> QED
      BY <1>1, <2>1, <2>2, <2>4, <3>1 DEF Budget
  <2> QED
    BY <2>3, <2>4
<1>4. ASSUME NEW e \in Events, NEW h \in Handlers
      PROVE  runs'[e][h] + Cardinality(Debtors(e, h)') <= Budget(e)'
  BY <1>1, <1>3, TickOverOwes, LedgerKept
<1>5. \A c \in lost' : claimed'[c] # {}
  BY <1>2 DEF Ledger, DInv, TypeOK
<1> QED
  BY <1>4, <1>5 DEF Ledger

(* A dropped connection turns the run in flight into a lost tick: the bound *)
(* does not shrink, and what the tick owes it owes still.                   *)
LEMMA LoseConnectionLedger ==
  ASSUME DInv, DInv', Ledger, NEW d \in Dispatchers, LoseConnection(d)
  PROVE  Ledger'
<1>1. /\ claimed[d] # {} /\ lost' = lost \cup {d} /\ aborts' = aborts + 1
      /\ UNCHANGED <<attempts, claimed, okRows, failedRows, handled, runs>>
  BY DEF LoseConnection, rows
<1>2. \A e, h : Debtors(e, h)' = Debtors(e, h)
  BY <1>1 DEF Debtors, Owes, InHand, Unprocessed
<1>3. ASSUME NEW e \in Events PROVE Budget(e)' >= Budget(e)
  <2>1. attempts[e] \in Nat /\ aborts \in Nat
    BY DEF DInv, TypeOK
  <2>2. InFlight(e) \in {0, 1} /\ InFlight(e)' \in {0, 1}
    BY DEF InFlight
  <2> QED
    BY <1>1, <2>1, <2>2 DEF Budget
<1>4. ASSUME NEW e \in Events, NEW h \in Handlers
      PROVE  runs'[e][h] + Cardinality(Debtors(e, h)') <= Budget(e)'
  BY <1>1, <1>2, <1>3, LedgerKept
<1> QED
  BY <1>1, <1>4 DEF Ledger

(* A tick that rolls back counts as lost, once: it was live, or it had lost *)
(* its connection and is counted already.                                   *)
LEMMA AbortLedger ==
  ASSUME DInv, DInv', Ledger, NEW d \in Dispatchers, Abort(d)
  PROVE  Ledger'
<1>1. /\ TickOver(d)
      /\ aborts' = IF d \in lost THEN aborts ELSE aborts + 1
      /\ UNCHANGED <<attempts, runs>>
  BY DEF Abort, rows
<1>2. /\ \A c \in Dispatchers : claimed'[c] = IF c = d THEN {} ELSE claimed[c]
      /\ lost' = lost \ {d}
  BY <1>1, TickOverDInv
<1>3. ASSUME NEW e \in Events PROVE Budget(e)' >= Budget(e)
  <2>1. attempts[e] \in Nat /\ aborts \in Nat
    BY DEF DInv, TypeOK
  <2>2. InFlight(e) \in {0, 1} /\ InFlight(e)' \in {0, 1}
    BY DEF InFlight
  <2>3. CASE d \in lost
    <3>1. InFlight(e)' = InFlight(e)
      BY <1>2, <2>3 DEF InFlight
    <3> QED
      BY <1>1, <2>1, <2>2, <2>3, <3>1 DEF Budget
  <2>4. CASE d \notin lost
    BY <1>1, <2>1, <2>2, <2>4 DEF Budget
  <2> QED
    BY <2>3, <2>4
<1>4. ASSUME NEW e \in Events, NEW h \in Handlers
      PROVE  runs'[e][h] + Cardinality(Debtors(e, h)') <= Budget(e)'
  BY <1>1, <1>3, TickOverOwes, LedgerKept
<1> QED
  BY <1>2, <1>4 DEF Ledger, DInv, TypeOK

(* Every step keeps the ledger. *)
LEMMA NextLedger == DInv /\ DInv' /\ Ledger /\ [Next]_vars => Ledger'
<1> SUFFICES ASSUME DInv, DInv', Ledger, [Next]_vars PROVE Ledger'
  OBVIOUS
<1>1. CASE UNCHANGED vars
  <2>1. UNCHANGED <<attempts, claimed, okRows, failedRows, handled, lost, runs, aborts>>
    BY <1>1 DEF vars, rows, ticks
  <2>2. \A e, h : Debtors(e, h)' = Debtors(e, h) /\ Budget(e)' = Budget(e)
    BY <2>1 DEF Debtors, Owes, InHand, Unprocessed, Budget, InFlight
  <2> QED
    BY <2>1, <2>2 DEF Ledger
<1>2. CASE \E e \in Events : Publish(e)
  BY <1>2, PublishLedger
<1>3. CASE \E d \in Dispatchers : Claim(d) \/ Commit(d) \/ LoseConnection(d) \/ Abort(d)
  BY <1>3, ClaimLedger, CommitLedger, LoseConnectionLedger, AbortLedger
<1>4. CASE \E d \in Dispatchers, e \in Events :
              \/ HandlerReturns(d, e)
              \/ RowDelivered(d, e)
              \/ \E effect \in BOOLEAN : HandlerThrows(d, e, effect)
  BY <1>4, ReturnsLedger, DeliveredLedger, ThrowsLedger
<1> QED
  BY <1>1, <1>2, <1>3, <1>4 DEF Next

(* A handler takes effect for an event at most once for each counted        *)
(* attempt, each lost tick and the live tick that has the row, whatever the *)
(* number of dispatchers: tick() claims with FOR UPDATE SKIP LOCKED.        *)
THEOREM RepeatsBounded == Spec => []RepeatsAreAccountedFor
<1>1. DInv /\ Ledger => RepeatsAreAccountedFor
  <2> SUFFICES ASSUME DInv, Ledger, NEW e \in Events, NEW h \in Handlers
               PROVE  runs[e][h] <= Budget(e)
    BY DEF RepeatsAreAccountedFor, Budget
  <2>1. Cardinality(Debtors(e, h)) \in Nat
    BY DebtorsCount
  <2>2. runs[e][h] \in Nat /\ attempts[e] \in Nat /\ aborts \in Nat
    BY DEF DInv, TypeOK
  <2>3. Budget(e) \in Nat
    BY <2>2 DEF Budget, InFlight
  <2> QED
    BY <2>1, <2>2, <2>3 DEF Ledger
<1> QED
  BY <1>1, SpecDInv, InitLedger, NextLedger, PTL DEF Spec

-----------------------------------------------------------------------------
(* The promise of EventDelivery: how far an event has come, and the         *)
(* handlers that have run for it.                                           *)
Standing(e) ==
  CASE e \notin published -> "unpublished"
    [] e \in published \ dispatched -> "queued"
    [] e \in dispatched /\ letters[e] = 0 -> "delivered"
    [] OTHER -> "buried"

HasRun(e) == {h \in Handlers : runs[e][h] > 0}

(* A step that leaves the rows and the runs alone is a stutter of the       *)
(* promise.                                                                 *)
LEMMA SameRowsStutter ==
  ASSUME UNCHANGED <<published, dispatched, letters, runs>>
  PROVE  UNCHANGED Delivery!vars
BY DEF Delivery!vars

(* A handler of the row in hand that takes effect is a run the promise      *)
(* allows: the row is published and the handler is routed to it.            *)
LEMMA RanIsRun ==
  ASSUME DInv, NEW d \in Dispatchers, NEW e \in Events, NEW h \in Handlers,
         h = NextHandler(d, e),
         InHand(d, e), HasNextHandler(d, e), runs' = Ran(e, NextHandler(d, e)),
         UNCHANGED <<published, dispatched, letters>>
  PROVE  Delivery!Run(e, h)
<1>1. /\ h \in RoutedTo(e)
      /\ \A f \in Events, g \in Handlers :
           runs'[f][g] = IF f = e /\ g = h THEN runs[f][g] + 1 ELSE runs[f][g]
  BY RanMore
<1>2. e \in published
  BY DEF InHand, Unprocessed, DInv, TypeOK
<1>3. \A f \in Events, g \in Handlers : runs[f][g] \in Nat
  BY DEF DInv, TypeOK
<1>4. \A f \in Events : HasRun(f)' = IF f = e THEN HasRun(f) \cup {h} ELSE HasRun(f)
  BY <1>1, <1>3 DEF HasRun
<1>5. [f \in Events |-> HasRun(f)]' = [[f \in Events |-> HasRun(f)] EXCEPT ![e] = @ \cup {h}]
  BY <1>4
<1>6. Standing(e) # "unpublished"
  BY <1>2 DEF Standing
<1>7. [f \in Events |-> Standing(f)]' = [f \in Events |-> Standing(f)]
  BY DEF Standing
<1> QED
  BY <1>1, <1>5, <1>6, <1>7 DEF Delivery!Run, Standing, HasRun

(* Publishing commits the row: it is queued. *)
LEMMA PublishIsPublish ==
  ASSUME DInv, NEW e \in Events, Publish(e)
  PROVE  Delivery!Publish(e)
<1>1. /\ e \notin published /\ published' = published \cup {e}
      /\ UNCHANGED <<dispatched, letters, runs>> /\ dispatched \subseteq published
  BY DEF Publish, DInv, TypeOK
<1>2. Standing(e) = "unpublished"
  BY <1>1 DEF Standing
<1>3. \A f \in Events : Standing(f)' = IF f = e THEN "queued" ELSE Standing(f)
  BY <1>1 DEF Standing
<1>4. [f \in Events |-> Standing(f)]' = [[f \in Events |-> Standing(f)] EXCEPT ![e] = "queued"]
  BY <1>3
<1> QED
  BY <1>1, <1>2, <1>4 DEF Delivery!Publish, Standing

(* The commit of a tick settles its delivered and its buried rows, and      *)
(* leaves every other row where it was.                                     *)
LEMMA CommitIsSettle ==
  ASSUME DInv, NEW d \in Dispatchers, Commit(d),
         NEW delivered, delivered = okRows[d], NEW buried, buried = Buried(d)
  PROVE  Delivery!Settle(delivered, buried)
<1>1. /\ okRows[d] \cap Buried(d) = {}
      /\ okRows[d] \cup Buried(d) \subseteq claimed[d]
      /\ claimed[d] \subseteq published \ dispatched
      /\ published \subseteq Events /\ dispatched \subseteq published
      /\ \A e \in claimed[d] : letters[e] = 0
  BY DEF Commit, Buried, DInv, VerdictsOnClaims, LiveClaims, NoSilentLoss, TypeOK
<1>2. /\ \A e \in Events : letters'[e] = IF e \in Buried(d) THEN letters[e] + 1 ELSE letters[e]
      /\ dispatched' = dispatched \cup okRows[d] \cup Buried(d)
      /\ UNCHANGED <<published, runs>>
  BY DEF Commit
<1>3. \A e \in okRows[d] \cup Buried(d) : e \in Events /\ Standing(e) = "queued"
  BY <1>1 DEF Standing
<1>4. \A e \in okRows[d] : HasRun(e) = RoutedTo(e)
  <2>1. \A e \in Events : RoutedTo(e) \subseteq Handlers
    BY DEF RoutedTo
  <2> QED
    BY <1>1, <2>1 DEF DInv, HandlersRan, HasRun
<1>5. \A e \in Events : Standing(e)' = IF e \in okRows[d] THEN "delivered"
                                      ELSE IF e \in Buried(d) THEN "buried" ELSE Standing(e)
  <2> SUFFICES ASSUME NEW e \in Events
               PROVE  Standing(e)' = IF e \in okRows[d] THEN "delivered"
                                     ELSE IF e \in Buried(d) THEN "buried" ELSE Standing(e)
    OBVIOUS
  <2>1. CASE e \in okRows[d]
    BY <1>1, <1>2, <2>1 DEF Standing
  <2>2. CASE e \in Buried(d)
    <3>1. letters'[e] = 1 /\ e \in dispatched' /\ e \in published' /\ e \notin okRows[d]
      BY <1>1, <1>2, <2>2
    <3> QED
      BY <2>2, <3>1 DEF Standing
  <2>3. CASE e \notin okRows[d] /\ e \notin Buried(d)
    BY <1>1, <1>2, <2>3 DEF Standing
  <2> QED
    BY <2>1, <2>2, <2>3
<1>6. [e \in Events |-> Standing(e)]'
        = [e \in Events |-> IF e \in okRows[d] THEN "delivered"
                            ELSE IF e \in Buried(d) THEN "buried"
                            ELSE [f \in Events |-> Standing(f)][e]]
  BY <1>5
<1>7. UNCHANGED [e \in Events |-> HasRun(e)]
  BY <1>2 DEF HasRun
<1> QED
  BY <1>1, <1>3, <1>4, <1>6, <1>7, ZenonT(60) DEF Delivery!Settle, Standing, HasRun

(* Initially nothing is published and no handler has run. *)
LEMMA InitDelivery == Init => Delivery!Init
<1> SUFFICES ASSUME Init PROVE Delivery!Init
  OBVIOUS
<1>1. \A e \in Events : Standing(e) = "unpublished" /\ HasRun(e) = {}
  BY DEF Init, Standing, HasRun
<1> QED
  BY <1>1 DEF Delivery!Init, Standing, HasRun

(* Every step of the dispatchers is a step of the promise or a stutter. *)
LEMMA NextDelivery == DInv /\ [Next]_vars => [Delivery!Next]_(Delivery!vars)
<1> SUFFICES ASSUME DInv, [Next]_vars PROVE Delivery!Next \/ UNCHANGED Delivery!vars
  OBVIOUS
<1>1. CASE UNCHANGED vars
  BY <1>1, SameRowsStutter DEF vars, rows
<1>2. CASE \E e \in Events : Publish(e)
  BY <1>2, PublishIsPublish DEF Delivery!Next
<1>3. ASSUME NEW d \in Dispatchers, Commit(d)
      PROVE  Delivery!Next
  <2>1. okRows[d] \in SUBSET Events /\ Buried(d) \in SUBSET Events
    BY DEF Buried, DInv, TypeOK
  <2>2. PICK delivered \in SUBSET Events, buried \in SUBSET Events :
               delivered = okRows[d] /\ buried = Buried(d)
    BY <2>1
  <2>3. Delivery!Settle(delivered, buried)
    BY <1>3, <2>2, CommitIsSettle
  <2> QED
    BY <2>3 DEF Delivery!Next
<1>4. ASSUME NEW d \in Dispatchers, Claim(d) \/ LoseConnection(d) \/ Abort(d)
      PROVE  UNCHANGED Delivery!vars
  BY <1>4, SameRowsStutter DEF Claim, LoseConnection, Abort, rows
<1>5. ASSUME NEW d \in Dispatchers, NEW e \in Events, RowDelivered(d, e)
      PROVE  UNCHANGED Delivery!vars
  BY <1>5, SameRowsStutter DEF RowDelivered, rows
<1>6. ASSUME NEW d \in Dispatchers, NEW e \in Events, NEW effect \in BOOLEAN,
             HandlerReturns(d, e) \/ HandlerThrows(d, e, effect)
      PROVE  Delivery!Next \/ UNCHANGED Delivery!vars
  <2>1. /\ InHand(d, e) /\ HasNextHandler(d, e)
        /\ runs' = runs \/ runs' = Ran(e, NextHandler(d, e))
        /\ UNCHANGED <<published, dispatched, letters>>
    BY <1>6 DEF HandlerReturns, HandlerThrows, rows
  <2>2. CASE runs' = runs
    BY <2>1, <2>2, SameRowsStutter
  <2>3. CASE runs' = Ran(e, NextHandler(d, e))
    <3>1. PICK h \in Handlers : h = NextHandler(d, e)
      BY <2>1, RanMore
    <3>2. Delivery!Run(e, h)
      BY <2>1, <2>3, <3>1, RanIsRun
    <3> QED
      BY <3>2 DEF Delivery!Next
  <2> QED
    BY <2>1, <2>2, <2>3
<1> QED
  BY <1>1, <1>2, <1>3, <1>4, <1>5, <1>6 DEF Next

(* The dispatchers of outbox-dispatcher.ts keep the promise of              *)
(* EventDelivery, for every number of them and every routing.               *)
THEOREM PromiseKept == Spec => DeliveryPromise
BY InitDelivery, NextDelivery, SpecDInv, PTL DEF Spec, DeliveryPromise, Delivery!Spec

-----------------------------------------------------------------------------
(* The lease of a scheduled job                                            *)

(* A run past its lease is recorded in the history variable, so a task     *)
(* outside it has only runs inside their lease.                            *)
OverrunIsRecorded ==
  \A t \in Tasks, s \in Slots : age[t][s] > Lease => t \in overran

LeaseInv ==
  /\ LeaseTypeOK
  /\ OverrunIsRecorded
  /\ UnexpiredRunIsCovered
  /\ OverlapOnlyAfterOverrun

USE LeaseAssumption, RunBoundAssumption, CrashAssumption, NoTaskAssumption
USE DEF Idle

(* A new lease is granted only once every run in flight has outlived its    *)
(* own: a run inside its lease would still be covered by the row.           *)
LEMMA AcquireFindsOnlyOverruns ==
  ASSUME LeaseInv, LeaseFree
  PROVE  \A u \in Tasks, r \in Slots : Running(u, r) => u \in overran
<1> SUFFICES ASSUME NEW u \in Tasks, NEW r \in Slots, Running(u, r), u \notin overran
             PROVE  FALSE
  OBVIOUS
<1>1. leaseLeft = Lease - age[u][r]
  BY DEF LeaseInv, UnexpiredRunIsCovered
<1>2. age[u][r] <= Lease /\ age[u][r] \in Int
  BY DEF LeaseInv, OverrunIsRecorded, LeaseTypeOK
<1> QED
  BY <1>1, <1>2 DEF LeaseFree, LeaseInv, LeaseTypeOK

(* Initially nothing runs. *)
LEMMA InitLeaseInv == LeaseInit => LeaseInv
BY DEF LeaseInit, LeaseInv, LeaseTypeOK, OverrunIsRecorded, UnexpiredRunIsCovered,
       OverlapOnlyAfterOverrun, Running

(* acquire of an invocation preserves the inductive invariant. *)
LEMMA AcquireIInv ==
  ASSUME LeaseInv, NEW t \in Tasks, NEW s \in Slots, Acquire(t, s)
  PROVE  LeaseInv'
<1>1. \A u \in Tasks, r \in Slots : Running(u, r) => u \in overran
  BY AcquireFindsOnlyOverruns DEF Acquire
<1>2. \A u \in Tasks, r \in Slots :
         age'[u][r] = IF u = t /\ r = s THEN 0 ELSE age[u][r]
  BY DEF Acquire, LeaseInv, LeaseTypeOK
<1>3. LeaseTypeOK'
  BY DEF Acquire, LeaseInv, LeaseTypeOK
<1>4. OverrunIsRecorded'
  BY <1>2 DEF Acquire, LeaseInv, OverrunIsRecorded
<1>5. UnexpiredRunIsCovered'
  BY <1>1, <1>2 DEF Acquire, UnexpiredRunIsCovered, Running
<1>6. OverlapOnlyAfterOverrun'
  BY <1>1, <1>2 DEF Acquire, OverlapOnlyAfterOverrun, Running
<1> QED
  BY <1>3, <1>4, <1>5, <1>6 DEF LeaseInv

(* The end of an invocation, whether its release reached the database or   *)
(* not: the lease is shortened only when the row names the finishing task. *)
LEMMA EndIInv ==
  ASSUME LeaseInv, NEW t \in Tasks, NEW s \in Slots,
         Finish(t, s) \/ FinishUnreleased(t, s)
  PROVE  LeaseInv'
<1>1. /\ Running(t, s)
      /\ holder' = holder /\ crashes' = crashes
      /\ overran' = OverranAfter(t, age')
      /\ holder # t => leaseLeft' = leaseLeft
      /\ leaseLeft' \in {leaseLeft, 0}
      /\ age' = [age EXCEPT ![t][s] = Idle]
  BY DEF Finish, FinishUnreleased, ReleasedLease
<1>2. \A u \in Tasks, r \in Slots :
         age'[u][r] = IF u = t /\ r = s THEN -1 ELSE age[u][r]
  BY <1>1 DEF LeaseInv, LeaseTypeOK
<1>3. \A u \in Tasks, r \in Slots :
         Running(u, r)' => Running(u, r) /\ (u # t \/ r # s)
  BY <1>2 DEF Running
<1>4. \A u \in Tasks, r \in Slots :
         Running(u, r)' => (u \in overran' <=> u \in overran)
  BY <1>1 DEF OverranAfter, Running
<1>5. LeaseTypeOK'
  BY <1>1 DEF LeaseInv, LeaseTypeOK, OverranAfter
<1>6. OverrunIsRecorded'
  <2> SUFFICES ASSUME NEW u \in Tasks, NEW r \in Slots, age'[u][r] > Lease
               PROVE  u \in overran'
    BY DEF OverrunIsRecorded
  <2>1. Running(u, r)' /\ age[u][r] > Lease
    BY <1>2 DEF Running
  <2> QED
    BY <2>1, <1>4 DEF LeaseInv, OverrunIsRecorded
<1>7. UnexpiredRunIsCovered'
  <2> SUFFICES ASSUME NEW u \in Tasks, NEW r \in Slots,
                      Running(u, r)', u \notin overran'
               PROVE  holder' = u /\ leaseLeft' = Lease - age'[u][r]
    BY DEF UnexpiredRunIsCovered
  <2>1. Running(u, r) /\ u \notin overran /\ (u # t \/ r # s)
    BY <1>3, <1>4
  <2>2. holder = u /\ leaseLeft = Lease - age[u][r]
    BY <2>1 DEF LeaseInv, UnexpiredRunIsCovered
  <2>3. u # t
    BY <2>1, <1>1 DEF LeaseInv, OverlapOnlyAfterOverrun
  <2> QED
    BY <1>1, <1>2, <2>2, <2>3
<1>8. OverlapOnlyAfterOverrun'
  BY <1>3, <1>4 DEF LeaseInv, OverlapOnlyAfterOverrun
<1> QED
  BY <1>5, <1>6, <1>7, <1>8 DEF LeaseInv

(* A crash only removes runs. *)
LEMMA CrashIInv ==
  ASSUME LeaseInv, NEW t \in Tasks, Crash(t)
  PROVE  LeaseInv'
<1>1. \A u \in Tasks, r \in Slots :
         age'[u][r] = IF u = t THEN -1 ELSE age[u][r]
  BY DEF Crash, LeaseInv, LeaseTypeOK
<1>2. LeaseTypeOK'
  BY DEF Crash, LeaseInv, LeaseTypeOK
<1>3. OverrunIsRecorded'
  BY <1>1 DEF Crash, LeaseInv, OverrunIsRecorded
<1>4. UnexpiredRunIsCovered'
  BY <1>1 DEF Crash, LeaseInv, UnexpiredRunIsCovered, Running
<1>5. OverlapOnlyAfterOverrun'
  BY <1>1 DEF Crash, LeaseInv, OverlapOnlyAfterOverrun, Running
<1> QED
  BY <1>2, <1>3, <1>4, <1>5 DEF LeaseInv

(* The clock advances every run and the lease together; a run that leaves   *)
(* its lease enters the history variable in the same step.                  *)
LEMMA TickIInv ==
  ASSUME LeaseInv, Tick
  PROVE  LeaseInv'
<1>1. \A u \in Tasks, r \in Slots :
         /\ age[u][r] \in -1 .. RunBound
         /\ age[u][r] < RunBound
         /\ age'[u][r] = IF age[u][r] = -1 THEN -1 ELSE age[u][r] + 1
  BY DEF Tick, LeaseInv, LeaseTypeOK
<1>2. \A u \in Tasks, r \in Slots : Running(u, r)' <=> Running(u, r)
  BY <1>1 DEF Running
<1>3. LeaseTypeOK'
  <2>1. age' \in [Tasks -> [Slots -> -1 .. RunBound]]
    <3>1. \A u \in Tasks, r \in Slots :
             (IF age[u][r] = -1 THEN -1 ELSE age[u][r] + 1) \in -1 .. RunBound
      BY <1>1
    <3> QED
      BY <3>1 DEF Tick
  <2> QED
    BY <2>1 DEF Tick, LeaseInv, LeaseTypeOK
<1>4. OverrunIsRecorded'
  BY DEF Tick, OverrunIsRecorded
<1>5. UnexpiredRunIsCovered'
  <2> SUFFICES ASSUME NEW u \in Tasks, NEW r \in Slots,
                      Running(u, r)', u \notin overran'
               PROVE  holder' = u /\ leaseLeft' = Lease - age'[u][r]
    BY DEF UnexpiredRunIsCovered
  <2>1. Running(u, r) /\ u \notin overran
    BY <1>2 DEF Tick
  <2>2. holder = u /\ leaseLeft = Lease - age[u][r]
    BY <2>1 DEF LeaseInv, UnexpiredRunIsCovered
  <2>3. age'[u][r] = age[u][r] + 1
    BY <1>1, <2>1 DEF Running
  <2>4. age'[u][r] <= Lease
    BY <1>1, <1>4, <2>3 DEF OverrunIsRecorded
  <2>5. leaseLeft' = leaseLeft - 1
    BY <1>1, <2>2, <2>3, <2>4 DEF Tick
  <2>6. leaseLeft' = Lease - age'[u][r]
    BY <1>1, <2>2, <2>3, <2>5
  <2>7. holder' = u
    BY <2>2 DEF Tick
  <2> QED
    BY <2>6, <2>7
<1>6. OverlapOnlyAfterOverrun'
  BY <1>2 DEF Tick, LeaseInv, OverlapOnlyAfterOverrun
<1> QED
  BY <1>3, <1>4, <1>5, <1>6 DEF LeaseInv

(* Every step preserves the inductive invariant. *)
LEMMA NextLeaseInv == LeaseInv /\ [LeaseNext]_leaseVars => LeaseInv'
<1> SUFFICES ASSUME LeaseInv, [LeaseNext]_leaseVars PROVE LeaseInv'
  OBVIOUS
<1>1. ASSUME NEW t \in Tasks, NEW s \in Slots, Acquire(t, s) PROVE LeaseInv'
  BY <1>1, AcquireIInv
<1>2. ASSUME NEW t \in Tasks, NEW s \in Slots,
             Finish(t, s) \/ FinishUnreleased(t, s)
      PROVE LeaseInv'
  BY <1>2, EndIInv
<1>3. ASSUME NEW t \in Tasks, Crash(t) PROVE LeaseInv'
  BY <1>3, CrashIInv
<1>4. CASE Tick
  BY <1>4, TickIInv
<1>5. CASE UNCHANGED leaseVars
  BY <1>5 DEF leaseVars, LeaseInv, LeaseTypeOK, OverrunIsRecorded, UnexpiredRunIsCovered,
              OverlapOnlyAfterOverrun, Running
<1> QED
  BY <1>1, <1>2, <1>3, <1>4, <1>5 DEF LeaseNext

(* The inductive invariant holds in every reachable state. *)
THEOREM LeaseInvariant == LeaseSpec => []LeaseInv
<1> QED
  BY InitLeaseInv, NextLeaseInv, PTL DEF LeaseSpec

(* The lease row is well-formed whatever the tasks do (jobs.ts 46-66). *)
THEOREM LeaseTypeCorrect == LeaseSpec => []LeaseTypeOK
<1>1. LeaseInv => LeaseTypeOK
  BY DEF LeaseInv
<1> QED
  BY <1>1, LeaseInvariant, PTL

(* Two invocations overlap only when a run has outlived its lease           *)
(* (jobs.ts 33-66: acquire, run, release by holder).                        *)
THEOREM OverlapNeedsOverrun == LeaseSpec => []OverlapOnlyAfterOverrun
<1>1. LeaseInv => OverlapOnlyAfterOverrun
  BY DEF LeaseInv
<1> QED
  BY <1>1, LeaseInvariant, PTL

(* A run inside its lease is covered by the row until it ends: no release   *)
(* of another task frees it (jobs.ts 58-66).                                *)
THEOREM UnexpiredRunCovered == LeaseSpec => []UnexpiredRunIsCovered
<1>1. LeaseInv => UnexpiredRunIsCovered
  BY DEF LeaseInv
<1> QED
  BY <1>1, LeaseInvariant, PTL

(* When every run of the job ends within its lease, the documented promise  *)
(* holds: two tasks never run the job at once (jobs.ts 7-8).                *)
THEOREM BoundedRunsAreExclusive ==
  ASSUME RunBound <= Lease
  PROVE  LeaseSpec => []TwoTasksNeverRunAtOnce
<1> DEFINE NoneOverran == overran = {}
<1>1. LeaseInit => NoneOverran
  BY DEF LeaseInit
<1>2. LeaseInv' /\ NoneOverran /\ [LeaseNext]_leaseVars => NoneOverran'
  <2> SUFFICES ASSUME LeaseInv', NoneOverran, [LeaseNext]_leaseVars PROVE NoneOverran'
    OBVIOUS
  <2>1. CASE Tick
    <3>1. \A t \in Tasks, s \in Slots : age'[t][s] \in -1 .. RunBound
      BY DEF LeaseInv, LeaseTypeOK
    <3> QED
      BY <2>1, <3>1 DEF Tick
  <2>2. CASE ~Tick
    BY <2>2 DEF LeaseNext, leaseVars, Acquire, Finish, FinishUnreleased, OverranAfter, Crash
  <2> QED
    BY <2>1, <2>2
<1>3. LeaseInv /\ NoneOverran => TwoTasksNeverRunAtOnce
  BY DEF LeaseInv, OverlapOnlyAfterOverrun, TwoTasksNeverRunAtOnce
<1> QED
  BY <1>1, <1>2, <1>3, LeaseInvariant, PTL DEF LeaseSpec
=============================================================================
