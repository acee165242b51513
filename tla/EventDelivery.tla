--------------------------- MODULE EventDelivery ---------------------------
(***************************************************************************)
(* What the outbox promises to the modules that subscribe to it: an event  *)
(* committed with the change it describes is handed to every handler its   *)
(* type routes to, and is settled either as delivered, once all of them    *)
(* have run, or as buried, kept with its error in sys.dead_letters.        *)
(* Nothing is promised about how often a handler runs or in which order.   *)
(***************************************************************************)
CONSTANTS Events, Handlers, Subscribed

VARIABLES
  state,   \* state[e]: unpublished, queued, delivered or buried
  ran      \* ran[e]: handlers that have run for e

vars == <<state, ran>>

TypeOK ==
  /\ state \in [Events -> {"unpublished", "queued", "delivered", "buried"}]
  /\ ran \in [Events -> SUBSET Handlers]

Init ==
  /\ state = [e \in Events |-> "unpublished"]
  /\ ran = [e \in Events |-> {}]

Publish(e) ==
  /\ state[e] = "unpublished"
  /\ state' = [state EXCEPT ![e] = "queued"]
  /\ UNCHANGED ran

Run(e, h) ==
  /\ state[e] # "unpublished"
  /\ h \in Subscribed[e]
  /\ ran' = [ran EXCEPT ![e] = @ \cup {h}]
  /\ UNCHANGED state

(* One transaction settles a batch. *)
Settle(delivered, buried) ==
  /\ delivered \cap buried = {}
  /\ \A e \in delivered \cup buried : state[e] = "queued"
  /\ \A e \in delivered : ran[e] = Subscribed[e]
  /\ state' = [e \in Events |->
                 IF e \in delivered THEN "delivered"
                 ELSE IF e \in buried THEN "buried" ELSE state[e]]
  /\ UNCHANGED ran

Next ==
  \/ \E e \in Events : Publish(e)
  \/ \E e \in Events, h \in Handlers : Run(e, h)
  \/ \E delivered, buried \in SUBSET Events : Settle(delivered, buried)

Spec == Init /\ [][Next]_vars
=============================================================================
