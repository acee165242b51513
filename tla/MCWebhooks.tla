----------------------------- MODULE MCWebhooks -----------------------------
(* Two events, two delivery transactions and one console request, for TLC. *)
EXTENDS Webhooks, TLC

CONSTANTS event1, event2, worker1, worker2, admin1

const_Symmetry == Permutations(Events) \cup Permutations(Workers)
=============================================================================
