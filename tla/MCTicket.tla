------------------------------ MODULE MCTicket ------------------------------
(***************************************************************************)
(* The seeded service_request machine                                      *)
(* (src/src/config/seeds/state-machines.json) with two priorities, two     *)
(* overlapping sweeps and half-minute ticks, for TLC.                      *)
(***************************************************************************)
EXTENDS Ticket, TLC

CONSTANTS sweep1, sweep2

const_Symmetry == Permutations({sweep1, sweep2})

Move(from, to, portal, reopen) == [from |-> from, to |-> to, portal |-> portal, reopen |-> reopen]

const_States == {"new", "triage", "approved", "in_progress", "awaiting_client",
                 "awaiting_third_party", "fulfilled", "closed", "cancelled"}

const_Transitions ==
  {Move("new", "triage", FALSE, FALSE), Move("new", "cancelled", TRUE, FALSE),
   Move("triage", "approved", FALSE, FALSE), Move("triage", "in_progress", FALSE, FALSE),
   Move("triage", "awaiting_client", FALSE, FALSE), Move("triage", "cancelled", TRUE, FALSE),
   Move("approved", "in_progress", FALSE, FALSE), Move("approved", "cancelled", TRUE, FALSE),
   Move("in_progress", "awaiting_client", FALSE, FALSE),
   Move("in_progress", "awaiting_third_party", FALSE, FALSE),
   Move("in_progress", "fulfilled", FALSE, FALSE), Move("in_progress", "cancelled", TRUE, FALSE),
   Move("awaiting_client", "in_progress", FALSE, FALSE),
   Move("awaiting_client", "triage", FALSE, FALSE),
   Move("awaiting_client", "cancelled", TRUE, FALSE),
   Move("awaiting_third_party", "in_progress", FALSE, FALSE),
   Move("fulfilled", "closed", TRUE, FALSE), Move("fulfilled", "in_progress", TRUE, TRUE)}

const_Targets ==
  [P2 |-> [response |-> 1, resolution |-> 2], P3 |-> [response |-> 2, resolution |-> 3]]

ASSUME SeededMachine == StampingMachine
=============================================================================
