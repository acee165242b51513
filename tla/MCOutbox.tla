------------------------------ MODULE MCOutbox ------------------------------
(* Three events over two handlers and two dispatchers, for TLC: event 1 is  *)
(* routed to both handlers, event 2 to one, event 3 to none.                *)
EXTENDS Outbox

CONSTANTS mail, hook, task1, task2

const_Route == <<<<mail, hook>>, <<hook>>, <<>>>>
=============================================================================
