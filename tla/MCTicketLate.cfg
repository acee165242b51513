SPECIFICATION Spec
CONSTANTS
  Minute = 2
  States <- const_States
  Initial = "new"
  Transitions <- const_Transitions
  Pausing = {"awaiting_client", "awaiting_third_party"}
  Responding = {"in_progress"}
  Resolving = {"fulfilled"}
  Closing = {"closed"}
  Cancelling = {"cancelled"}
  Priorities = {"P2", "P3"}
  FirstPriority = "P2"
  Targets <- const_Targets
  sweep1 = sweep1
  sweep2 = sweep2
  Sweepers = {sweep1, sweep2}
  MaxVersion = 4
  MaxNow = 5
SYMMETRY const_Symmetry
INVARIANT LateResponseStaysBreached
CHECK_DEADLOCK FALSE
