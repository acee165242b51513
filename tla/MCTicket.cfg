SPECIFICATION FairSpec
CONSTANTS
  Minute = 2
  States <- const_States
  Initial = "new"
  Transitions <- const_Transitions
  Pausing = {"awaiting_client", "awaiting_third_party"}
  Responding = {"in_progress"}
  Resolving = {"fulfilled"}
  Closing = {"closed"}
  Cancelling = {"cancelled"}
  Priorities = {"P2", "P3"}
  FirstPriority = "P2"
  Targets <- const_Targets
  sweep1 = sweep1
  sweep2 = sweep2
  Sweepers = {sweep1, sweep2}
  MaxVersion = 5
  MaxNow = 8
INVARIANTS TypeOK ClocksPauseWithTicket ClocksKeepTheirWindow AnnouncedOnce
  RowAgreesWithClocks
PROPERTIES LatchIsForever OverdueIsSwept
CHECK_DEADLOCK FALSE
