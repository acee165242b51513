SPECIFICATION MCFairSpec
CONSTANTS
  run1 = run1
  run2 = run2
  N = 2
  Batch = 2
  Runs = {run1, run2}
  MaxAttempts = 2
  MaxDisturbances = 3
INVARIANTS TypeOK DuplicateNeedsExcuse NothingLost
  OvertakenOnlyAfterTrouble TripStopsDelivery
PROPERTY EveryRowSettles
CHECK_DEADLOCK FALSE
