SPECIFICATION Spec
CONSTANTS
  N = 2
  Batch = 2
  Runs = {run1}
  MaxAttempts = 2
  MaxDisturbances = 1
INVARIANT MessagesArriveInOrder
CHECK_DEADLOCK FALSE
