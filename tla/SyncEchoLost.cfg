SPECIFICATION Spec
CONSTANTS
  Comments = {c1}
  Tolerance = 1
  MaxInboxAttempts = 2
  PassSize = 2
  MaxPushes = 1
  MaxEdits = 1
  MaxNow = 4
  MaxDisturbances = 0
INVARIANT PolledCommentsArrive
CHECK_DEADLOCK FALSE
