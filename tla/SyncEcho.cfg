SPECIFICATION FairSpec
CONSTANTS
  Comments = {c1}
  Tolerance = 1
  MaxInboxAttempts = 2
  PassSize = 2
  MaxPushes = 1
  MaxEdits = 1
  MaxNow = 4
  MaxDisturbances = 2
INVARIANTS TypeOK CommentsAppearOnce QuietChangesArrive
PROPERTY InboxDrains
CHECK_DEADLOCK FALSE
