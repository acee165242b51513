CONSTANTS
  NoTask = NoTask
  Tasks = {task1, task2}
  Slots = {slot1, slot2}
  Lease = 3
  RunBound = 5
  MaxCrashes = 2
SPECIFICATION FairLeaseSpec
INVARIANTS
  LeaseTypeOK
  OverlapOnlyAfterOverrun
  UnexpiredRunIsCovered
PROPERTY JobRunsAgain
