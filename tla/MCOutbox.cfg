CONSTANTS
  mail = mail
  hook = hook
  task1 = task1
  task2 = task2
  Handlers = {mail, hook}
  Dispatchers = {task1, task2}
  LastEvent = 3
  Route <- const_Route
  Batch = 2
  MaxAttempts = 2
  MaxAborts = 1
SPECIFICATION FairSpec
INVARIANTS
  TypeOK
  NoSilentLoss
  RepeatsAreAccountedFor
PROPERTIES
  SettledIsFinal
  DeliveryPromise
  EveryEventSettles
CHECK_DEADLOCK FALSE
