CONSTANTS
  event1 = event1
  event2 = event2
  worker1 = worker1
  worker2 = worker2
  admin1 = admin1
  NoEvent = NoEvent
  NoWorker = NoWorker
  Events = {event1, event2}
  Workers = {worker1, worker2}
  Admins = {admin1}
  MaxAttempts = 2
  PauseAfter = 2
  MaxReplays = 1
  MaxAborts = 1
SPECIFICATION Spec
INVARIANT RevokedReceivesNothing
CHECK_DEADLOCK FALSE
