\* One replica, no failure: a message that arrives while a task is active.
SPECIFICATION FairSpec
CONSTANTS
  r1 = r1
  None = None
  Replicas = {r1}
  Events = {1, 2}
  Malformed = {}
  Threads = {"t1"}
  ThreadOf <- OneThread
  MaxDeliver = 2
  MaxFaults = 0
PROPERTY EveryMessageGetsTask
CHECK_DEADLOCK FALSE
