\* Two replicas, no failure: each checks before the other inserts.
SPECIFICATION Spec
CONSTANTS
  r1 = r1
  r2 = r2
  None = None
  Replicas = {r1, r2}
  Events = {1, 2}
  Malformed = {}
  Threads = {"t1"}
  ThreadOf <- OneThread
  MaxDeliver = 2
  MaxFaults = 0
INVARIANT OneActiveTask
CHECK_DEADLOCK FALSE
