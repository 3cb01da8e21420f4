\* One replica with two conversations; two failures, enough for the process
\* to die, its consumer to be dropped and the whole stream to come back.
SPECIFICATION FairSpec
CONSTANTS
  r1 = r1
  None = None
  Replicas = {r1}
  Events = {1, 2, 3}
  Malformed = {}
  Threads = {"t1", "t2"}
  ThreadOf <- TwoThreads
  MaxDeliver = 4
  MaxFaults = 2
INVARIANTS DuplicatesBounded
PROPERTIES LogSpec
CHECK_DEADLOCK FALSE
