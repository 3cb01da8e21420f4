\* Two replicas race for a conversation of two messages; one malformed event;
\* one failure at any point.
SPECIFICATION FairSpec
CONSTANTS
  r1 = r1
  r2 = r2
  None = None
  Replicas = {r1, r2}
  Events = {1, 2, 3}
  Malformed = {3}
  Threads = {"t1", "t2"}
  ThreadOf <- TwoThreads
  MaxDeliver = 3
  MaxFaults = 1
INVARIANTS TypeOK SeqContiguous ActiveTasksBounded OrphansBounded
PROPERTIES EventuallySettled
CHECK_DEADLOCK FALSE
