\* The values of the deployment, one worker, no failure, and a policy that
\* denies the task.
SPECIFICATION FairSpec
CONSTANTS
  w1 = w1
  None = None
  Workers = {w1}
  NTasks = 1
  Malformed = {}
  PolicyAnswers = {"forbidden"}
  MaxRetries = 5
  MaxDeliver = 5
  MaxFaults = 0
PROPERTY EveryTaskDecided
CHECK_DEADLOCK FALSE
