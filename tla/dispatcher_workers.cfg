\* Two workers, one task, a malformed message, every answer of the policy
\* evaluator and two failures at any point; a message outlives the task's retry budget.
SPECIFICATION FairSpec
CONSTANTS
  w1 = w1
  w2 = w2
  bad = bad
  None = None
  Workers = {w1, w2}
  NTasks = 1
  Malformed = {bad}
  PolicyAnswers = {"allow", "deny", "forbidden", "unavailable"}
  MaxRetries = 2
  MaxDeliver = 5
  MaxFaults = 2
INVARIANTS TypeOK AttemptsBounded AttemptsUnique FailedOnlyWhenExhausted SilentBounded
PROPERTY EventuallySettled
CHECK_DEADLOCK FALSE
