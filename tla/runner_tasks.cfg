\* Two tasks and a malformed message; up to two tool calls at once, two in all, two
\* iterations; one early redelivery and one failure.
SPECIFICATION FairSpec
CONSTANTS
  a = a
  b = b
  bad = bad
  None = None
  Tasks = {a, b, bad}
  Malformed = {bad}
  Batches = {1, 2}
  MaxIterations = 2
  MaxToolCalls = 2
  MaxOverdue <- MCMaxOverdue
  MaxFaults = 1
INVARIANTS TypeOK AnswersBounded ToolCallsBounded UnreportedBounded
PROPERTY EventuallySettled
