CONSTANTS
  Services = {"policy", "budget", "sandbox", "extensions", "operator", "memory", "tools"}
  Evaluators = {e1, e2}
  Queries <- MCQueries
  PolicyVersions <- MCPolicyVersions
  GrantTables <- MCGrantTables
  BudgetRows <- MCBudgetRows
  Minute = 2
  MaxTime = 3
  MaxHits = 4
  Any = Any
  Absent = Absent
  reader = reader
  secret = secret
  m1 = m1
  m2 = m2
  m3 = m3
  b1 = b1
  b2 = b2
  Metrics = {m1, m2, m3}
  Malformed = {m3}
  BudgetOf <- MCBudgetOf
  CostOf <- MCCostOf
  Budgets = {b1}
  LimitOf <- MCLimitOf
  MaxDeliver = 4
  MaxPosts = 1
  MaxAckFaults = 1
  MaxBudgetCrashes = 1
  NoMetric = NoMetric
  ApiThreads = {h1}
  CallThread = calls
  CleanupThread = cleanup
  SandboxIds = {x1, x2}
  SandboxTasks = {t1}
  CallKeys = {k1}
  NoKey = NoKey
  NoSandbox = NoSandbox
  Extensions = {xa, xb}
  Manifests <- MCManifests
  NoManifest = NoManifest
  NoRow = NoRow
  MaxGitChanges = 1
  MaxApiCalls = 1
  MaxStoreFaults = 1
  MaxLostEvents = 1
  q1 = q1
  q2 = q2
  PlatformParts = {q1, q2}
  Specs <- MCSpecs
  MaxSpecChanges = 2
  MaxReadyChanges = 3
  MaxReadErrors = 1
  Writes = {w1, w2}
  BadWrites = {w2}
  NoWrite = NoWrite
  SearchLimit = 1
  MaxWriteDeliver = 3
  MaxRestWrites = 1
  MaxPromotions = 1
  MaxMemoryFaults = 2
  ToolServers = {ts1, ts2}
  HttpServer = http
  ToolCalls = {tc1, tc2, tc3}
  NatsCalls = {tc1}
  RefusedCalls = {tc2}
  MaxTries = 2
SPECIFICATION MCSpec
INVARIANTS PlatformTypeOK StaleNeedsOverlap RateWindowBounded SpendExplained ToolRunsExplained RestingSandboxes EventsExplained MemoryExplained
PROPERTIES PlatformSettles
CHECK_DEADLOCK FALSE
