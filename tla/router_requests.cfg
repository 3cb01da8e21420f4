\* Two NATS requests, an HTTP request and a stream with sensitive data that both
\* prefer a cloud model, over three models on two endpoints; models are registered
\* at any moment and one is removed; one failure.
SPECIFICATION FairSpec
CONSTANTS
  n1 = n1
  n2 = n2
  h1 = h1
  s1 = s1
  small = small
  cheap = cheap
  large = large
  local = local
  cloud = cloud
  None = None
  Requests <- MCRequests
  Models <- MCModels
  Endpoints = {local, cloud}
  Kind <- MCKind
  Sensitive = {h1, s1}
  Fits <- MCFits
  Preferred <- MCPreferred
  Endpoint <- MCEndpoint
  LocalModels = {small}
  Cleared = {small}
  Rank <- MCRank
  AutoRegistered = {cheap, large}
  Threshold = 2
  MaxRemovals = 1
  MaxFaults = 1
INVARIANTS TypeOK BreakerConsistent PrivacyKept DoubleOutcomesBounded UnmeteredBounded
PROPERTY EveryRequestEnds
CHECK_DEADLOCK FALSE
