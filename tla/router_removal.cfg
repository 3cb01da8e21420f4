\* The same instance without any failure: a model is removed while it answers.
SPECIFICATION Spec
CONSTANTS
  n1 = n1
  n2 = n2
  h1 = h1
  s1 = s1
  small = small
  cheap = cheap
  large = large
  local = local
  cloud = cloud
  None = None
  Requests <- MCRequests
  Models <- MCModels
  Endpoints = {local, cloud}
  Kind <- MCKind
  Sensitive = {h1, s1}
  Fits <- MCFits
  Preferred <- MCPreferred
  Endpoint <- MCEndpoint
  LocalModels = {small}
  Cleared = {small}
  Rank <- MCRank
  AutoRegistered = {cheap, large}
  Threshold = 2
  MaxRemovals = 1
  MaxFaults = 0
INVARIANT OneOutcome
CHECK_DEADLOCK FALSE
