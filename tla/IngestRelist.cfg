SPECIFICATION FairSpec
CONSTANTS
  a1 = a1
  a2 = a2
  Records <- TwoRecords
  MaxVersion = 2
  Agents = {a1, a2}
  AgentOf <- TwoAgents
  Incremental = FALSE
  Filtering = FALSE
  PageSize = 1
  PackageLimit = 2
  Workers = {w1}
  SourceOps = {"edit", "delete"}
  MaxFaults = 1
  MaxLosses = 1
  LossAt = {"popped", "new", "creating", "stored"}
  RedisAtStart = TRUE
  MaxQueue = 2
INVARIANTS SnapshotHasBytes
PROPERTIES LatestIsRecorded
