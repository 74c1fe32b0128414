SPECIFICATION FairSpec
CONSTANTS
  a1 = a1
  a2 = a2
  Records <- TwoRecords
  MaxVersion = 2
  Agents = {a1}
  AgentOf <- OneAgent
  Incremental = TRUE
  Filtering = FALSE
  PageSize = 1
  PackageLimit = 9
  Workers = {w1, w2}
  SourceOps = {"edit"}
  MaxFaults = 1
  MaxLosses = 0
  LossAt = {}
  RedisAtStart = TRUE
  MaxQueue = 3
INVARIANTS TypeOK CursorMeansEnqueued OneEventPerObservation
PROPERTIES ImplementsFeed
