SPECIFICATION FairSpec
CONSTANTS
  Workers = {w1}
  Events <- FourEvents
  k1 = k1
  k2 = k2
  Keys = {k1}
  Rows = {x1, x2}
  Cases = {c1, c2}
  Evidence <- OneFinding
  Unpackaged = {}
  Unreachable = {}
  Classes = {"confirmed", "candidate", "not_affected"}
  AutoCreate = TRUE
  BatchSize = 2
  MaxAttempts = 2
  MaxEvidence = 2
  MaxCrashes = 1
  ClientOps = {"review", "close"}
  None = None
INVARIANTS DeliveredMeansApplied OneExposurePerKey OneOpenCase 
PROPERTIES HandledMeansCased ImplementsQueue
CHECK_DEADLOCK FALSE
