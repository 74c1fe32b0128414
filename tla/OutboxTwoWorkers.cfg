SPECIFICATION FairSpec
CONSTANTS
  Workers = {w1, w2}
  Events <- FourEvents
  k1 = k1
  k2 = k2
  Keys = {k1}
  Rows = {x1, x2}
  Cases = {c1, c2, c3}
  Evidence <- OneFinding
  Unpackaged = {}
  Unreachable = {}
  Classes = {"deterministic"}
  AutoCreate = TRUE
  BatchSize = 2
  MaxAttempts = 2
  MaxEvidence = 1
  MaxCrashes = 0
  ClientOps = {"close", "reopen"}
  None = None
INVARIANTS TypeOK
  
CHECK_DEADLOCK FALSE
