SPECIFICATION Spec
CONSTANTS
  Workers = {w1}
  Events <- FourEvents
  k1 = k1
  k2 = k2
  Keys = {k1, k2}
  Rows = {x1, x2}
  Cases = {c1, c2}
  Evidence <- OneSbom
  Unpackaged = {}
  Unreachable = {k1}
  Classes = {"deterministic", "candidate"}
  AutoCreate = TRUE
  BatchSize = 2
  MaxAttempts = 2
  MaxEvidence = 2
  MaxCrashes = 0
  ClientOps = {}
  None = None
SYMMETRY RowSymmetry
INVARIANTS DeliveredMeansApplied
CHECK_DEADLOCK FALSE
