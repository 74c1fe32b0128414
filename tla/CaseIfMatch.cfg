SPECIFICATION Spec
CONSTANTS
  None = None
  Cases = {c1}
  Decisions = {d1}
  Sessions = {s1, s2, s3}
  Users = {ana, bo}
  Approvers = {bo}
  Types = {"risk_accepted"}
  Methods = {"scanner", "manual_attestation"}
  Coverages <- ScanCoverages
  Ops <- VersionedOps
  Targets <- Status
  Lifetimes = {1}
  SlaDays <- OneDay
  MaxTime = 2
  MaxRequests = 6
SYMMETRY Symmetry
PROPERTIES
  HistoryIsLinear
CHECK_DEADLOCK FALSE
