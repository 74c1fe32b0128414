SPECIFICATION FairSpec
CONSTANTS
  None = None
  Cases = {c1}
  Decisions = {d1, d2}
  Sessions = {s1, s2}
  Users = {ana, bo}
  Approvers = {bo}
  Types = {"risk_accepted"}
  Methods = {"scanner", "manual_attestation"}
  Coverages <- ScanCoverages
  Ops <- WorkOps
  Targets <- WorkTargets
  Lifetimes = {1}
  SlaDays <- OneDay
  MaxTime = 2
  MaxRequests = 5
INVARIANTS
  RiskAcceptedIsBacked

  
  
CHECK_DEADLOCK FALSE
