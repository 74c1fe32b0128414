SPECIFICATION FairSpec
CONSTANTS
  Threads = {t1, t2}
  KeyIds = {k1, k2}
  JwksAge = 1
  DiscoveryAge = 2
  MaxTime = 2
  MaxCalls = 2
  MaxRotations = 1
  None = None
INVARIANTS TypeOK OneForcedFetch AcceptedKeyIsRecent MissingKeyIsRecent FailureIsRecent
PROPERTIES Answered
CHECK_DEADLOCK FALSE
