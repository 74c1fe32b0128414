SPECIFICATION FairSpec
CONSTANTS
  Loops = {o1}
  Pollers = {p1}
  Cves = {c1}
  Interval = 1
  Uptimes = {0}
  MaxEdition = 1
  MaxFaults = 2
  MaxCaches = 1
  Repeats = {c1}
  None = None
INVARIANTS TypeOK EscalationFollowsCatalog
PROPERTIES EventuallyCurrent
