SPECIFICATION Spec
CONSTANTS
  Ids = {"cve1", "cve2", "ghsa2"}
  Purls = {"p", "q", "other"}
  Versions <- MCVersions
  Pep <- MCVersions
  Rank <- MCRank
  Text <- MCText
  Order <- MCRank
  Zero = Zero
  Records <- OneInterval
  Observations <- ByName
  Scores <- MCScores
  MaxChanges = 3
  None = None
INVARIANTS TypeOK 
PROPERTIES WorseIsNotLower
