SPECIFICATION FairSpec
CONSTANTS
  o1 = o1  o2 = o2  d1 = d1  d2 = d2  h1 = h1  p1 = p1
  None = None
  Sessions = {s1, s2}
  Orgs = {o1, o2}
  Documents = {d1, d2}
  Named = {d1}
  Hosts = {h1}
  HostOf <- TheHost
  Contents <- OnePackage
  Sent <- SentApart
  Imported <- OneRow
  Ids = {1, 2, 3, 4}
  MaxFaults = 2
INVARIANTS
  TypeOK
  RepliesAgree
  BytesBehindDocuments
  BindingIsTrue
 
