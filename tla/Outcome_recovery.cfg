SPECIFICATION FairSpec
CONSTANTS
  a1 = a1  a2 = a2  e1 = e1  e2 = e2
  Requests = {r1, r2}
  Keys = {k1}
  Hashes = {h1}
  Analyses = {a1}
  EdgesOf <- MC_OneEdge
  EdgeNames = {e1}
  Authenticated = TRUE
  LateDelivery = FALSE
  MaxIngests = 0
  MaxDeletes = 1
  MaxFaults = 2
  None = None
INVARIANTS
  CompletedIsDurable
PROPERTIES
  Recovers
  PurgeCompletes
