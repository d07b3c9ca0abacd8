SPECIFICATION Spec
SYMMETRY MC_Alike
CONSTANTS
  a1 = a1  a2 = a2  e1 = e1  e2 = e2
  Requests = {r1, r2}
  Keys = {k1}
  Hashes = {h1}
  Analyses = {a1, a2}
  EdgesOf <- MC_EdgesOf
  EdgeNames = {e1, e2}
  Authenticated = TRUE
  LateDelivery = FALSE
  MaxIngests = 1
  MaxDeletes = 1
  MaxFaults = 1
  None = None
INVARIANTS
  PurgeErases
  IndexedIsFindable
  EdgesFollowAnalysis
PROPERTIES
  PendingPurgeFences
  EvidenceIsKept
