SPECIFICATION Spec
SYMMETRY MC_Alike
CONSTANTS
  a1 = a1  a2 = a2  e1 = e1  e2 = e2
  Requests = {r1}
  Keys = {k1}
  Hashes = {h1}
  Analyses = {a1}
  EdgesOf <- MC_OneEdge
  EdgeNames = {e1}
  Authenticated = TRUE
  LateDelivery = TRUE
  MaxIngests = 1
  MaxDeletes = 0
  MaxFaults = 1
  None = None
INVARIANTS
  PurgeErases
