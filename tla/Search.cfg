SPECIFICATION ReadersSpec
SYMMETRY MC_Revisions
CONSTANTS
  s1 = s1  o1 = o1  u1 = u1
  a = a  b = b  x = x  y = y  z = z
  Sources = {s1}
  Owners = {o1}
  OwnerOf <- MC_OwnerOf
  Kind <- MC_Url
  Uris = {u1}
  TextUri = u1
  Contents = {a, b}
  TextContent = a
  Pieces <- MC_Pieces
  Workers = {w1}
  Admins = {d1}
  Searchers = {q1}
  BatchSize = 1
  MaxChunks = 4
  MaxPages = 1
  OperatorTargets = {"indexing", "ready", "failed"}
  LateDelivery = TRUE
  MaxJobs = 3
  MaxFaults = 1
  MaxRebuilds = 0
  None = None
INVARIANTS
  ActiveCandidatesAreCurrent
PROPERTIES
  EvidenceIsCurrent
  EvidenceIsCommitted
