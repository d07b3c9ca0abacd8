SPECIFICATION ChunkingSpec
SYMMETRY MC_Website
CONSTANTS
  s1 = s1  o1 = o1  u1 = u1  u2 = u2
  a = a  b = b  x = x  y = y
  Sources = {s1}
  Owners = {o1}
  OwnerOf <- MC_OwnerOf
  Kind <- MC_Url
  Uris = {u1, u2}
  TextUri = u1
  Contents = {a, b}
  TextContent = a
  Pieces <- MC_Pieces
  Workers = {w1}
  Admins = {d1}
  BatchSize = 2
  MaxChunks = 3
  MaxPages = 2
  OperatorTargets = {"indexing", "failed"}
  LateDelivery = FALSE
  MaxJobs = 3
  MaxFaults = 1
  MaxRebuilds = 1
  None = None
INVARIANTS
  TypeOK
  ChunksMatchDocuments
  ReadyIsProjected
PROPERTIES
  FailurePreservesCanonical
  ChunkingIsOneStep
