SPECIFICATION FairSpec
CONSTANTS
  s1 = s1  s2 = s2  o1 = o1  o2 = o2  u1 = u1  u2 = u2
  a = a  b = b  x = x  y = y  z = z
  Sources = {s1, s2}
  Owners = {o1}
  OwnerOf <- MC_OneOwner
  Kind <- MC_Texts
  Uris = {u1}
  TextUri = u1
  Contents = {a}
  TextContent = a
  Pieces <- MC_OnePieces
  Workers = {w1, w2}
  Admins = {d1}
  BatchSize = 1
  MaxChunks = 2
  MaxPages = 1
  OperatorTargets = {"failed"}
  LateDelivery = FALSE
  MaxJobs = 2
  MaxFaults = 1
  MaxRebuilds = 1
  None = None
INVARIANTS
  SourceShowsNewestJob
  NoOrphanPoints
PROPERTIES
  ImplementsLifecycle
  WorkFinishes
