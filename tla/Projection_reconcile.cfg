SPECIFICATION Spec
CONSTANTS
  s1 = s1  s2 = s2  o1 = o1  o2 = o2  u1 = u1  u2 = u2
  a = a  b = b  x = x  y = y  z = z
  Sources = {s1, s2}
  Owners = {o1, o2}
  OwnerOf <- MC_OwnOwner
  Kind <- MC_Mixed
  Uris = {u1}
  TextUri = u1
  Contents = {a}
  TextContent = a
  Pieces <- MC_OnePiece
  Workers = {w1}
  Admins = {d1}
  BatchSize = 1
  MaxChunks = 2
  MaxPages = 1
  OperatorTargets = {"indexing"}
  LateDelivery = TRUE
  MaxJobs = 3
  MaxFaults = 1
  MaxRebuilds = 1
  None = None
PROPERTIES
  PointsVanishUnderLock
  RebuildSweepsOrphans
