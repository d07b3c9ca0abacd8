SPECIFICATION Spec
CONSTANTS
  s1 = s1  s2 = s2  o1 = o1  o2 = o2  u1 = u1  u2 = u2
  a = a  b = b  x = x  y = y  z = z
  Sources = {s1}
  Owners = {o1}
  OwnerOf <- MC_OneOwner
  Kind <- MC_OneUrl
  Uris = {u1, u2}
  TextUri = u1
  Contents = {a, b}
  TextContent = a
  Pieces <- MC_Pieces
  Workers = {w1}
  Admins = {d1}
  BatchSize = 2
  MaxChunks = 3
  MaxPages = 2
  OperatorTargets = {"failed"}
  LateDelivery = FALSE
  MaxJobs = 3
  MaxFaults = 1
  MaxRebuilds = 1
  None = None
PROPERTIES
  RebuildReplaysRetainedChunks
