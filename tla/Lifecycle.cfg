SPECIFICATION PartSpec
SYMMETRY MC_Alike
CONSTANTS
  s1 = s1  s2 = s2  c1 = c1  c2 = c2  p1 = p1  p2 = p2
  Sources = {s1, s2}
  Kind <- MC_Kind
  Callers = {c1, c2}
  Keys = {k1}
  Payloads = {p1, p2}
  Workers = {w1}
  MaxPages = 2
  MaxChunks = 2
  MaxTouched = 1
  MaxJobs = 3
  None = None
INVARIANTS
  OneAnswerPerKey
  UntouchedWorkIsAccepted
CHECK_DEADLOCK FALSE
