\* Every part by itself, two requests at a time.
SPECIFICATION MCSpec
SYMMETRY Symmetry
CONSTANTS
  alice = alice bob = bob a1 = a1 x1 = x1 x2 = x2 z1 = z1 tok = tok svc = svc
  p1 = p1 p2 = p2 t1 = t1 t2 = t2 c = c
  m1 = m1 m2 = m2 m3 = m3 m4 = m4 m5 = m5 m6 = m6 w1 = w1 w2 = w2 w3 = w3 w4 = w4
  ann = ann Ann = Ann eve = eve note = note home = home k1 = k1 g1 = g1 g2 = g2
  Nothing = Nothing None = None NoQuestion = NoQuestion Nobody = Nobody

  Handlers = {h1, h2}
  Memories = {m1, m2, m3, m4, m5}
  Names = {p1, p2, t1, t2}
  PeopleOf <- MCPeopleOf
  TopicsOf <- MCTopicsOf
  PairAnswers <- MCPairAnswers
  Edits <- MCEdits
  Bearing = {m3, m4, m5}
  BeliefAnswers <- MCBeliefAnswers
  MaxScore = 2
  MaxFailures = 2
  MaxEdits = 2

  Slots = {h1, h2}
  Incoming <- MCIncoming
  TrustedProxies = {x1, x2}
  SubjectOf <- MCSubjectOf
  Delegates <- MCDelegates
  Limit = 2
  Window = 2
  ClientTTL = 4
  CleanupInterval = 2
  MaxDelay = 1
  MaxTime = 7
  MaxDrops = 1

  Subject = alice
  Items = {m1, m2, m3, m4, m5, m6}
  Memory <- MCMemory
  Questions <- MCQuestions
  Weights <- MCWeights
  Scale = 4
  Threshold <- MCThreshold
  DefaultLimit = 2
  MaxLimit = 4
  CandidateFactor = 2
  MinCandidates = 3
  MaxCandidates = 4
  MaxLosses = 1
  Requests <- MCRequests
  Size <- MCSize
  Estimates <- MCEstimates
  BeliefsAbout <- MCBeliefsAbout
  AllBeliefs <- MCAllBeliefs
  Credentials = {alice}
  KnowledgeAnswers <- MCKnowledgeAnswers
  KnowledgeLimit = 3
  MemoryLimit = 3
  MemoryChars = 6
  LineLimit = 3
  Budget <- MCBudget
  HeadingSize = 1
  NoteSize = 1
  LineSize = 3
  RuneWidth = 2

  Calls = {h1, h2}
  Users = {u1, u2}
  SessionIds = {s}
  FreshIds = {f}
  MaxMessages = 2
  Plans <- MCPlans
  MaxStrategies = 2
  MaxListed = 3

  Spellings = {ann, Ann, eve}
  LowerCase <- MCLowerCase
  Blank = Blank
  Extractors = {h1, h2}
  RawAnswers <- MCRawAnswers
  MemoryTypes = {note}
  EntityTypes = {"person", "claim"}
  MaxTakenBack = 1

  Reporters = {h1, h2}
  Payloads <- MCPayloads
  SessionOwner <- MCSessionOwner
  DefaultOwner = bob
  Posts <- MCPosts
  RawAnalyses <- MCRawAnalyses
  MaxPosts = 3
  MaxReports = 2
  MaxScanned = 2
  Unnamed = Unnamed
INVARIANTS
  EachMemoryCountsOnce OnlyNamedPairs ContradictionIsRemembered
  LimitIsExact IdentityIsVouched FenceHolds
  BranchesAreIndependent BudgetsHold
  SessionsAreOwned SessionsReadAsConversations
  ExtractionIsWhole OutcomesKeepTheirContext
PROPERTIES NothingLearnedIsLost BestOfWanted
CHECK_DEADLOCK FALSE
