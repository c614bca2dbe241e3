SPECIFICATION MCSpec
CONSTANTS
  r1 = r1
  r2 = r2
  Requests <- MCRequests
  Overlap <- MCOverlap
  Caches = {"id", "list"}
  MaxHeight = 2
  MaxBlocks = 3
  MaxEntries = 1
  AgeRequests <- MCRequests
  AgeCachesHeld = {"rows", "fees"}
  AgeTtl = 1
  AgeStaleMax = 2
  AgeMaxClock = 4
  Clients <- MCClients
  Poll = Poll
  GateLimit = 1
  PoolSize = 1
  MaxRetrys = 0
  MaxReads = 2
SYMMETRY Symmetry
INVARIANTS
  TypesOK
  AnswersFollowTip
  AgeBounded
  NothingLeaks
  PoolsCloseLast
CHECK_DEADLOCK FALSE
