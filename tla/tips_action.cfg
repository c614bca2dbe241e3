SPECIFICATION MCSpec
CONSTANTS
  r1 = r1
  r2 = r2
  Requests <- MCRequests
  Overlap <- MCActions
  Caches = {"action"}
  MaxHeight = 2
  MaxBlocks = 3
  MaxEntries = 1
  AgeRequests <- MCRequests
  AgeCachesHeld = {"rows"}
  AgeTtl = 0
  AgeStaleMax = 0
  AgeMaxClock = 0
  Clients <- MCClients
  Poll = Poll
  GateLimit = 1
  PoolSize = 1
  MaxRetrys = 0
  MaxReads = 1
SYMMETRY Symmetry
INVARIANT NoStaleAction
CHECK_DEADLOCK FALSE
