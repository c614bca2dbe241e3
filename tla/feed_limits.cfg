SPECIFICATION MCSpec
CONSTANTS
  c1 = c1
  Clients <- MCOneClient
  FetchLimit = 1
  ReplayLimit = 1
  ReplayDepth = 1
  LogDepth = 1
  OutrunsTip = FALSE
  SeedDisturbed = FALSE
  SeedOverlaps = FALSE
  InitialActions <- MCSomeActions
  Budgets <- MCLimits
  OutrunsHash = FALSE
  ReadsOverlap = FALSE
  MaxBlocks = 3
  MaxActions = 3
  MaxMinted = 4
  Txs = {1, 2, 3}
  Compact = {1}
  Undecodable = {3}
  MempoolWindow = 1
  WindowReaders = {"diff", "page"}
  LookupsFail = FALSE
  IdsRollBack = FALSE
  MaxPoolChanges = 4
  MaxIndexed = 1
INVARIANTS
  TypesOK
  ClientsFollow
  MemoFresh
  PendingFollows
PROPERTIES
  ClientsSettle
  NoFalseRemoval
CHECK_DEADLOCK FALSE
