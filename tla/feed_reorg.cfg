SPECIFICATION MCSpec
CONSTANTS
  c1 = c1
  Clients <- MCOneClient
  FetchLimit = 2
  ReplayLimit = 2
  ReplayDepth = 9
  LogDepth = 9
  OutrunsTip = FALSE
  SeedDisturbed = FALSE
  SeedOverlaps = FALSE
  InitialActions <- MCFewActions
  Budgets <- MCOneCloseOrNone
  Cursors = {"closed"}
  Missing = {"closed"}
  RearmAhead = FALSE
  Endings <- MCEndings
  Sides = {"clients", "latches"}
  MaxBlocks = 3
  MaxActions = 3
  MaxMinted = 4
CONSTRAINT FewBlocks
INVARIANTS
  NoRepeat
  NothingMissed
  FollowsChain
  CursorsFollow
  LatchesOnce
PROPERTY
  LatchAfterActions
