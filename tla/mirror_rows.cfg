SPECIFICATION MCSpec
CONSTANTS
  Parts = {"row", "barrier", "snapshot"}
  Kinds = {"oracle", "call", "match", "bridge"}
  MaxGen = 2
  MaxFrames = 3
  Budget <- MCFaults
  BarrierTables = {"match", "call", "policy", "attest"}
  OwnFloor = 1
  OtherFloors = {1, 2}
  MinFuture = 1
  MaxFuture = 2
  Grace = 0
  Ahead = 1
  MaxSecond = 3
  MaxFinalized = 2
  MaxStream = 2
  MaxFaults = 1
  SnapTroubles <- MCTroubles
  SnapBlocks = 2
  SnapMaxWaits = 3
INVARIANTS
  RowTypeOK
  ContentOfGeneration
  NoHole
  NoGhost
  ReleasedComplete
  LoneWaitsSettle
  HangsOnlyComplete
CHECK_DEADLOCK FALSE
