SPECIFICATION MCSpec
CONSTANTS
  price = price
  calls = calls
  attest = attest
  match = match
  Tables <- MCMatched
  DrainOrder <- MCDrainOrder
  PriceTable = price
  RepageTables <- MCMatched
  FromZeroTables <- MCOnlyMatch
  WholeRowTables <- MCOnlyPrice
  PageLimit = 1
  PriceBufferCap = 0
  InstanceNamed = TRUE
  RestWithoutStream = FALSE
  FaultsDuringDrain = FALSE
  Scenarios <- MCRetries
  MaxRows = 1
  MaxTime = 2
  MaxQueue = 2
  BarrierTables = {"match", "attest"}
  OwnFloor = 1
  OtherFloors = {1, 2}
  MinFuture = 1
  MaxFuture = 2
  Grace = 0
  Ahead = 1
  MaxSecond = 3
  MaxFinalized = 1
  MaxStream = 2
  MaxFaults = 1
PROPERTIES
  DrainsConverge
  BlocksProceed
CHECK_DEADLOCK FALSE
