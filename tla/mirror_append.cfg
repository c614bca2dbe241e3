SPECIFICATION Spec
CONSTANTS
  price = price
  calls = calls
  attest = attest
  match = match
  Tables <- MCAppended
  DrainOrder <- MCDrainOrder
  PriceTable = price
  RepageTables <- MCOnlyPrice
  FromZeroTables <- MCNone
  WholeRowTables <- MCOnlyPrice
  PageLimit = 1
  PriceBufferCap = 1
  InstanceNamed = TRUE
  RestWithoutStream = FALSE
  FaultsDuringDrain = FALSE
  Scenarios <- MCAppending
  MaxRows = 2
  MaxTime = 3
  MaxQueue = 2
INVARIANTS
  TypeOK
  StreamComplete
  TableComplete
  GateNeedsEveryTable
PROPERTIES
  Refines
