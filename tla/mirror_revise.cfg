SPECIFICATION MCSpec
CONSTANTS
  price = price
  calls = calls
  attest = attest
  match = match
  Tables <- MCRepaged
  DrainOrder <- MCDrainOrder
  PriceTable = price
  RepageTables <- MCRepaged
  FromZeroTables <- MCNone
  WholeRowTables <- MCOnlyPrice
  PageLimit = 2
  PriceBufferCap = 2
  InstanceNamed = TRUE
  RestWithoutStream = FALSE
  FaultsDuringDrain = FALSE
  Scenarios <- MCRevising
  MaxRows = 2
  MaxTime = 3
  MaxQueue = 2
CONSTRAINT FewChanges
INVARIANTS
  ChangesAccounted
