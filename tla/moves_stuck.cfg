SPECIFICATION FairSpec
CONSTANTS
  hubA = hubA
  hubB = hubB
  hubC = hubC
  None = None
  Late = Late
  Adopted = Adopted
  Hubs <- MCTwo
  Seeds <- MCTwo
  Tables <- MCTables
  Repaged <- MCRepaged
  ReconnectAttempts = 2
  MaxPages <- MCPages
  Faults <- MCColdStart
PROPERTIES
  Settles
CHECK_DEADLOCK FALSE
