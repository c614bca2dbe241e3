SPECIFICATION MCSpec
CONSTANTS
  hubA = hubA
  hubB = hubB
  hubC = hubC
  None = None
  Late = Late
  Adopted = Adopted
  Hubs <- MCThree
  Seeds <- MCTwo
  Tables <- MCTables
  Repaged <- MCRepaged
  ReconnectAttempts = 2
  MaxPages <- MCPages
  Faults <- MCMoves
INVARIANTS
  TypeOK
  CertifiedByHub
PROPERTIES
  SettlesOrStranded
CHECK_DEADLOCK FALSE
