SPECIFICATION FairSpec
CONSTANTS
  hubA = hubA
  hubB = hubB
  p1 = p1
  p2 = p2
  Hubs <- MCHubs
  NoHub = NoHub
  Params <- MCParams
  CoinParams <- MCCoinParams
  Polls = {1}
  Budgets <- MCFailures
  MaxVersion = 3
  MaxClock = 2
  Firsts <- MCFirsts
INVARIANTS
  TypeOK
  WholeTree
  NoRowStranded
PROPERTIES
  KeepsCoins
  Converges
