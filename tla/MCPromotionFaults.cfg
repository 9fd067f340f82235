SPECIFICATION MCSpec
CONSTANTS
  Node <- Blocks
  Entry = 1
  Body <- Bodies
  NoValue = NoValue
  MaxTargets = 2
  Registers <- DataRegisters
  NoTemp = NoTemp
INVARIANTS
  FaultsObserveStorage
CHECK_DEADLOCK FALSE
