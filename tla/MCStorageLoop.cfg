SPECIFICATION LoopSpec
CONSTANTS
  Node <- FourBlocks
  Home <- ThreeHomes
  MaxOps = 4
  MaxCount = 0
PROPERTIES
  PropagationEnds
CHECK_DEADLOCK FALSE
