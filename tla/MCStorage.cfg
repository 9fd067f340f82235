SPECIFICATION MCSpec
CONSTANTS
  Node <- ThreeBlocks
  Home <- Homes
  MaxOps = 4
  MaxCount = 0
INVARIANTS
  OptimizedAgrees
CHECK_DEADLOCK FALSE
