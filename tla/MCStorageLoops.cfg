SPECIFICATION TwoLoopsSpec
CONSTANTS
  Node <- ThreeBlocks
  Home <- Homes
  MaxOps = 4
  MaxCount = 0
INVARIANTS
  VerificationPreserved
CHECK_DEADLOCK FALSE
