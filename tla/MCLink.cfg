SPECIFICATION MCSpec
CONSTANTS
  Node <- Identities
  Reason = {0, 1, 2, 4, 5, 9}
  MaxEdges = 4
INVARIANTS
  SelectionLeast
  ReasonsGrounded
  KeptIsNeeded
  NoDanglingUse
  SelectionSucceeds
PROPERTIES
  ScanEnds
  RefinesReachability
CHECK_DEADLOCK FALSE
