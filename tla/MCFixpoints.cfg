SPECIFICATION FixSpec
CONSTANTS
  Node <- Blocks
  State <- Chain
  MaxCount = 4
  Site <- SiteSet
  Sites = 3
  Last = 34
  Gaps = {0, 3}
  ByteReach = 6
  WordReach = 10
  MaxRounds = 2
  New = New
  Operations = 3
  Inserted = {0, 2}
INVARIANTS
  Fixpoint
  Least
  MeetOverPaths
  OncePerNode
  ChosenReach
  NothingMissed
  RewritesAsMatched
PROPERTIES
  Solves
  RelaxationEnds
CHECK_DEADLOCK FALSE
