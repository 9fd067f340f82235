SPECIFICATION MCSpec
CONSTANTS
  Place <- Places
  Cell <- AllCells
  SlotWidth = 4
  Bank = 8
  Banks = 3
  Zero = Zero
  Byte = Byte
  Disturbed = Disturbed
  Immediate = Immediate
  Parameters = 4
INVARIANTS
  AccumulatorContract
  WellAllocatedCompiles
  CapturesUnavoidable
PROPERTIES
  CopiesEnd
  CopiesAreAssignments
CHECK_DEADLOCK FALSE
