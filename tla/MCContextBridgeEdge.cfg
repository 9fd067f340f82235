SPECIFICATION FairSpec
CONSTANTS
  t1 = t1
  t2 = t2
  Task = {t1}
  Irq = Irq
  Boot = Boot
  None = None
  TaskUsable = 11
  IrqUsable = 6
  Widths <- AllWidths
  MaxLocals = 1
  MaxNest = 1
INVARIANTS
  StackWithinDomain
PROPERTIES
  BridgeEnds
CHECK_DEADLOCK FALSE
