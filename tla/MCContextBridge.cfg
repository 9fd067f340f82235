SPECIFICATION Spec
CONSTANTS
  t1 = t1
  t2 = t2
  Task = {t1, t2}
  Irq = Irq
  Boot = Boot
  None = None
  TaskUsable = 11
  IrqUsable = 6
  Widths <- AllWidths
  MaxLocals = 0
  MaxNest = 2
SYMMETRY TaskSymmetry
INVARIANTS
  ScratchIsolated
  CriticalSections
PROPERTIES
  NmiTransparent
  DispatchContract
  RefinesContextSwitch
CHECK_DEADLOCK FALSE
