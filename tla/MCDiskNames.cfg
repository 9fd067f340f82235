SPECIFICATION DiskSpec
CONSTANTS
  Sectors = 8
  Boot = 2
  System = {5}
  LinkMax = 7
  Slots = 3
  Name = {"A", "B", "C"}
  Spelling = {"A", "B", "C", "A."}
  Stored <- Exactly
  Length = {1, 2}
  Data = {"x"}
  NoFile = NoFile
INVARIANTS
  ChainsDisjoint
CHECK_DEADLOCK FALSE
