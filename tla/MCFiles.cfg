SPECIFICATION FilesSpec
CONSTANTS
  Module <- Modules
  Root = Root
  Sys = Sys
  a = a
  b = b
  Process = {1, 2}
  Sequence = {0}
  Image = {"old", "new"}
  Absent = Absent
  Torn = Torn
  NoPath = NoPath
  None = None
  Sectors = 8
  Boot = 2
  System = {5}
  LinkMax = 7
  Slots = 3
  Name = {"A", "B", "C"}
  Spelling = {"A", "B", "C"}
  Stored <- Exactly
  Length = {1, 2}
  Data = {"x"}
  NoFile = NoFile
INVARIANTS
  DependenciesFirst
  OutcomeJustified
  LastOutputSurvives
  ChainsDisjoint
PROPERTIES
  RefinesOutputFile
  SpaceAccounted
  RefinesFileStore
CHECK_DEADLOCK FALSE
