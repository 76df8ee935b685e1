SPECIFICATION Spec
CONSTANTS
  Files = {"format", "A", "B", "C"}
  Root = "format"
  Raws = {"a", "b"}
  Others = {"c"}
  Names <- NamesABC
  None = "none"
  InitDisks <- Disks
  MaxLevel = 3
  MaxFrags = 4
  MaxCalls = 4
  MaxLines = 24
  Faults = {"rename"}
  Levels = {"none", "format"}
  Careful = TRUE
INVARIANTS TypeOK CleanOnDisk ReopensSame
PROPERTIES ImplementsTree ProtectedKept
CHECK_DEADLOCK FALSE
