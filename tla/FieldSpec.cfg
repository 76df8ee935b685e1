SPECIFICATION Spec
CONSTANTS
  Args <- MCArgs
  Consts <- MCConsts
  Samples <- MCSamples
  Tables <- MCTables
  Calls = 4
  Relaxed = "none"
INVARIANTS TypeOK Agree Reopens Conforms Unsaved VersionCached CalculatedRight
CHECK_DEADLOCK FALSE
