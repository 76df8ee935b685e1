SPECIFICATION Spec
CONSTANTS
  Args <- MCArgs
  Consts <- MCConsts
  Samples <- MCSamples
  Tables <- MCTables
  Calls = 3
  Relaxed = "flush"
INVARIANT Conforms
CHECK_DEADLOCK FALSE
