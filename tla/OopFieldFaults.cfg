SPECIFICATION Spec
CONSTANTS
  x = x
  y = y
  Zero = zero
  Data <- MCOne
  InitFiles <- NewOrShort
  High = 2
  MaxCount = 1
  MaxLen = 3
  Faults = {"temp", "open", "write", "rename", "kill"}
  Careful = FALSE
PROPERTIES AtomicReplace
CHECK_DEADLOCK FALSE
