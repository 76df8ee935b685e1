SPECIFICATION Spec
CONSTANTS
  x = x
  y = y
  Zero = zero
  Torn = torn
  Data <- MCData
  InitFiles <- NewOrOld
  Size = 1
  FrameOffset = 1
  Low = 1
  High = 3
  MaxCount = 2
  MaxLen = 3
  AccMode = "RDWR"
  Faults = {"open", "lseek", "read", "write", "fsync", "close"}
  Producer = {"samples"}
INVARIANTS TypeOK Coherent
PROPERTIES ImplementsField DiskSafe
CHECK_DEADLOCK FALSE
