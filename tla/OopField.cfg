SPECIFICATION Spec
CONSTANTS
  x = x
  y = y
  Zero = zero
  Data <- MCData
  InitFiles <- OldFiles
  High = 3
  MaxCount = 2
  MaxLen = 6
  Faults = {}
  Careful = TRUE
PROPERTIES ImplementsField
CHECK_DEADLOCK FALSE
