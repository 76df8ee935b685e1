SPECIFICATION Spec
CONSTANTS
  x = x
  y = y
  Zero = zero
  Huge = 1000
  Data <- MCData
  InitCells <- OldFiles
  Missing = TRUE
  Codecs = {"sie", "swapped sie", "text", "bzip2", "lzma", "slim", "zzip", "zzslim"}
  Buffer = 2
  Size = 2
  High = 3
  MaxCount = 2
  MaxLen = 4
  Careful = TRUE
INVARIANTS RunsInOrder
PROPERTIES ImplementsField
CHECK_DEADLOCK FALSE
