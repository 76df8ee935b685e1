SPECIFICATION Spec
CONSTANTS
  a = a
  b = b
  x = x
  y = y
  Zero = zero
  Junk = junk
  Fields <- BothFields
  Place <- InOrder
  NFrags = 2
  FragOf <- TwoFrags
  Spf <- Spf12
  OneByte = {}
  Encs = {"none", "gzip"}
  Offs <- Offs01
  InitMetas <- MetasLittle
  Data <- XY
  InitVals <- Two
  Firsts <- Offs01
  MaxCount = 0
  MaxLen = 4
  Kinds = {"off", "enc"}
  Moves <- Recoding
  Prots <- Open
  Faults = {"temp", "write", "rename", "unlink"}
  Careful = TRUE
INVARIANTS TypeOK OneUnclean CrashReadable
PROPERTIES DataSurvives
CHECK_DEADLOCK FALSE
