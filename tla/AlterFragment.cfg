SPECIFICATION Spec
CONSTANTS
  a = a
  b = b
  x = x
  y = y
  Zero = zero
  Junk = junk
  Fields <- BothFields
  Place <- InOrder
  NFrags = 1
  FragOf <- OneFrag
  Spf <- Spf12
  OneByte <- OnlyB
  Encs = {"none", "text"}
  Offs <- Offs01
  InitMetas <- MetasTurned
  Data <- XY
  InitVals <- Two
  Firsts <- Offs01
  MaxCount = 1
  MaxLen = 4
  Kinds = {"off", "sex", "enc"}
  Moves <- Recoding
  Prots <- Protected
  Faults = {"temp", "write"}
  Careful = TRUE
INVARIANTS CopiesDeleted
PROPERTIES ImplementsAlter
CHECK_DEADLOCK FALSE
