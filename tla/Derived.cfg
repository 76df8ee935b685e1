SPECIFICATION Spec
CONSTANTS
  NaN = NaN
  Junk = Junk
  All = All
  Byte = 16
  Word = 64
  IntBits = 4
  Cycle = 2
  BufferSize = 1
  Dirfiles <- SmallDirfiles
  Broken = {"b"}
  Types = {"FLOAT64"}
  Starts <- SmallStarts
  Counts = {2}
  NewSamples = {2}
  Trials = {2, 1}
  Lookbacks <- MinusAll
  Probes <- SmallProbes
  MaxLevel = 6
  MaxLen = 3
  Careful = TRUE
INVARIANTS ReadsMean HereContinues PutsRead LimitsAgree LevelRestored
CHECK_DEADLOCK FALSE
