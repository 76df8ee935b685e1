SPECIFICATION FairSpec
CONSTANTS
  SPF = 2
  Value <- SmallValues
  Targets <- SmallTargets
  StartFrames = {0, 1}
  EndFrames = {0, 2, 3}
  MaxLen = 6
  Careful = TRUE
INVARIANTS TypeOK FrameFound Bracketed
PROPERTY SearchEnds
CHECK_DEADLOCK FALSE
