SPECIFICATION Spec
CONSTANTS
  Programs <- PopInEveryStep
  Values = {1, 2}
  MaxSteps = 2
  MaxRounds = 2
  MaxFrames = 3
INVARIANT ReadsInnermost
CHECK_DEADLOCK FALSE
