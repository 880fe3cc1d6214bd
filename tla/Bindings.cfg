\* A program may stop: it fails, is rejected, or has done MaxSteps steps.
SPECIFICATION Spec
CONSTANTS
  Programs <- WellScoped
  Values = {1, 2}
  MaxSteps = 2
  MaxRounds = 2
  MaxFrames = 3
INVARIANTS
  ReadsInnermost
  NothingLeft
CHECK_DEADLOCK FALSE
