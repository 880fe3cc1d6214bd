SPECIFICATION ISpec
CONSTANTS
  N = 3
  Initializers <- Lists
INVARIANT
  OnlyCyclesReported
