SPECIFICATION IFairSpec
CONSTANTS
  N = 3
  Initializers <- Lists
INVARIANTS
  DependenciesFirst
  CyclesRejected
  AllInitialised
PROPERTIES
  InitEnds
