SPECIFICATION SFairSpec
CONSTANTS
  Sym = {"x", "b"}
  Range <- IntAndBool
  Conditions <- Comparisons
  Plain <- IfB
  Cases <- SomeCases
  Shared = FALSE
  MaxMade = 3
  MaxNames = 2
INVARIANTS
  DecisionsFollow
  InputsCovered
  PathsDisjoint
  IfLookedUp
PROPERTIES
  TracesKept
  FailureStops
  Ends
