SPECIFICATION SSpec
CONSTANTS
  Sym = {"x"}
  Range <- IntAndBool
  Conditions <- Equal
  Plain <- None
  Cases <- None
  Shared = TRUE
  MaxMade = 3
  MaxNames = 2
INVARIANT
  DecisionsFollow
