SPECIFICATION Spec
CONSTANTS
  Fun = {"x", "y"}
  Elem = {1}
  Undef = undef
  Initial = {"none", "cons"}
  AppShared = FALSE
  UsageMod = 256
  MaxLen = 2
  MaxTemp = 3
  MaxStatements = 2
  Exprs <- AllExprs
INVARIANTS
  FunctionsHold
  UpdatesHold
  CountedOnce
