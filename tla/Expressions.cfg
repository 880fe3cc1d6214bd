SPECIFICATION Spec
CONSTANTS
  Width = 8
  Enums <- MCEnums
  Declared <- MCDeclared
  Functions <- AllFunctions
  Programs <- AllPrograms
  Length = 2
INVARIANTS
  AbortsOnlyInGaps
  ValuesConform
  
