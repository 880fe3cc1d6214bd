SPECIFICATION Spec
CONSTANTS
  Loc = {x, y}
  Undef = undef
  Val = {undef, one}
  MaxState = 3
  MaxBlocks = 3
SYMMETRY Locations
INVARIANTS
  TypeOK
  ListOrdered
  NothingStranded
  UniqueKeys
  StepConsistent
  UpdatesHaveEntries
  IInv
PROPERTIES
  ImplementsBlocks
