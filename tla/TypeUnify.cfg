SPECIFICATION Spec
CONSTANTS
  Heaps <- AllHeaps
  Nodes = {1, 2, 3, 4}
  MaxCalls = 4
INVARIANTS
  UnifiedAgree
  ConstraintsHold
PROPERTY
  OnlyRefined
