SPECIFICATION WFairSpec
CONSTANTS
  Loc <- Locs
  Val <- Values
  Undef = "undef"
  MaxState = 9
  MaxBlocks = 12
  Machines <- AllMachines
  Program = "program"
  Rules = {"init", "rule", "other"}
  Refs = {"z", "program"}
  Visits <- AllVisits
  MaxSteps = 3
  Meaning <- MeaningOf
INVARIANTS
  StepYieldsMeaning
  FailsOnlyIfInconsistent
  RuleWalked
PROPERTIES
  WalksBlocks
  StepsEnd
  MergeTerminates
