SPECIFICATION Spec
CONSTANTS
  Packages = {p1, p2}
  MaxJournals = 2
  MaxCrashes = 1
  MaxForeign = 1
INVARIANTS
  LatestCanRollBack
  ServiceComplete
PROPERTIES
  RollbackRefusesForeign
  StageRefusesForeign
  StatusTruthful
SYMMETRY MCSymmetry
CHECK_DEADLOCK FALSE
