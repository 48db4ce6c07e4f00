SPECIFICATION FairSpec
CONSTANTS
  LowEnd = 1
  MetaStart = 2
  HighStart = 4
  Size = 5
  Covered <- MCCovered
  MaxCrashes = 0
  MaxForeign = 0
PROPERTY FailedApplyIsRepaired
CHECK_DEADLOCK FALSE
