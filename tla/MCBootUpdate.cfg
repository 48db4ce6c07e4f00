SPECIFICATION FairSpec
CONSTANTS
  LowEnd = 1
  MetaStart = 2
  HighStart = 4
  Size = 5
  Covered <- MCCovered
  MaxCrashes = 2
  MaxForeign = 1
INVARIANTS
  Recoverable
  MetadataLast
  ManifestRedundancy
  CommitPoint
  ScriptFollowsFlash
  DeployPassSound
  RestorePassSound
PROPERTIES
  OthersPreserved
  Terminates
CHECK_DEADLOCK FALSE
