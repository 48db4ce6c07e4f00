SPECIFICATION Spec
CONSTANTS
  Table <- MCTable
  Anchors <- MCAnchors
  Capacity = 26
  Layouts <- MCLayouts
  Builds <- MCBuilds
  Snapshots <- MCSnapshots
  LowEnd = 7
  MetaStart = 16
  HighStart = 22
INVARIANTS
  EmittedBoots
  PackagedIsValid
CHECK_DEADLOCK FALSE
