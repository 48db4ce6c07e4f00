SPECIFICATION Spec
CONSTANTS
  e1 = e1
  e2 = e2
  e3 = e3
  Default = Default
  Values <- MCValues
  Serials <- MCSerials
INVARIANTS
  Durable
  AcceptedIsRedundant
  InspectorAgrees
PROPERTIES
  ImplementsEnvStore
