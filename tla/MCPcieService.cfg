SPECIFICATION Spec
INVARIANTS
  BackedWhileLinked
  ColdStartIsFresh
  RouteOwned
  NoTagInUse
PROPERTIES
  PublishedIsWhole
  CardIsFound
