CONSTANT Bundles = {b1, b2, b3}
CHECK_DEADLOCK FALSE
SPECIFICATION Spec
INVARIANTS
  UnitBacked
  Repeatable
