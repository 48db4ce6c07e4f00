SPECIFICATION FairSpec
CONSTANTS
  Threads = {t1, t2}
  Buffers = {b1, b2}
  MaxCalls = 4
  MaxRebinds = 1
  MaxItems = 0
  MaxOpens = 0
  None = None
INVARIANTS
  MwAgreement
PROPERTIES
  ImplementsRpc
  CallsReturn
