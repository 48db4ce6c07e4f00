SPECIFICATION FairSpec
CONSTANTS
  Threads = {t1}
  Buffers = {b1}
  MaxCalls = 1
  MaxRebinds = 1
  MaxItems = 3
  MaxOpens = 2
  None = None
INVARIANTS
  NoLostRing
  QuietAfterUnbind
PROPERTIES
  PacketsArrive
