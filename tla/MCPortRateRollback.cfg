SPECIFICATION Spec
CONSTANTS
  eth1 = eth1
  eth2 = eth2
  Ports = {eth1, eth2}
  Initial <- MCInitial
  None = None
  MaxLoose = 1
PROPERTIES
  RollbackAlone
