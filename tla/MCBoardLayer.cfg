CONSTANTS
  Inputs <- MCInputs
  Place <- MCPlace
  MaxKills = 1
SPECIFICATION LayerSpec
INVARIANTS
  InstalledOnce
  ClockTogether
