CONSTANTS
  Depth = 3
  Group = 2
  Width = 3
  Grain = 1
  Inputs <- MCInputs
SPECIFICATION Spec
INVARIANT CoversAsRead
PROPERTIES LockHolds ChangesAreTold
