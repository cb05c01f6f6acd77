\* A Steam client and one installation; two stops, two changes by others.
SPECIFICATION Spec
CONSTANTS
  MaxStops = 2
  MaxDrifts = 2
INVARIANTS
  StockRecoverable
  IdentityKept
PROPERTIES
  SteamDllKept
  LaunchRepairs
CHECK_DEADLOCK FALSE
