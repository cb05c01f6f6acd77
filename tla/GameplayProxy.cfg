\* A game with the proxy loaded; the marker comes and goes, two calls may fail.
SPECIFICATION Spec
CONSTANTS
  StableReads = 2
  ReadLimit = 3
  MaxFaults = 2
INVARIANTS
  RefusedMeansStock
  StanceNeedsPair
PROPERTY
  MarkerIsLiveSwitch
CHECK_DEADLOCK FALSE
