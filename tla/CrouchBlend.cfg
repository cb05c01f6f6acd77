\* Threads that race for the entries of a full table.
SPECIFICATION CrouchSpec
CONSTANTS
  t1 = t1
  t2 = t2
  a = a
  b = b
  c = c
  NoNetwork = NoNetwork
  Threads <- MCThreads
  Networks <- MCNetworks
  Buckets <- MCBuckets
  Bucket <- MCBucket
  Capacity = 2
  StaleAfter = 1
  MaxBlend = 3
  MaxBlendCalls = 4
  MaxClock = 3
  MaxGeneration = 1
SYMMETRY Symmetry
INVARIANTS
  OneEntryPerNetwork
PROPERTIES
  LiveBlendIsKept
CHECK_DEADLOCK FALSE
