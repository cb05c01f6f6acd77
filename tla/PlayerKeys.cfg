\* Changes that overlap, fail or die, an older launcher's key, a damaged record.
SPECIFICATION Spec
CONSTANTS
  player = player
  admin = admin
  first = first
  second = second
  moderator = moderator
  Primary = player
  None = None
  Missing = Missing
  Broken = Broken
  Foreign = Foreign
  MaxTroubles = 1
  Profiles <- MCProfiles
  KeysOf <- MCKeysOf
INVARIANTS
  KeysRemembered
  ClearedStaysCleared
  ReportUnderItsCredential
