\* Saves that interleave, fail or die, files that break, drives that go.
SPECIFICATION StoreSpec
CONSTANTS
  debug = debug
  server = server
  on = on
  client = client
  legacy = legacy
  DebugSetting = debug
  Unset = Unset
  None = None
  Missing = Missing
  Broken = Broken
  Settings <- MCSettings
  Values <- MCValues
  Installations <- MCInstallations
  LegacyPaths <- MCLegacyPaths
INVARIANTS
  NoChoiceLost
  InstallationRemembered
