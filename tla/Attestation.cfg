SPECIFICATION Spec
CONSTANTS
  Absent = Absent
  Paths <- MCPaths
  Versions <- MCVersions
  Stamp <- MCStamp
  Digest <- MCDigest
  Builds = {"b1", "b2"}
  Installed = "b1"
  Pristine <- MCPristine
  Artifacts <- MCArtifacts
  PatchFile = "dinput8"
  Ledgers <- MCLedgers
  ExcludedPaths = {"settings"}
  InterestingPaths = {"dinput8", "vivox", "pack"}
  OutsideChanges <- MCOutside
  MaxLost = 1
  MaxGone = 1
  PlayerFiles <- MCPlayerFiles
  DatesReturn = FALSE
INVARIANTS
  
  HonestTreeIsClean
