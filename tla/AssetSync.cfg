\* Every interleaving, stop and drift on three files and two assets.
SPECIFICATION Spec
CONSTANTS
  ui = ui
  bank = bank
  map = map
  pack = pack
  voice = voice
  v1 = v1
  v2 = v2
  Absent = Absent
  None = None
  Vanilla = Vanilla
  Missing = Missing
  Altered = Altered
  Torn = Torn
  Files <- MCFiles
  Assets <- MCAssets
  Versions <- MCVersions
  FilesOf <- MCFilesOf
  Zips <- MCZips
  Manifests <- MCManifests
  VanillaFiles <- MCVanillaFiles
  SameSize <- MCSameSize
INVARIANTS
  
  ClientIsLedgerOverVanilla
  NoUnlistedFeedFile
PROPERTY
  SyncInstallsManifest
CONSTRAINT FewMishaps
