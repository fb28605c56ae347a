SPECIFICATION Spec
CONSTANTS
  Contained <- MCContained
  Leading <- MCLeading
  HexOf <- MCHexOf
  I2cIds <- MCI2cIds
  Bytes <- MCBytes
  Symlink = Symlink
  ProfilePath <- MCPaths
  RequiredSources <- MCSources
  LockOf <- MCLockOf
  KeysOf <- MCKeysOf
  SignatureOf <- MCSignatureOf
  ProfileOf <- MCProfileOf
  DriverAbiText = {}
  AbiOf <- MCAbiOf
  Refused <- MCRefused
  NoFile = NoFile
  SortedPaths <- MCSorted
  Trees <- TwoTrees
  Edits <- SomeEdits
  Inventories <- MCInventories
  Options <- OneOption
  MaxRuns = 1
  MaxEdits = 2
INVARIANTS
  PlansAreLocked
CHECK_DEADLOCK FALSE
