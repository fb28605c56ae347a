SPECIFICATION Spec
CONSTANTS
  Contained <- MCContained
  Leading <- MCLeading
  HexOf <- MCHexOf
  I2cIds <- MCI2cIds
  Bytes <- MCBytes
  Symlink = Symlink
  ProfilePath <- MCPaths
  RequiredSources <- MCSources
  LockOf <- MCLockOf
  KeysOf <- MCKeysOf
  SignatureOf <- MCSignatureOf
  ProfileOf <- MCProfileOf
  DriverAbiText = {}
  AbiOf <- MCAbiOf
  Refused <- MCRefused
  NoFile = NoFile
  SortedPaths <- MCSorted
  Trees <- BothTrees
  Edits <- SomeEdits
  Inventories <- MCInventories
  Options <- AllOptions
  MaxRuns = 2
  MaxEdits = 2
CONSTRAINT Focus
INVARIANTS
  TypeOK
  SelectionAgreesWithReference
  NoConflictOnDevice
  PlanFitsMachine
  SuccessCoversMachine
  PlansAreSigned
  SuccessIsOnDisk
  UneditedPlansAreLocked
PROPERTIES
  OutputChangesOnlyWhenCovered
CHECK_DEADLOCK FALSE
