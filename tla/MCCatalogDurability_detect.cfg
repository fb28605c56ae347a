SPECIFICATION DSpec
CONSTANTS
  Bytes <- MCBytes
  Symlink = Symlink
  ProfilePath <- MCProfilePath
  RequiredSources <- MCSources
  LockOf <- MCLockOf
  KeysOf <- MCKeysOf
  SignatureOf <- MCSignatureOf
  ProfileOf <- MCProfileOf
  DriverAbiText <- MCDriverAbiText
  Proc = {p1}
  Pid = {i1}
  Manifest <- GoodManifests
  SizeOf <- MCSizeOf
  MaxManifestBytes = 1
  MaxObjects = 10
  MaxObjectBytes = 2
  MaxTotalBytes = 10
  Faults = {"io", "kill"}
  Faulty = {p1}
  Substitutes <- OneSubstitute
  MaxProcesses = 2
  MaxSerial = 5
  NoPid = NoPid
  NoName = NoName
  NoManifest = NoManifest
  Lost <- MCLost
  MaxPowerLosses = 1
INVARIANT DamageIsDetected
PROPERTIES
  SettledNeverChanges
  LeftoversUntouched
CHECK_DEADLOCK FALSE
