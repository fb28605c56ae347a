SPECIFICATION FairSpec
CONSTANTS
  Bytes <- MCBytes
  Symlink = Symlink
  ProfilePath <- MCProfilePath
  RequiredSources <- MCSources
  LockOf <- MCLockOf
  KeysOf <- MCKeysOf
  SignatureOf <- MCSignatureOf
  ProfileOf <- MCProfileOf
  DriverAbiText <- MCDriverAbiText
  Proc = {p1, p2}
  Pid = {i1, i2}
  Manifest <- AllManifests
  SizeOf <- MCSizeOf
  MaxManifestBytes = 1
  MaxObjects = 10
  MaxObjectBytes = 2
  MaxTotalBytes = 10
  Faults = {"io", "fetch"}
  Faulty = {p1}
  Substitutes <- SomeSubstitutes
  MaxProcesses = 2
  MaxSerial = 3
  NoPid = NoPid
  NoName = NoName
  NoManifest = NoManifest
INVARIANTS
  PublishedIsSnapshot
  PublishedIsUsable
  NoLitter
PROPERTIES
  CallsReturn
  HealthyCallPublishes
CHECK_DEADLOCK FALSE
