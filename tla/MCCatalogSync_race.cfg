SPECIFICATION Spec
CONSTANTS
  Bytes <- MCBytes
  Symlink = Symlink
  ProfilePath <- MCProfilePath
  RequiredSources <- MCSources
  LockOf <- MCLockOf
  KeysOf <- MCKeysOf
  SignatureOf <- MCSignatureOf
  ProfileOf <- MCProfileOf
  DriverAbiText <- MCDriverAbiText
  Proc = {p1, p2}
  Pid = {i1, i2}
  Manifest <- GoodManifests
  SizeOf <- MCSizeOf
  MaxManifestBytes = 1
  MaxObjects = 10
  MaxObjectBytes = 2
  MaxTotalBytes = 10
  Faults = {"io", "remove", "kill", "admin"}
  Faulty = {p1, p2}
  Substitutes <- OneSubstitute
  MaxProcesses = 2
  MaxSerial = 3
  NoPid = NoPid
  NoName = NoName
  NoManifest = NoManifest
SYMMETRY Symmetry
INVARIANTS
  TypeOK
  OkIsMine
  StageIsMine
PROPERTIES
  ImplementsRegister
CHECK_DEADLOCK FALSE
