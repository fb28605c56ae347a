SPECIFICATION Spec
CONSTANTS
  Contained <- MCContained
  Leading <- MCLeading
  HexOf <- MCHexOf
  I2cIds <- MCI2cIds
  Spelling <- MCSpelling
  Latin1 <- MCLatin1
  Canonical <- MCCanonical
  Malformed <- MCMalformed
  Modinfo <- MCModinfo
  Position <- MCPosition
  MaxDriverCandidates = 2
  MaxDriverFiles = 2
  MaxFirmwareCandidates = 2
  MaxFirmwareFiles = 2
  Link = Link
  Oversize = Oversize
  Worlds <- MCWorlds
  SysfsMoves <- BoundMoves
  TableEdits <- MCTableEdits
  RootEdits <- MCRootEdits
  DefaultTables <- MCDefaultTables
  DefaultRoots <- MCDefaultRoots
  MaxChanges = 2
INVARIANTS
  TypeOK
  CandidatesAgreeWithReference
  EvidenceHasSource
  SteadySourceIsHashed
  FirmwareStaysInside
  ReadyIsHonest
  ReportReachesInstaller
  DefaultScanSucceeds
  NodesFollowParents
CHECK_DEADLOCK FALSE
