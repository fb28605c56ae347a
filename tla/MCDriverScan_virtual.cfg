SPECIFICATION Spec
CONSTANTS
  Contained <- MCContained
  Leading <- MCLeading
  HexOf <- MCHexOf
  I2cIds <- MCI2cIds
  Spelling <- MCSpelling
  Latin1 <- MCLatin1
  Canonical <- MCCanonical
  Malformed <- MCMalformed
  Modinfo <- MCModinfo
  Position <- MCPosition
  MaxDriverCandidates = 2
  MaxDriverFiles = 2
  MaxFirmwareCandidates = 2
  MaxFirmwareFiles = 2
  Link = Link
  Oversize = Oversize
  Worlds <- VirtualWorlds
  SysfsMoves <- BoundMoves
  TableEdits <- MCTableEdits
  RootEdits <- MCRootEdits
  DefaultTables <- MCDefaultTables
  DefaultRoots <- MCDefaultRoots
  MaxChanges = 0
CHECK_DEADLOCK FALSE
INVARIANT UnresolvedArePhysical
