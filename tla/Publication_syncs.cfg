SPECIFICATION GitSpec
CONSTANTS
  p = p
  w = w
  Refs <- MCRefs
  Hosts <- MCHosts
  Syncs <- MCSyncs
  Contents <- MCContents
  RowOrder <- MCRowOrder
  Histories <- MCHistories
INVARIANTS
  RowsInv
  ReleaseIsWhole
  OfferedIsOfRelease
PROPERTIES HeadIsReleased
