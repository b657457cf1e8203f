SPECIFICATION GitSpec
CONSTANTS
  p = p
  w = w
  Refs <- MCRefs
  Hosts <- MCHosts
  Syncs <- MCSyncs
  Contents <- MCContents
  RowOrder <- MCRowOrder
  Histories <- Refusing
INVARIANTS RefusedIsNotOffered
