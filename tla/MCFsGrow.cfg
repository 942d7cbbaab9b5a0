CONSTANTS
  BLKWORDS = 13
  NMINODE = 5
  NInodes = 5
  NBlocks = 6
  NDirect = 2
  IntHoldsPointer = TRUE
  MaxCmds = 5
  MaxKills = 1
  MkdirPaths <- GrowMkdir
  CreatPaths <- GrowCreat
  RmdirPaths <- None
  UnlinkPaths <- None
  CdPaths <- GrowCd
  LookPaths <- GrowLook
  LinkPairs <- GrowLink
SPECIFICATION Spec
INVARIANTS RecordsInitialised BlocksOwnedOnce RefCountsUsers NamesUnique TreeShaped
PROPERTIES NewInodeWritten RecordsStay
