CONSTANTS
  BLKWORDS = 16
  NMINODE = 5
  NInodes = 5
  NBlocks = 6
  NDirect = 2
  IntHoldsPointer = TRUE
  MaxCmds = 5
  MaxKills = 1
  MkdirPaths <- TrimMkdir
  CreatPaths <- TrimCreat
  RmdirPaths <- TrimRmdir
  UnlinkPaths <- TrimUnlink
  CdPaths <- TrimCd
  LookPaths <- None
  LinkPairs <- TrimLink
SPECIFICATION Spec
INVARIANTS TypeOK MinodesSound
PROPERTIES RemovesOne LinksFollowNames CountedEmptyRemoved
