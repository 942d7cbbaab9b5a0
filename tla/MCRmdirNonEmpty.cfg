CONSTANTS
  BLKWORDS = 16
  NMINODE = 6
  NInodes = 6
  NBlocks = 7
  NDirect = 2
  IntHoldsPointer = FALSE
  MaxCmds = 4
  MaxKills = 0
  MkdirPaths <- JustA
  CreatPaths <- FileInA
  RmdirPaths <- JustA
  UnlinkPaths <- None
  CdPaths <- None
  LookPaths <- None
  LinkPairs <- None
SPECIFICATION Spec
PROPERTY OnlyEmptyRemoved
