SPECIFICATION Spec
CONSTANTS
  Inode = {1, 2, 3, 4, 5, 6, 7, 8, 9, 10, 11, 12, 13}
  root = 1
  Name <- MCName
  Data = {2, 3, 4, 5, 6, 7, 8}
  Tree <- MCTree
  Args <- MCArgs
  TempLen = 3
  PathLen = 4
  UpLen = 7
  Height = 1
INVARIANTS TypeOK OthersKept CopyComplete OnlyOldCopied
CHECK_DEADLOCK FALSE
