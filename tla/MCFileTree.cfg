SPECIFICATION FairSpec
CONSTANTS
  Addr = {1, 2, 3, 4}
  root = 1
  Name <- MCName
  Path <- MCPath
  ItrSize = 2
INVARIANTS TypeOK LinksSound OverrunOnlyLost
PROPERTIES WritesLive CommandsEnd ImplementsTree
CHECK_DEADLOCK FALSE
