\* A client that is killed while it puts a file.
CONSTANTS
  MAX = 2
  k1 = k1
  k2 = k2
  Clients = {k1, k2}
  Nobody = nobody
  Commands <- OnlyPuts
  Scraps <- Spelt
  ServerFiles <- Theirs
  ClientFiles <- Mine
  ClientDirs <- Dirs
  JunkSizes <- NoJunk
  MaxCmds <- TwoAndOne
  MaxCuts = 0
  MaxKills = 1
SPECIFICATION Spec
CHECK_DEADLOCK FALSE
PROPERTY ServerLoops
