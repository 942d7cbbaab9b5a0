\* Two commands of the first client and one of the second, one short read, one
\* kill.  CHECK_DEADLOCK: when all clients are gone nothing happens any more.
CONSTANTS
  MAX = 2
  k1 = k1
  k2 = k2
  Clients = {k1, k2}
  Nobody = nobody
  Commands <- Typed
  Scraps <- Spelt
  ServerFiles <- Theirs
  ClientFiles <- Mine
  ClientDirs <- Dirs
  JunkSizes <- Junk
  MaxCmds <- TwoAndOne
  MaxCuts = 1
  MaxKills = 1
SPECIFICATION Spec
CHECK_DEADLOCK FALSE
INVARIANTS TypeOK AnswersRead CommandsInOrder ServerEndsBy
PROPERTIES GetCopies EveryCommandEnds
