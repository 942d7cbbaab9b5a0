SPECIFICATION Spec
CONSTANTS
  Pid = {1, 2, 3, 4}
  shell = 1
  Pipe = {"p", "q"}
  File = {"f", "g", "h"}
  Files <- MCFiles
  Maker <- MCMaker
  Filters = {"cat"}
  Line <- MCLine
  PipeSize = 1
  MaxFd = 5
  MaxLines = 2
  MaxTyped = 1
INVARIANTS TypeOK Wired
PROPERTIES ProcessesEnd
CHECK_DEADLOCK FALSE
