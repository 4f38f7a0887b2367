SPECIFICATION Spec
CONSTANTS
  NULL = NULL
  Garbage = Garbage
  Idle = Idle
  Unnamed = Unnamed
  ROOT_INO = 2
  Initrds <- MCInitrds
  Disks <- MCDisks
  RootNames <- MCRootNames
  InitPath <- MCInitPath
  Paths <- MCPaths
  Short = {"x"}
  Long = {"long"}
  Garbled <- MCGarbled
  MaxFds = 2
  UNREAD_LIMIT = 1
INVARIANTS OpenCorrect OneParent SameFile RootIsRequested
