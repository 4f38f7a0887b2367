SPECIFICATION Spec
CONSTANTS
  Procs = {p1, p2}
  FRAMES = 6
  PAGE_SIZE = 2
  USER_PAGES = 10
  STACK_PAGES = 2
  ADDRESSES = 23
  LEVELS = 2
  FANOUT = 4
  Segments <- MCSegments
  Accesses <- Proper
  Increments <- MCIncrements
  MAX_BREAK = 21
  MAX_MAPPED = 3
VIEW View
CHECK_DEADLOCK FALSE
INVARIANTS Conserved StackUnwound
PROPERTY ShrinkUnmaps
