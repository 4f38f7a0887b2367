SPECIFICATION Spec
CONSTANTS
  Procs = {p1}
  FRAMES = 8
  PAGE_SIZE = 2
  USER_PAGES = 10
  STACK_PAGES = 2
  ADDRESSES = 23
  LEVELS = 2
  FANOUT = 4
  Segments <- MCSegments
  Accesses <- Improper
  Increments <- MCIncrements
  MAX_BREAK = 21
  MAX_MAPPED = 3
CHECK_DEADLOCK FALSE
INVARIANT Conserved
