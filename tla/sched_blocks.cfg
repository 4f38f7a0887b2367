SPECIFICATION Spec
CONSTANTS
  Idle = idle
  Cleanup = cleanup
  InitTask = init
  Users = {u1}
  Exiting = {}
  NULL = null
CHECK_DEADLOCK FALSE
INVARIANT NeverBlocks
