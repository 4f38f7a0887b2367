SPECIFICATION Spec
CONSTANTS
  Idle = idle
  Cleanup = cleanup
  InitTask = init
  Users = {u1}
  Exiting = {u1}
  NULL = null
CHECK_DEADLOCK FALSE
PROPERTY OnlyKilledRemoved
