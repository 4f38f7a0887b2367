SPECIFICATION FairSpec
CONSTANTS
  Idle = idle
  Cleanup = cleanup
  InitTask = init
  Users = {u1}
  Exiting = {u1}
  NULL = null
INVARIANTS NoDanglingTask CountExact
PROPERTIES KilledNeverScheduled NoBypass ReadyRuns KilledReclaimed
CHECK_DEADLOCK FALSE
