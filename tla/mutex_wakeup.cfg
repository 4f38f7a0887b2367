SPECIFICATION FairSpec
CONSTANTS
  Tasks = {t1, t2}
  Idle = idle
  NULL = null
PROPERTY UnlockWakesFirst
