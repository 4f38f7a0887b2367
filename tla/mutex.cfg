SPECIFICATION FairSpec
CONSTANTS
  Tasks = {t1, t2, t3}
  Idle = idle
  NULL = null
INVARIANTS MutualExclusion HolderKnown QueuedAsleep
PROPERTIES MutexReleased ImplementsLock
