SPECIFICATION FairSpec
CONSTANTS
  Tasks = {t1, t2}
  NULL = null
  Minors = {0, 3}
  Counts = {1, 3}
  Lbas = {5}
  DMA_BLOCKS = 3
INVARIANTS WakeupComing CopyAfterTransfer TransferOwned LockReturned DmaFits ReadsWanted
PROPERTY ReadReturns
