SPECIFICATION Spec
CONSTANTS
  Tasks = {t1, t2}
  NULL = null
  SIZE = 5
  BYTE = 3
  DMA_PAGES = 2
  MAX_PAGE = 3
SYMMETRY Symmetry
CHECK_DEADLOCK FALSE
INVARIANTS TypeOK Exclusive Accounted ReturnsClear ScanExact
