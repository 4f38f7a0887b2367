SPECIFICATION Spec
CONSTANTS
  HEADER_SIZE = 2
  PAGE_SIZE = 4
  Sizes = {0, 1, 2, 5}
  MaxBreak = 17
  NULL = null
INVARIANTS Tiled Linked Merged Served BreakMapped
