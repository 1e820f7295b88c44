SPECIFICATION Spec
CONSTANTS
  Space = {s1, s2}
  PAGE_SIZE = 2
  NPage = 2
  Value = {0, 1}
  FileData <- MCFileData
  Ram = 4
  MEMORY_OFFSET = 4
  MaxId = 4
  FirstFit = TRUE
  Bound = {0, 2, 3}
SYMMETRY Symmetry
CHECK_DEADLOCK FALSE
INVARIANTS AllocatorHoldsRam
