SPECIFICATION Spec
CONSTANTS
  SECTOR_SIZE = 2
  SECTORS_PER_PAGE = 2
  NUM_MAX_TASK = 2
  MAX_PFN = 3
  MAX_PRESENT_PFN = 3
  MAX_SHARE_PAGE_NUM = 1
  Images <- SmallImages
  Heap <- SmallHeap
  Keys = {}
  Unsafe = {}
  MaxFrame = 18
  MaxSector = 12
  MaxAttach = 1
INVARIANTS
  NoHalt
CHECK_DEADLOCK FALSE
