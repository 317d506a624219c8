SPECIFICATION Spec
CONSTANTS
  SECTOR_SIZE = 2
  SECTORS_PER_PAGE = 2
  NUM_MAX_TASK = 2
  MAX_PFN = 7
  MAX_PRESENT_PFN = 3
  MAX_SHARE_PAGE_NUM = 1
  Images <- SmallImages
  Heap <- SmallHeap
  Keys = {1}
  Unsafe = {}
  MaxFrame = 18
  MaxSector = 12
  MaxAttach = 1
INVARIANTS
  TypeOK
  FramesExclusive
  QueuesExact
  PageKept
  DescriptorsMapped
  SharedKept
CHECK_DEADLOCK FALSE
