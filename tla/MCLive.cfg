\* progress: the kernel lock, ready_queue and sleep_queue
SPECIFICATION FairSpec
CONSTANTS
  NUM_MAX_TASK = 3
  LOCK_NUM = 1
  BARRIER_NUM = 0
  CONDITION_NUM = 0
  MBOX_NUM = 0
  MAX_MBOX_LENGTH = 2
  Names = {}
  MsgLengths = {}
  MaxRef = 0
  TXDESCS = 0
  RXDESCS = 0
  PktNums = {}
  PktLens = {}
  Seconds = {1}
  Goals = {}
  Unsafe = {}
  MaxPid = 3
  MaxTid = 1
PROPERTIES LockReturned ReadyRuns SleepersWake
