\* kill of one thread of a process that holds a mutex
SPECIFICATION Spec
CONSTANTS
  NUM_MAX_TASK = 3
  LOCK_NUM = 1
  BARRIER_NUM = 0
  CONDITION_NUM = 0
  MBOX_NUM = 0
  MAX_MBOX_LENGTH = 2
  Names = {}
  MsgLengths = {}
  MaxRef = 0
  TXDESCS = 0
  RXDESCS = 0
  PktNums = {}
  PktLens = {}
  Seconds = {}
  Goals = {}
  Unsafe = {"thread_kill"}
  MaxPid = 2
  MaxTid = 2
INVARIANT OneHolder
