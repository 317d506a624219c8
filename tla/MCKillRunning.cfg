\* kill of a task that runs on a hart
SPECIFICATION Spec
CONSTANTS
  NUM_MAX_TASK = 2
  LOCK_NUM = 0
  BARRIER_NUM = 0
  CONDITION_NUM = 0
  MBOX_NUM = 0
  MAX_MBOX_LENGTH = 2
  Names = {}
  MsgLengths = {}
  MaxRef = 0
  TXDESCS = 0
  RXDESCS = 0
  PktNums = {}
  PktLens = {}
  Seconds = {}
  Goals = {}
  Unsafe = {"kill_running"}
  MaxPid = 2
  MaxTid = 1
INVARIANT ExitedGone
