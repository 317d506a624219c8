\* a transmit ring filled to the last descriptor
SPECIFICATION FairSpec
CONSTANTS
  NUM_MAX_TASK = 2
  LOCK_NUM = 0
  BARRIER_NUM = 0
  CONDITION_NUM = 0
  MBOX_NUM = 0
  MAX_MBOX_LENGTH = 2
  Names = {}
  MsgLengths = {}
  MaxRef = 0
  TXDESCS = 2
  RXDESCS = 3
  PktNums = {}
  PktLens = {1}
  Seconds = {}
  Goals = {}
  Unsafe = {}
  MaxPid = 3
  MaxTid = 1
PROPERTIES SendersWake
