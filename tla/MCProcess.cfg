\* processes and threads: exec, exit, kill, waitpid, thread_create, thread_join
SPECIFICATION Spec
CONSTANTS
  NUM_MAX_TASK = 3
  LOCK_NUM = 0
  BARRIER_NUM = 0
  CONDITION_NUM = 0
  MBOX_NUM = 0
  MAX_MBOX_LENGTH = 2
  Names = {}
  MsgLengths = {}
  MaxRef = 0
  TXDESCS = 0
  RXDESCS = 0
  PktNums = {}
  PktLens = {}
  Seconds = {}
  Goals = {}
  Unsafe = {"thread_kill"}
  MaxPid = 3
  MaxTid = 2
INVARIANTS TaskPlacement OneHart KernelLock WaitersLive ThreadCount
PROPERTY WaitReturns
