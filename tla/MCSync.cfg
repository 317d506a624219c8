\* mutexes, condition variables, barriers and a mailbox under exec, exit and kill
SPECIFICATION Spec
CONSTANTS
  NUM_MAX_TASK = 3
  LOCK_NUM = 1
  BARRIER_NUM = 1
  CONDITION_NUM = 1
  MBOX_NUM = 1
  MAX_MBOX_LENGTH = 2
  Names = {1}
  MsgLengths = {2}
  MaxRef = 1
  TXDESCS = 0
  RXDESCS = 0
  PktNums = {}
  PktLens = {}
  Seconds = {}
  Goals = {3}
  Unsafe = {}
  MaxPid = 4
  MaxTid = 1
CONSTRAINT MailOrBarriers
INVARIANTS TypeOK TaskPlacement MutexOwner MailWaiters MutexExclusion
PROPERTIES NoBarging BarrierOpens
