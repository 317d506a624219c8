\* interleaved traps, spins and returns of two harts
SPECIFICATION FairSpec
CONSTANTS
  Cpu <- MCCpu
  Master <- MCMaster
  Pcb <- MCPcb
  shell <- MCshell
  pid0_pcb <- MCpid0_pcb
  NULL = NULL
  Unsafe = {}
INVARIANTS TypeOK KernelExclusion CurrentIsRunning TpIsRunning StackExclusive
PROPERTY LockReleased
