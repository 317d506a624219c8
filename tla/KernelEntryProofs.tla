------------------------- MODULE KernelEntryProofs -------------------------
(* Proofs about the entry and exit protocol, for any number of harts and    *)
(* tasks.                                                                   *)
EXTENDS KernelEntry, TLAPS

\* The booting machine satisfies the inductive invariants.
LEMMA EntryInit == Init => ProtocolInv /\ EntryInv
<1> SUFFICES ASSUME Init PROVE ProtocolInv /\ EntryInv
  OBVIOUS
<1> USE EntryAssumption DEF Init, Where, InKernel, Task, Idle
<1>1. TypeOK
  BY DEF TypeOK
<1>2. KernelExclusion
  BY DEF KernelExclusion
<1>3. CurrentIsRunning
  BY DEF CurrentIsRunning
<1>4. TpIsRunning
  BY DEF TpIsRunning
<1>5. StackExclusive
  BY DEF StackExclusive
<1>6. BootPart
  BY DEF BootPart
<1>7. StackPart
  BY DEF StackPart
<1>8. RunningPart
  BY DEF RunningPart
<1>9. IdlePart
  BY DEF IdlePart
<1> QED
  BY <1>1, <1>2, <1>3, <1>4, <1>5, <1>6, <1>7, <1>8, <1>9
     DEF ProtocolInv, EntryInv

\* One step of one hart keeps the invariant of the protocol, whatever task a
\* do_kill takes its slot from.
LEMMA ProtocolStep == ProtocolInv /\ [Next]_vars => ProtocolInv'
<1> SUFFICES ASSUME ProtocolInv, [Next]_vars PROVE ProtocolInv'
  OBVIOUS
<1> USE EntryAssumption
    DEF ProtocolInv, TypeOK, KernelExclusion, CurrentIsRunning, TpIsRunning,
        BootPart, StackPart, Where, InKernel, Task, Idle, Goto
<1>1. CASE UNCHANGED vars
  BY <1>1 DEF vars
<1>2. ASSUME NEW c \in Cpu, BootLock(c) PROVE ProtocolInv'
  BY <1>2, SMTT(30) DEF BootLock, lock_kernel
<1>3. ASSUME NEW c \in Cpu, SlaveLock(c) PROVE ProtocolInv'
  BY <1>3, SMTT(30) DEF SlaveLock, lock_kernel
<1>4. ASSUME NEW c \in Cpu, TrapLock(c) PROVE ProtocolInv'
  BY <1>4, SMTT(30) DEF TrapLock, lock_kernel
<1>5. ASSUME NEW c \in Cpu, Trap(c) PROVE ProtocolInv'
  BY <1>5, SMTT(30) DEF Trap
<1>6. ASSUME NEW c \in Cpu, MasterInit(c) PROVE ProtocolInv'
  BY <1>6, SMTT(30) DEF MasterInit
<1>7. ASSUME NEW c \in Cpu, SlaveUnlock(c) PROVE ProtocolInv'
  <2>1. TypeOK'
    BY <1>7 DEF SlaveUnlock
  <2>2. KernelExclusion'
    BY <1>7 DEF SlaveUnlock
  <2>3. CurrentIsRunning'
    BY <1>7 DEF SlaveUnlock
  <2>4. TpIsRunning'
    BY <1>7 DEF SlaveUnlock
  <2>5. BootPart'
    BY <1>7 DEF SlaveUnlock
  <2>6. StackPart'
    BY <1>7 DEF SlaveUnlock
  <2> QED
    BY <2>1, <2>2, <2>3, <2>4, <2>5, <2>6
<1>8. ASSUME NEW c \in Cpu, SlaveStart(c) PROVE ProtocolInv'
  BY <1>8, SMTT(30) DEF SlaveStart
<1>9. ASSUME NEW c \in Cpu, SetCurrent(c) PROVE ProtocolInv'
  BY <1>9, SMTT(30) DEF SetCurrent
<1>10. ASSUME NEW c \in Cpu, HandlerReturn(c) PROVE ProtocolInv'
  BY <1>10, SMTT(30) DEF HandlerReturn
<1>11. ASSUME NEW c \in Cpu, do_kill(c) PROVE ProtocolInv'
  BY <1>11, SMTT(30) DEF do_kill
<1>12. ASSUME NEW c \in Cpu, FindIdleTask(c) PROVE ProtocolInv'
  <2>1. TypeOK'
    BY <1>12 DEF FindIdleTask
  <2>2. KernelExclusion'
    BY <1>12 DEF FindIdleTask
  <2>3. CurrentIsRunning'
    BY <1>12 DEF FindIdleTask
  <2>4. TpIsRunning'
    BY <1>12 DEF FindIdleTask
  <2>5. BootPart'
    BY <1>12 DEF FindIdleTask
  <2>6. StackPart'
    BY <1>12 DEF FindIdleTask
  <2> QED
    BY <2>1, <2>2, <2>3, <2>4, <2>5, <2>6
<1>13. ASSUME NEW c \in Cpu, SwitchTo(c) PROVE ProtocolInv'
  BY <1>13, SMTT(30) DEF SwitchTo
<1>14. ASSUME NEW c \in Cpu, LoadTp(c) PROVE ProtocolInv'
  BY <1>14, SMTT(30) DEF LoadTp
<1>15. ASSUME NEW c \in Cpu, UnlockKernel(c) PROVE ProtocolInv'
  <2>1. TypeOK'
    BY <1>15 DEF UnlockKernel
  <2>2. KernelExclusion'
    BY <1>15 DEF UnlockKernel
  <2>3. CurrentIsRunning'
    BY <1>15 DEF UnlockKernel
  <2>4. TpIsRunning'
    BY <1>15 DEF UnlockKernel
  <2>5. BootPart'
    BY <1>15 DEF UnlockKernel
  <2>6. StackPart'
    BY <1>15 DEF UnlockKernel
  <2> QED
    BY <2>1, <2>2, <2>3, <2>4, <2>5, <2>6
<1>16. ASSUME NEW c \in Cpu, RestoreContext(c) PROVE ProtocolInv'
  BY <1>16, SMTT(30) DEF RestoreContext
<1> QED
  BY <1>1, <1>2, <1>3, <1>4, <1>5, <1>6, <1>7, <1>8, <1>9, <1>10, <1>11,
     <1>12, <1>13, <1>14, <1>15, <1>16, Zenon DEF Next, KernelStep

\* Without a do_kill of a running task, one step of one hart keeps the stacks
\* apart as well.
LEMMA EntryStep ==
  ASSUME Unsafe = {}
  PROVE  EntryInv /\ [Next]_vars => EntryInv'
<1> SUFFICES ASSUME EntryInv, [Next]_vars PROVE EntryInv'
  OBVIOUS
<1> USE EntryAssumption
    DEF EntryInv, ProtocolInv, TypeOK, KernelExclusion, CurrentIsRunning, TpIsRunning,
        StackExclusive, BootPart, StackPart, RunningPart, IdlePart, Where,
        InKernel, Task, Idle, Goto
<1>1. CASE UNCHANGED vars
  BY <1>1 DEF vars
<1>2. ASSUME NEW c \in Cpu, BootLock(c) PROVE EntryInv'
  BY <1>2, SMTT(30) DEF BootLock, lock_kernel
<1>3. ASSUME NEW c \in Cpu, SlaveLock(c) PROVE EntryInv'
  BY <1>3, SMTT(30) DEF SlaveLock, lock_kernel
<1>4. ASSUME NEW c \in Cpu, TrapLock(c) PROVE EntryInv'
  BY <1>4, SMTT(30) DEF TrapLock, lock_kernel
<1>5. ASSUME NEW c \in Cpu, Trap(c) PROVE EntryInv'
  BY <1>5, SMTT(30) DEF Trap
<1>6. ASSUME NEW c \in Cpu, MasterInit(c) PROVE EntryInv'
  BY <1>6, SMTT(30) DEF MasterInit
<1>7. ASSUME NEW c \in Cpu, SlaveUnlock(c) PROVE EntryInv'
  <2>1. TypeOK'
    BY <1>7 DEF SlaveUnlock
  <2>2. KernelExclusion'
    BY <1>7 DEF SlaveUnlock
  <2>3. CurrentIsRunning'
    BY <1>7 DEF SlaveUnlock
  <2>4. TpIsRunning'
    BY <1>7 DEF SlaveUnlock
  <2>5. StackExclusive'
    BY <1>7 DEF SlaveUnlock
  <2>6. BootPart'
    BY <1>7 DEF SlaveUnlock
  <2>7. StackPart'
    BY <1>7 DEF SlaveUnlock
  <2>8. RunningPart'
    BY <1>7 DEF SlaveUnlock
  <2>9. IdlePart'
    BY <1>7 DEF SlaveUnlock
  <2> QED
    BY <2>1, <2>2, <2>3, <2>4, <2>5, <2>6, <2>7, <2>8, <2>9
<1>8. ASSUME NEW c \in Cpu, SlaveStart(c) PROVE EntryInv'
  BY <1>8, SMTT(30) DEF SlaveStart
<1>9. ASSUME NEW c \in Cpu, SetCurrent(c) PROVE EntryInv'
  BY <1>9, SMTT(30) DEF SetCurrent
<1>10. ASSUME NEW c \in Cpu, HandlerReturn(c) PROVE EntryInv'
  BY <1>10, SMTT(30) DEF HandlerReturn
<1>11. ASSUME NEW c \in Cpu, FindIdleTask(c) PROVE EntryInv'
  <2>1. TypeOK'
    BY <1>11 DEF FindIdleTask
  <2>2. KernelExclusion'
    BY <1>11 DEF FindIdleTask
  <2>3. CurrentIsRunning'
    BY <1>11 DEF FindIdleTask
  <2>4. TpIsRunning'
    BY <1>11 DEF FindIdleTask
  <2>5. StackExclusive'
    BY <1>11 DEF FindIdleTask
  <2>6. BootPart'
    BY <1>11 DEF FindIdleTask
  <2>7. StackPart'
    BY <1>11 DEF FindIdleTask
  <2>8. RunningPart'
    <3>1. PICK t \in Pcb \cup {pid0_pcb[c]} :
             /\ running' = (running \ {current_running}) \cup {t}
             /\ runnings' = [runnings EXCEPT ![c] = t]
      BY <1>11 DEF FindIdleTask
    <3>2. current_running = runnings[c]
      BY <1>11 DEF FindIdleTask
    <3>3. ASSUME NEW d \in Cpu, d # c, runnings[d] = runnings[c]
          PROVE  runnings[d] = NULL
      <4>1. runnings[d] \in {sp[c], tp[c], runnings[c]} \cap {sp[d], tp[d], runnings[d]}
        BY <3>3
      <4>2. {sp[c], tp[c], runnings[c]} \cap {sp[d], tp[d], runnings[d]} \subseteq {NULL}
        BY <3>3
      <4> HIDE DEF EntryInv
      <4> QED
        BY <4>1, <4>2
    <3>4. pid0_pcb[c] # NULL /\ \A p \in Pcb : p # NULL
      OBVIOUS
    <3> QED
      BY <3>1, <3>2, <3>3, <3>4
  <2>9. IdlePart'
    BY <1>11 DEF FindIdleTask
  <2> QED
    BY <2>1, <2>2, <2>3, <2>4, <2>5, <2>6, <2>7, <2>8, <2>9
<1>12. ASSUME NEW c \in Cpu, SwitchTo(c) PROVE EntryInv'
  BY <1>12, SMTT(30) DEF SwitchTo
<1>13. ASSUME NEW c \in Cpu, LoadTp(c) PROVE EntryInv'
  BY <1>13, SMTT(30) DEF LoadTp
<1>14. ASSUME NEW c \in Cpu, UnlockKernel(c) PROVE EntryInv'
  <2>1. TypeOK'
    BY <1>14 DEF UnlockKernel
  <2>2. KernelExclusion'
    BY <1>14 DEF UnlockKernel
  <2>3. CurrentIsRunning'
    BY <1>14 DEF UnlockKernel
  <2>4. TpIsRunning'
    BY <1>14 DEF UnlockKernel
  <2>5. StackExclusive'
    BY <1>14 DEF UnlockKernel
  <2>6. BootPart'
    BY <1>14 DEF UnlockKernel
  <2>7. StackPart'
    BY <1>14 DEF UnlockKernel
  <2>8. RunningPart'
    BY <1>14 DEF UnlockKernel
  <2>9. IdlePart'
    BY <1>14 DEF UnlockKernel
  <2> QED
    BY <2>1, <2>2, <2>3, <2>4, <2>5, <2>6, <2>7, <2>8, <2>9
<1>15. ASSUME NEW c \in Cpu, RestoreContext(c) PROVE EntryInv'
  BY <1>15, SMTT(30) DEF RestoreContext
<1>16. ASSUME NEW c \in Cpu, do_kill(c) PROVE EntryInv'
  <2>1. running' = running
    BY <1>16 DEF do_kill
  <2> QED
    BY <1>16, <2>1, SMTT(30) DEF do_kill
<1> QED
  BY <1>1, <1>2, <1>3, <1>4, <1>5, <1>6, <1>7, <1>8, <1>9, <1>10, <1>11,
     <1>12, <1>13, <1>14, <1>15, <1>16, Zenon DEF Next, KernelStep

\* The protocol keeps its types and, above all: one hart at a time holds the
\* kernel lock, and it finds its own task in current_running.
THEOREM EntryTyped == Spec => []TypeOK
<1> QED
  BY EntryInit, ProtocolStep, PTL DEF Spec, ProtocolInv

\* No two harts are inside the kernel (interrupt_helper to unlock_kernel).
THEOREM EntryExclusion == Spec => []KernelExclusion
<1> QED
  BY EntryInit, ProtocolStep, PTL DEF Spec, ProtocolInv

\* The comment in interrupt_helper holds: current_running is the task of the
\* hart whose handler runs.
THEOREM EntryCurrent == Spec => []CurrentIsRunning
<1> QED
  BY EntryInit, ProtocolStep, PTL DEF Spec, ProtocolInv

\* SAVE_CONTEXT and RESTORE_CONTEXT address the stack of the hart's own task,
\* though they run while another hart may have the lock.
THEOREM EntryTp == Spec => []TpIsRunning
<1> QED
  BY EntryInit, ProtocolStep, PTL DEF Spec, ProtocolInv

\* As long as no task gives up its slot while a hart runs it, no kernel stack
\* serves two harts although SAVE_CONTEXT and RESTORE_CONTEXT run outside the
\* lock.
THEOREM EntryStacks ==
  ASSUME Unsafe = {}
  PROVE  Spec => []StackExclusive
<1> QED
  BY EntryInit, EntryStep, PTL DEF Spec, EntryInv
=============================================================================
