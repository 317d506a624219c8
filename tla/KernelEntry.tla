---------------------------- MODULE KernelEntry ----------------------------
(***************************************************************************)
(* How a hart gets into the kernel and out of it again.                    *)
(*                                                                         *)
(* Every trap saves the user context on the kernel stack of the task that  *)
(* tp points to, BEFORE the big kernel lock is taken, and restores the     *)
(* context of the next task from its kernel stack AFTER the lock is        *)
(* released (exception_handler_entry, interrupt_helper, ret_from_kernel,   *)
(* ret_from_exception).  In between, the global pointer current_running is *)
(* shared by all harts and only meaningful to the hart that holds the      *)
(* lock.  The module interleaves these steps; what a handler decides (which *)
(* task runs next) is left open here and is the subject of module Kernel.  *)
(***************************************************************************)
EXTENDS Integers, FiniteSets

CONSTANTS Cpu,        \* the harts
          Master,     \* the hart with id 0, which boots the kernel
          Pcb,        \* the slots of the task array pcb[]
          shell,      \* the first task, created by init_pcb
          pid0_pcb,   \* the idle task of each hart: pid0_pcb and pid0_pcb2
          NULL,       \* the null pointer
          Unsafe      \* what the code lets a caller do to a task that runs:
                      \* "kill_running": do_kill of the task of another hart,
                      \* "kill_self": do_kill of the caller,
                      \* "thread_exit": do_exit of a thread that has siblings

Idle == {pid0_pcb[c] : c \in Cpu}
Task == Pcb \cup Idle

\* Each hart has an idle task of its own, which is no slot of pcb[].
ASSUME EntryAssumption ==
  /\ Master \in Cpu
  /\ shell \in Pcb
  /\ NULL \notin Task
  /\ pid0_pcb = [c \in Cpu |-> pid0_pcb[c]]
  /\ \A c \in Cpu : pid0_pcb[c] \notin Pcb
  /\ \A c, d \in Cpu : pid0_pcb[c] = pid0_pcb[d] => c = d
  /\ Unsafe \subseteq {"kill_running", "kill_self", "thread_exit"}

VARIABLES kernel_spin_lock,  \* the big kernel lock: TRUE is LOCKED
          current_running,   \* the global pointer all harts share
          runnings,          \* runnings[c]: the task hart c executes
          running,           \* the tasks whose status is TASK_RUNNING
          tp,                \* register tp of each hart
          sp,                \* the task whose kernel stack sp points into
          pc                 \* where each hart is

vars == <<kernel_spin_lock, current_running, runnings, running, tp, sp, pc>>

Where == {"boot", "init", "wait", "user", "trap", "enter", "handler",
          "switch", "ret", "unlock", "restore"}

\* The places at which a hart holds the kernel lock.
InKernel == {"init", "enter", "handler", "switch", "ret", "unlock"}

TypeOK ==
  /\ kernel_spin_lock \in BOOLEAN
  /\ current_running \in Task \cup {NULL}
  /\ runnings \in [Cpu -> Task \cup {NULL}]
  /\ running \in SUBSET Task
  /\ tp \in [Cpu -> Task \cup {NULL}]
  /\ sp \in [Cpu -> Task]
  /\ pc \in [Cpu -> Where]

\* The harts start in main(); their boot stacks are those of the idle tasks,
\* whose contexts main() becomes.
Init ==
  /\ kernel_spin_lock = FALSE
  /\ current_running = NULL
  /\ runnings = [c \in Cpu |-> NULL]
  /\ running = {}
  /\ tp = [c \in Cpu |-> NULL]
  /\ sp = pid0_pcb
  /\ pc = [c \in Cpu |-> "boot"]

Goto(c, w) == pc' = [pc EXCEPT ![c] = w]

\* Mutant: the swapped value is not looked at.
lock_kernel_blind(c, from, to) ==
  /\ pc[c] = from
  /\ kernel_spin_lock' = TRUE
  /\ Goto(c, to)
  /\ UNCHANGED <<current_running, runnings, running, tp, sp>>

\* lock_kernel: the amoswap that finds the lock free.  A swap that finds it
\* taken changes nothing.
lock_kernel(c, from, to) ==
  /\ pc[c] = from
  /\ ~ kernel_spin_lock
  /\ kernel_spin_lock' = TRUE
  /\ Goto(c, to)
  /\ UNCHANGED <<current_running, runnings, running, tp, sp>>

\* main() takes the lock first; the slave harts run only once the master, with
\* the lock held, has called wakeup_other_hart.
BootLock(c) ==
  /\ c = Master \/ pc[Master] # "boot"
  /\ lock_kernel(c, "boot", "init")

SlaveLock(c) == lock_kernel(c, "wait", "init")
TrapLock(c) == lock_kernel(c, "trap", "enter")

\* Mutant: init_pcb does not record the shell in runnings[0].
MasterInit_unrecorded(c) ==
  /\ c = Master
  /\ pc[c] = "init"
  /\ current_running' = shell
  /\ running' = running \cup {shell}
  /\ Goto(c, "switch")
  /\ UNCHANGED <<kernel_spin_lock, runnings, tp, sp>>

\* main() on the master: init_pcb makes the shell the running task, and the
\* hart leaves its boot stack through switch_to.
MasterInit(c) ==
  /\ c = Master
  /\ pc[c] = "init"
  /\ current_running' = shell
  /\ running' = running \cup {shell}
  /\ runnings' = [runnings EXCEPT ![c] = shell]
  /\ Goto(c, "switch")
  /\ UNCHANGED <<kernel_spin_lock, tp, sp>>

\* slave_wait_for_task with fewer than two queued tasks: give the lock back.
SlaveUnlock(c) ==
  /\ c # Master
  /\ pc[c] = "init"
  /\ kernel_spin_lock' = FALSE
  /\ Goto(c, "wait")
  /\ UNCHANGED <<current_running, runnings, running, tp, sp>>

\* slave_wait_for_task with a second queued task: run that task.
SlaveStart(c) ==
  /\ c # Master
  /\ pc[c] = "init"
  /\ \E t \in Pcb \ running :
       /\ runnings' = [runnings EXCEPT ![c] = t]
       /\ current_running' = t
       /\ running' = running \cup {t}
  /\ Goto(c, "switch")
  /\ UNCHANGED <<kernel_spin_lock, tp, sp>>

\* exception_handler_entry: SAVE_CONTEXT moves to the kernel stack of tp.
Trap(c) ==
  /\ pc[c] = "user"
  /\ sp' = [sp EXCEPT ![c] = tp[c]]
  /\ Goto(c, "trap")
  /\ UNCHANGED <<kernel_spin_lock, current_running, runnings, running, tp>>

\* Mutant: the handler trusts the value another hart left behind.
SetCurrent_stale(c) ==
  /\ pc[c] = "enter"
  /\ Goto(c, "handler")
  /\ UNCHANGED <<kernel_spin_lock, current_running, runnings, running, tp, sp>>

\* interrupt_helper, once it has the lock: current_running = runnings[cpu].
SetCurrent(c) ==
  /\ pc[c] = "enter"
  /\ current_running' = runnings[c]
  /\ Goto(c, "handler")
  /\ UNCHANGED <<kernel_spin_lock, runnings, running, tp, sp>>

\* A handler that keeps its task running returns to interrupt_helper.
HandlerReturn(c) ==
  /\ pc[c] = "handler"
  /\ Goto(c, "ret")
  /\ UNCHANGED <<kernel_spin_lock, current_running, runnings, running, tp, sp>>

\* do_kill: release_pcb makes the task TASK_EXITED and its slot is free for the
\* next exec, whoever runs it; the handler of the caller goes on.  The do_exit
\* of a thread with living siblings does the same to the caller, which then
\* switches to itself.
do_kill(c) ==
  /\ pc[c] = "handler"
  /\ \E t \in Pcb :
       /\ t \in running =>
            IF t = current_running THEN Unsafe \cap {"kill_self", "thread_exit"} # {}
                                   ELSE "kill_running" \in Unsafe
       /\ running' = running \ {t}
  /\ Goto(c, "ret")
  /\ UNCHANGED <<kernel_spin_lock, current_running, runnings, tp, sp>>

\* Mutant: find_idle_task does not skip the tasks that are running.
FindIdleTask_any(c) ==
  /\ pc[c] = "handler"
  /\ \E t \in Pcb \cup {pid0_pcb[c]} :
       /\ current_running' = t
       /\ running' = (running \ {current_running}) \cup {t}
       /\ runnings' = [runnings EXCEPT ![c] = t]
  /\ Goto(c, "switch")
  /\ UNCHANGED <<kernel_spin_lock, tp, sp>>

\* A handler that reschedules: the task is no longer TASK_RUNNING, and
\* find_idle_task picks a task that no hart runs, or the hart's idle task.
FindIdleTask(c) ==
  /\ pc[c] = "handler"
  /\ LET others == running \ {current_running}
     IN  \E t \in (Pcb \cup {pid0_pcb[c]}) \ others :
           /\ current_running' = t
           /\ running' = others \cup {t}
           /\ runnings' = [runnings EXCEPT ![c] = t]
  /\ Goto(c, "switch")
  /\ UNCHANGED <<kernel_spin_lock, tp, sp>>

\* switch_to: the callee-saved registers, sp among them, of the next task.
SwitchTo(c) ==
  /\ pc[c] = "switch"
  /\ sp' = [sp EXCEPT ![c] = current_running]
  /\ Goto(c, "ret")
  /\ UNCHANGED <<kernel_spin_lock, current_running, runnings, running, tp>>

\* Mutant: ret_from_kernel leaves tp alone.
LoadTp_none(c) ==
  /\ pc[c] = "ret"
  /\ Goto(c, "unlock")
  /\ UNCHANGED <<kernel_spin_lock, current_running, runnings, running, tp, sp>>

\* ret_from_kernel (and the tail of main for an idle task): ld tp ...
LoadTp(c) ==
  /\ pc[c] = "ret"
  /\ tp' = [tp EXCEPT ![c] = current_running]
  /\ Goto(c, "unlock")
  /\ UNCHANGED <<kernel_spin_lock, current_running, runnings, running, sp>>

\* Mutant: no unlock_kernel on the way out.
UnlockKernel_none(c) ==
  /\ pc[c] = "unlock"
  /\ Goto(c, "restore")
  /\ UNCHANGED <<kernel_spin_lock, current_running, runnings, running, tp, sp>>

\* ... unlock_kernel ...
UnlockKernel(c) ==
  /\ pc[c] = "unlock"
  /\ kernel_spin_lock' = FALSE
  /\ Goto(c, "restore")
  /\ UNCHANGED <<current_running, runnings, running, tp, sp>>

\* ... ret_from_exception: RESTORE_CONTEXT from the kernel stack of tp, sret.
RestoreContext(c) ==
  /\ pc[c] = "restore"
  /\ sp' = [sp EXCEPT ![c] = tp[c]]
  /\ Goto(c, "user")
  /\ UNCHANGED <<kernel_spin_lock, current_running, runnings, running, tp>>

\* The steps a hart takes by itself once it runs kernel code.
KernelStep(c) ==
  \/ MasterInit(c) \/ SlaveUnlock(c) \/ SlaveStart(c) \/ SetCurrent(c)
  \/ HandlerReturn(c) \/ do_kill(c) \/ FindIdleTask(c) \/ SwitchTo(c)
  \/ LoadTp(c) \/ UnlockKernel(c) \/ RestoreContext(c)

Next ==
  \E c \in Cpu :
    BootLock(c) \/ SlaveLock(c) \/ TrapLock(c) \/ Trap(c) \/ KernelStep(c)

Spec == Init /\ [][Next]_vars

\* Kernel code is never interrupted (traps clear SIE) and never sleeps with
\* the hart, so its steps are taken.  Nothing is assumed of the spin lock,
\* which is not fair, nor of user code.
FairSpec == Spec /\ \A c \in Cpu : WF_vars(KernelStep(c))
-----------------------------------------------------------------------------
(* Properties *)

\* At most one hart is between lock_kernel and unlock_kernel, and the lock is
\* taken exactly while one is.
KernelExclusion ==
  /\ \A c, d \in Cpu : pc[c] \in InKernel /\ pc[d] \in InKernel => c = d
  /\ kernel_spin_lock <=> \E c \in Cpu : pc[c] \in InKernel

\* interrupt_helper, "here, current_running == runnings[cpuid] -> true": while
\* a handler runs, the shared pointer names the task of the handler's hart,
\* however the other harts trap, spin and return in the meantime.
CurrentIsRunning ==
  \A c \in Cpu : pc[c] \in {"handler", "switch", "ret", "unlock"} =>
                   current_running = runnings[c]

\* Outside the kernel lock, tp names the hart's own task: SAVE_CONTEXT (before
\* lock_kernel) and RESTORE_CONTEXT (after unlock_kernel) use the right stack.
TpIsRunning ==
  \A c \in Cpu : pc[c] \in {"user", "trap", "enter", "unlock", "restore"} =>
                   tp[c] = runnings[c] /\ tp[c] \in Task

\* No kernel stack is used by two harts: a task is never resumed by a hart
\* while another one is still saving or restoring its context.  This holds as
\* long as no task gives up its slot while a hart runs it (Unsafe = {}): after
\* a do_kill of a running task find_idle_task of another hart may pick the slot
\* that exec has made of it, and with it the stack.
StackExclusive ==
  \A c, d \in Cpu :
    c # d =>
      {sp[c], tp[c], runnings[c]} \cap {sp[d], tp[d], runnings[d]} \subseteq {NULL}

\* What the proof adds: the state of a hart at each place.
BootPart ==
  \A c \in Cpu : pc[c] \in {"boot", "init", "wait"} =>
     runnings[c] = NULL /\ tp[c] = NULL /\ sp[c] = pid0_pcb[c]

\* A hart that runs a task uses that task's stack; between find_idle_task and
\* switch_to it is still on the stack of the previous task.
StackPart ==
  \A c \in Cpu :
    /\ pc[c] \in {"user", "trap", "enter", "handler", "unlock", "restore"} =>
         runnings[c] \in Task /\ sp[c] = runnings[c] /\ tp[c] = runnings[c]
    /\ pc[c] \in {"switch", "ret"} => runnings[c] \in Task
    /\ pc[c] = "ret" => sp[c] = runnings[c]

\* TASK_RUNNING marks exactly the tasks on a hart (Unsafe = {}).
RunningPart == running = {runnings[c] : c \in Cpu} \ {NULL}

\* An idle task belongs to its hart.
IdlePart ==
  \A c, d \in Cpu : pid0_pcb[c] \in {sp[d], tp[d], runnings[d]} => c = d

\* What holds whatever do_kill is used for.
ProtocolInv ==
  /\ TypeOK /\ KernelExclusion /\ CurrentIsRunning /\ TpIsRunning
  /\ BootPart /\ StackPart

\* What holds besides while no task that runs is killed.
EntryInv ==
  ProtocolInv /\ StackExclusive /\ RunningPart /\ IdlePart

\* The kernel lock is always given back, by whichever hart holds it.
LockReleased == kernel_spin_lock ~> ~ kernel_spin_lock
=============================================================================
