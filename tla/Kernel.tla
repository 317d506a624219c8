------------------------------- MODULE Kernel -------------------------------
(***************************************************************************)
(* The kernel's scheduler, processes and synchronisation together: two     *)
(* harts, any interleaving of the system calls of their tasks, timer       *)
(* interrupts and the passing of time.                                     *)
(***************************************************************************)
EXTENDS Process, Mailbox, FiniteSets

vars == <<schedVars, procVars, wakeup_time, mutexVars, barriers, nicVars, mailboxes>>

TypeOK == StateTypeOK /\ SyncTypeOK /\ ProcessTypeOK /\ MailTypeOK

\* The state in which main() on hart 0 resumes the shell: init_pcb has created
\* it as the only task, init_locks and init_barriers have run, and the slave
\* hart is in slave_wait_for_task.  The pcbs are zero-initialised (status 0 is
\* TASK_BLOCKED).
Init ==
  /\ kernel_spin_lock = UNLOCKED
  /\ runnings = [c \in Cpu |-> IF c = 0 THEN 0 ELSE NULL]
  /\ status = [p \in Pcb |-> IF p = 0 THEN "RUNNING" ELSE "BLOCKED"]
  /\ list = [h \in ListHead |-> IF h = ready_queue THEN <<0>> ELSE <<>>]
  /\ cont = [t \in Task |-> User]
  /\ pid = [p \in Pcb |-> IF p = 0 THEN 1 ELSE 0]
  /\ process_id = 2
  /\ threads = [q \in Pid |-> IF q = 1 THEN 1 ELSE 0]
  /\ tid = [p \in Pcb |-> IF p = 0 THEN 1 ELSE 0]
  /\ wakeup_time = [p \in Pcb |-> 0]
  /\ mlocks = [m \in Mutex |-> [lock |-> FALSE, pid |-> 0]]
  /\ holds = [m \in Mutex |-> {}]
  /\ barriers = [b \in Barrier |-> [goal |-> 0, current |-> 0]]
  /\ tx = 0
  /\ rx = 0
  /\ mailboxes = [b \in Mbox |-> Free]

SchedStep(c) ==
  \/ /\ Timer(c) \/ check_sleeping(c) \/ do_scheduler(c)
     /\ UNCHANGED <<procVars, wakeup_time, mutexVars, barriers, nicVars>>
  \/ do_sleep(c) /\ UNCHANGED <<procVars, mutexVars, barriers, nicVars>>

\* Everything but the mailboxes.
KernelStep ==
  \/ \E c \in Cpu : SchedStep(c)
  \/ \E c \in Cpu : SyncStep(c) /\ UNCHANGED <<process_id, threads, tid, nicVars>>
  \/ \E c \in Cpu : ProcessStep(c) /\ UNCHANGED nicVars
  \/ \E c \in Cpu : NetStep(c) /\ UNCHANGED <<procVars, wakeup_time, mutexVars, barriers>>
  \/ /\ slave_wait_for_task
     /\ UNCHANGED <<procVars, wakeup_time, mutexVars, barriers, nicVars>>
  \/ Tick /\ UNCHANGED <<procVars, mutexVars, barriers, nicVars>>
  \/ /\ Transmitted \/ Received
     /\ UNCHANGED <<procVars, wakeup_time, mutexVars, barriers>>

Next ==
  \/ KernelStep /\ UNCHANGED mailboxes
  \/ /\ \E c \in Cpu : MailStep(c)
     /\ UNCHANGED <<procVars, wakeup_time, barriers, nicVars>>

Spec == Init /\ [][Next]_vars

-----------------------------------------------------------------------------
(* Fairness *)

\* The steps of kernel code that hart c has begun.
Continue(c) ==
  \/ /\ UNCHANGED mailboxes
     /\ \/ check_sleeping(c) /\ UNCHANGED <<procVars, wakeup_time, mutexVars, barriers, nicVars>>
        \/ do_scheduler(c) /\ UNCHANGED <<procVars, wakeup_time, mutexVars, barriers, nicVars>>
        \/ CondReacquire(c) /\ UNCHANGED <<procVars, wakeup_time, barriers, nicVars>>
        \/ ExitEnd(c) /\ UNCHANGED <<mutexVars, wakeup_time, barriers, nicVars>>
        \/ KillEnd(c) /\ UNCHANGED <<mutexVars, wakeup_time, barriers, nicVars>>
        \/ release_locks(c) /\ UNCHANGED <<procVars, wakeup_time, barriers, nicVars>>
        \/ JoinResume(c) /\ UNCHANGED <<procVars, mutexVars, wakeup_time, barriers, nicVars>>
        \/ NetSendResume(c) /\ UNCHANGED <<procVars, wakeup_time, mutexVars, barriers>>
        \/ NetRecv(c) /\ UNCHANGED <<procVars, wakeup_time, mutexVars, barriers>>
  \/ MailContinue(c) /\ UNCHANGED <<procVars, wakeup_time, barriers, nicVars>>

SomeTimer ==
  /\ \E c \in Cpu : Timer(c)
  /\ UNCHANGED <<procVars, wakeup_time, mutexVars, barriers, nicVars, mailboxes>>

\* Kernel code runs to its end (interrupts are off); time passes (strong
\* fairness, because Tick is not taken inside a stretch of kernel code); the
\* card sends the packets of a ring that it does not take for empty; and the
\* timer of SOME hart is served again and again: a pending timer interrupt is
\* taken before the next user instruction, so user code cannot keep a hart
\* that leaves the kernel from entering it for the timer.  No hart is assumed
\* to win the spin lock ever: the lock is not fair.
FairSpec ==
  /\ Spec
  /\ \A c \in Cpu : WF_vars(Continue(c))
  /\ SF_vars(SomeTimer)
  /\ SF_vars(Tick /\ UNCHANGED <<procVars, mutexVars, barriers, nicVars, mailboxes>>)
  /\ WF_vars(Transmitted /\ UNCHANGED <<procVars, wakeup_time, mutexVars, barriers, mailboxes>>)

-----------------------------------------------------------------------------
(* Properties *)

\* p is being torn down by the hart that holds the kernel lock.
Dying(p) ==
  \E c \in Cpu :
    /\ InKernel(c, "exit") \/ InKernel(c, "kill")
    /\ cont[runnings[c]].x = p

\* No task is lost and none is on the wrong list: a used slot is linked
\* exactly once, on ready_queue iff it is ready or running; only a task in the
\* middle of release_pcb is on no list; an unused slot is on none.
TaskPlacement ==
  /\ LinkedOnce(list)
  /\ \A p \in Pcb, h \in ListHead :
       On(list, h, p) => /\ pid[p] # 0
                         /\ status[p] # "EXITED"
                         /\ h = ready_queue <=> status[p] \in {"READY", "RUNNING"}
  /\ \A p \in Pcb :
       pid[p] # 0 => \/ \E h \in ListHead : On(list, h, p)
                     \/ status[p] = "EXITED" /\ Dying(p)

\* No task runs on two harts, and TASK_RUNNING is set exactly on the tasks
\* that harts run: what find_idle_task and slave_wait_for_task rely on.
OneHart ==
  /\ \A c, d \in Cpu : runnings[c] = runnings[d] /\ runnings[c] # NULL => c = d
  /\ \A p \in Pcb : status[p] = "RUNNING" => \E c \in Cpu : runnings[c] = p
  /\ \A c \in Cpu :
       runnings[c] \in Pcb => /\ pid[runnings[c]] # 0
                              /\ \/ status[runnings[c]] = "RUNNING"
                                 \/ InKernel(c, "exit")

\* A hart that is in user mode runs a task that has nothing left to do in the
\* kernel; a hart in the kernel runs one that has.
KernelLock ==
  \A c \in Cpu : runnings[c] # NULL =>
    (cont[runnings[c]].op # "user" <=> kernel_spin_lock = c)

\* Whoever waits for the end of a task waits for a live one, which will wake it.
WaitersLive ==
  \A p, q \in Pcb : On(list, wait_list(p), q) => pid[p] # 0

\* waitpid and thread_join do not return before the awaited task is gone.
WaitReturns ==
  [][\A p, q \in Pcb :
       On(list, wait_list(p), q) /\ ~ On(list', wait_list(p), q) =>
         pid'[p] = 0 \/ status'[q] = "EXITED"]_vars

\* A slot given up by exit or kill is run by no hart and linked into no list:
\* "remove the task from list(ready_queue, block_queue, etc)".
ExitedGone ==
  \A p \in Pcb : pid[p] = 0 => /\ \A c \in Cpu : runnings[c] # p
                               /\ \A h \in ListHead : ~ On(list, h, p)

\* threads[q] counts the tasks of process q that have not begun to exit: the
\* count decides whether exit and kill free the address space.
ThreadCount ==
  \A q \in Pid \ {0} :
    threads[q] = Cardinality({p \in Pcb : pid[p] = q /\ status[p] # "EXITED"})

\* What the proofs add to these invariants.  runnings[c] is a slot or the idle
\* task of the hart itself, and only a started hart takes the kernel lock.
HartPart ==
  /\ \A c \in Cpu : runnings[c] \in Pcb \cup {pid0_pcb(c), NULL}
  /\ runnings[0] # NULL
  /\ \A c \in Cpu : kernel_spin_lock = c => runnings[c] # NULL

\* Idle tasks make no system calls; a mutex to acquire again exists; and a task
\* that is tearing down another, or itself, is not preempted.
ContPart ==
  \A t \in Task :
    /\ cont[t].op \notin {"user", "sched"} => t \in Pcb
    /\ cont[t].op = "acquire" => cont[t].x \in Mutex
    /\ cont[t].op \in {"exit", "kill"} =>
         \E c \in Cpu : kernel_spin_lock = c /\ runnings[c] = t

\* The task being torn down still has its slot; exit tears down the last
\* thread of its process.
TearPart ==
  \A t \in Task : cont[t].op \in {"exit", "kill"} =>
    /\ cont[t].x \in Pcb
    /\ pid[cont[t].x] # 0
    /\ status[cont[t].x] = "EXITED"
    /\ cont[t].y \in 0 .. LOCK_NUM
    /\ cont[t].op = "exit" => cont[t].x = t /\ threads[pid[t]] = 0

\* Until the slave hart starts, the task of hart 0 is the first of ready_queue:
\* the second one, which slave_wait_for_task takes, is not running.
BootPart ==
  runnings[1] = NULL /\ runnings[0] \in Pcb /\ status[runnings[0]] = "RUNNING" =>
    list[ready_queue] # <<>> /\ list[ready_queue][1] = runnings[0]

KernelInv ==
  /\ TypeOK /\ TaskPlacement /\ OneHart /\ KernelLock /\ WaitersLive /\ ThreadCount
  /\ HartPart /\ ContPart /\ TearPart /\ BootPart

\* A mutex is locked iff it has an owner, the owner's pid is that of a live
\* task (the locks of the dead have been released), and nobody queues for a
\* free mutex.
MutexOwner ==
  \A m \in Mutex :
    /\ mlocks[m].lock <=> mlocks[m].pid # 0
    /\ mlocks[m].lock => \E p \in Pcb : pid[p] = mlocks[m].pid
    /\ list[block_queue(m)] # <<>> => mlocks[m].lock

\* At most one task holds a mutex, and the mutex records that task's pid.
MutexExclusion ==
  \A m \in Mutex :
    /\ \A p, q \in holds[m] : p = q
    /\ mlocks[m].lock <=> holds[m] # {}
    /\ \A p \in holds[m] : pid[p] = mlocks[m].pid

\* Exit and kill "release all the locks that exited is holding", and no other:
\* a mutex never has two holders.
OneHolder == \A m \in Mutex : \A p, q \in holds[m] : p = q

\* A mutex is granted in the order of the queue: nobody overtakes a waiter.
NoBarging ==
  [][\A m \in Mutex : \A p \in holds'[m] \ holds[m] :
       list[block_queue(m)] # <<>> => p = list[block_queue(m)][1]]_vars

\* A barrier opens for all its waiters at once, and only when as many tasks as
\* its goal says have arrived since it last opened.
BarrierOpens ==
  [][\A b \in Barrier :
       LET q == list[block_list(b)]
       IN  \A i \in DOMAIN q :
             On(list', block_list(b), q[i]) \/ status'[q[i]] = "EXITED"
             \/ /\ Len(q) + 1 >= barriers[b].goal
                /\ list'[block_list(b)] = <<>>
                /\ barriers'[b].current = 0]_vars

\* No wakeup of a mailbox is lost, by the code's own test: a task is on the send
\* list only while can_write_to_buffer denies its message, on the receive list
\* only while can_read_from_buffer does.  Both go by the counters, which drift
\* (do_mbox_recv advances nread twice for a byte), so that what they deny may
\* be there all the same: after a send, a receive and a send of one byte into a
\* buffer of two they deny the receipt of the second one.
MailWaiters ==
  \A b \in Mbox, p \in Pcb :
    /\ On(list, send_list(b), p) => Using(p, b) /\ ~ can_write_to_buffer(b, cont[p].y)
    /\ On(list, recv_list(b), p) => Using(p, b) /\ ~ can_read_from_buffer(b, -cont[p].y)

\* The kernel lock is always given back.
LockReturned == kernel_spin_lock # UNLOCKED ~> kernel_spin_lock = UNLOCKED

\* A ready task gets a hart, whatever the others do: ready_queue starves nobody.
ReadyRuns ==
  \A p \in Pcb : status[p] = "READY" ~> status[p] # "READY"

\* A sleeping task wakes up (or is killed).
SleepersWake ==
  \A p \in Pcb : On(list, sleep_queue, p) ~> ~ On(list, sleep_queue, p)

\* No wakeup from the network card is lost: while a descriptor is free no task
\* keeps waiting for one, and while a packet is there no task keeps waiting for
\* one.  (Another task may take it first, and the next wait begins.)
NetWakes ==
  \A p \in Pcb, h \in {send_block_queue, recv_block_queue} :
    On(list, h, p) /\ NetReady(h) ~> ~ On(list, h, p) \/ ~ NetReady(h)

\* A sender blocks "when e1000 transmit queue is full", until it is not.
SendersWake ==
  \A p \in Pcb : On(list, send_block_queue, p) ~> ~ On(list, send_block_queue, p)
=============================================================================
