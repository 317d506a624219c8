---------------------------- MODULE KernelState ----------------------------
(***************************************************************************)
(* The tasks, the lists they are on, and the scheduler (sched.c, time.c,   *)
(* smp.c) of a two-hart machine under the big kernel lock.                 *)
(*                                                                         *)
(* A step is a stretch of kernel code that one hart executes with the lock *)
(* held; module KernelEntry justifies that granularity.  A stretch ends    *)
(* where the hart returns to user mode and releases the lock, where        *)
(* switch_to resumes another task inside the kernel, or at the head of a   *)
(* loop.  cont[t] is what task t does when it next runs: User (return to    *)
(* user mode through ret_from_kernel), or the rest of a kernel function.   *)
(* The lock stays with the hart as long as the task it runs is in the      *)
(* kernel.                                                                 *)
(***************************************************************************)
EXTENDS Lists

CONSTANTS NUM_MAX_TASK,    \* slots of pcb[]
          LOCK_NUM,        \* mutex locks
          BARRIER_NUM,     \* barriers
          CONDITION_NUM,   \* condition variables
          MBOX_NUM,        \* mailboxes
          TXDESCS,         \* transmit descriptors of the network card
          RXDESCS,         \* its receive descriptors
          Seconds          \* the arguments user programs pass to sleep

ASSUME KernelAssumption ==
  /\ NUM_MAX_TASK \in Nat \ {0}
  /\ LOCK_NUM \in Nat
  /\ BARRIER_NUM \in Nat
  /\ CONDITION_NUM \in Nat
  /\ MBOX_NUM \in 0 .. LOCK_NUM   \* a mailbox takes the mutex of its number
  /\ TXDESCS \in Nat
  /\ RXDESCS \in Nat
  /\ Seconds \subseteq Nat

Cpu == {0, 1}
Pcb == 0 .. (NUM_MAX_TASK - 1)
pid0_pcb(c) == -1 - c
Task == Pcb \cup {pid0_pcb(c) : c \in Cpu}
NULL == -3

Mutex == 0 .. (LOCK_NUM - 1)
Barrier == 0 .. (BARRIER_NUM - 1)
Condition == 0 .. (CONDITION_NUM - 1)
Mbox == 0 .. (MBOX_NUM - 1)

\* The list heads.
ready_queue == <<"ready_queue", 0>>
sleep_queue == <<"sleep_queue", 0>>
wait_list(p) == <<"wait_list", p>>
block_queue(m) == <<"block_queue", m>>
block_list(b) == <<"block_list", b>>
cond_list(k) == <<"cond_list", k>>
send_list(b) == <<"send_list", b>>
recv_list(b) == <<"recv_list", b>>
send_block_queue == <<"send_block_queue", 0>>
recv_block_queue == <<"recv_block_queue", 0>>

ListHead == {ready_queue, sleep_queue, send_block_queue, recv_block_queue}
           \cup {wait_list(p) : p \in Pcb}
           \cup {block_queue(m) : m \in Mutex} \cup {block_list(b) : b \in Barrier}
           \cup {cond_list(k) : k \in Condition}
           \cup {send_list(b) : b \in Mbox} \cup {recv_list(b) : b \in Mbox}

Status == {"BLOCKED", "RUNNING", "READY", "EXITED"}

\* Continuations: the function a task is in, and its two locals that survive.
Op == {"user", "sched", "acquire", "exit", "kill", "join", "net_send", "net_recv",
       "mbox_acquire", "mbox_loop", "mbox_end"}
Cont == [op : Op, x : Int, y : Int]
User == [op |-> "user", x |-> 0, y |-> 0]
Sched == [op |-> "sched", x |-> 0, y |-> 0]

UNLOCKED == -1

VARIABLES kernel_spin_lock,  \* UNLOCKED, or the hart that holds it
          runnings,          \* runnings[c]; NULL before the slave hart starts
          status,            \* pcb->status (nobody reads that of an idle task)
          list,              \* the lists, by head
          cont,              \* where each task resumes
          pid,               \* pcb->pid; 0 marks an unused slot
          wakeup_time,       \* seconds left before a sleeper may wake
          tx,                \* packets handed to the card and not yet sent
          rx                 \* packets received and not yet read

schedVars == <<kernel_spin_lock, runnings, status, list, cont>>
nicVars == <<tx, rx>>

StateTypeOK ==
  /\ kernel_spin_lock \in Cpu \cup {UNLOCKED}
  /\ runnings \in [Cpu -> Task \cup {NULL}]
  /\ status \in [Pcb -> Status]
  /\ list \in [ListHead -> Seq(Pcb)]
  /\ cont \in [Task -> Cont]
  /\ wakeup_time \in [Pcb -> Nat]
  /\ tx \in 0 .. TXDESCS
  /\ rx \in 0 .. RXDESCS

\* Hart c traps: it is in user mode (or idle) and gets the lock.
Trap(c) == kernel_spin_lock = UNLOCKED /\ runnings[c] # NULL

\* The trap is a system call of a user task.
Syscall(c) == Trap(c) /\ runnings[c] \in Pcb

\* Hart c holds the lock and its task continues function op.
InKernel(c, op) == kernel_spin_lock = c /\ cont[runnings[c]].op = op

\* Mutant: a path back to user mode that forgets unlock_kernel.
ret_from_kernel_locked(c) ==
  /\ cont' = [cont EXCEPT ![runnings[c]] = User]
  /\ UNCHANGED <<kernel_spin_lock, runnings>>

\* The hart goes back to user mode in the same task.
ret_from_kernel(c) ==
  /\ kernel_spin_lock' = UNLOCKED
  /\ cont' = [cont EXCEPT ![runnings[c]] = User]
  /\ UNCHANGED runnings

\* Statuses S after t->status = v.
SetStatus(S, t, v) == [p \in Pcb |-> IF p = t THEN v ELSE S[p]]

\* find_idle_task's choice t, given lists L and statuses S: the first task of
\* ready_queue that is not running, else the idle task of the hart.
Idles(c, L, S, t) ==
  LET q == L[ready_queue]
  IN  \/ \E i \in DOMAIN q : /\ t = q[i] /\ S[t] # "RUNNING"
                             /\ \A j \in 1 .. (i - 1) : S[q[j]] = "RUNNING"
      \/ t = pid0_pcb(c) /\ \A i \in DOMAIN q : S[q[i]] = "RUNNING"

\* find_idle_task, then switch_to the chosen task: the hart continues what
\* that task was doing, with the lock held unless it returns to user mode.
\* L, S and K are the lists, statuses and continuations at the call.
find_idle_task(c, L, S, K) ==
  \E t \in Pcb \cup {pid0_pcb(c)} :
    /\ Idles(c, L, S, t)
    /\ list' = L
    /\ status' = SetStatus(S, t, "RUNNING")
    /\ runnings' = [runnings EXCEPT ![c] = t]
    /\ cont' = K
    /\ kernel_spin_lock' = IF K[t].op = "user" THEN UNLOCKED ELSE c

\* do_block the running task of hart c on list h; it will resume at k.
do_block(c, L, S, h, k) ==
  LET p == runnings[c]
  IN  find_idle_task(c, Moved(L, p, h), [S EXCEPT ![p] = "BLOCKED"],
                     [cont EXCEPT ![p] = k])

\* Statuses after do_unblock of every task on list h.
Readied(S, L, h) ==
  [p \in Pcb |-> IF On(L, h, p) THEN "READY" ELSE S[p]]

\* do_unblock every task on list h, in order.
UnblockAll(L, S, h) ==
  /\ list' = Drained(L, h, ready_queue)
  /\ status' = Readied(S, L, h)

-----------------------------------------------------------------------------
(* Scheduler actions *)

\* handle_irq_timer, or the yield system call: do_scheduler begins.
Timer(c) ==
  /\ Trap(c)
  /\ kernel_spin_lock' = c
  /\ cont' = [cont EXCEPT ![runnings[c]] = Sched]
  /\ UNCHANGED <<runnings, status, list>>

\* Mutant: the comparison of check_sleeping is strict.
Expired_late(i) == wakeup_time[list[sleep_queue][i]] < 0

\* The sleeper at position i has reached its wakeup_time.
Expired(i) == wakeup_time[list[sleep_queue][i]] = 0

\* Mutant: the sleeper is made ready without leaving sleep_queue.
check_sleeping_linked(c) ==
  /\ InKernel(c, "sched")
  /\ \E i \in DOMAIN list[sleep_queue] :
       /\ Expired(i) /\ \A j \in 1 .. (i - 1) : ~ Expired(j)
       /\ status' = [status EXCEPT ![list[sleep_queue][i]] = "READY"]
  /\ UNCHANGED <<kernel_spin_lock, runnings, cont, list>>

\* check_sleeping: unblock the next sleeper whose time has come.
check_sleeping(c) ==
  /\ InKernel(c, "sched")
  /\ \E i \in DOMAIN list[sleep_queue] :
       /\ Expired(i) /\ \A j \in 1 .. (i - 1) : ~ Expired(j)
       /\ list' = Moved(list, list[sleep_queue][i], ready_queue)
       /\ status' = [status EXCEPT ![list[sleep_queue][i]] = "READY"]
  /\ UNCHANGED <<kernel_spin_lock, runnings, cont>>

\* DD of the descriptor at TDT: at least one transmit descriptor is free.
is_tx_desc_stat_dd == tx < TXDESCS

\* DD of the descriptor after RDT: a packet has arrived.
is_rx_desc_stat_dd == rx > 0

\* check_net_send and check_net_recv: the queues they empty.
NetReady(h) ==
  \/ h = send_block_queue /\ is_tx_desc_stat_dd
  \/ h = recv_block_queue /\ is_rx_desc_stat_dd

\* The lists, and the statuses, after check_net_send and check_net_recv.
NetCheck(L, h) == IF NetReady(h) THEN Drained(L, h, ready_queue) ELSE L
NetReadied(S, L, h) == IF NetReady(h) THEN Readied(S, L, h) ELSE S

NetLists == NetCheck(NetCheck(list, send_block_queue), recv_block_queue)
NetStatus ==
  NetReadied(NetReadied(status, list, send_block_queue),
             NetCheck(list, send_block_queue), recv_block_queue)

\* Mutant: the preempted task keeps its place in ready_queue.
do_scheduler_inplace(c) ==
  LET before == runnings[c]
  IN  /\ InKernel(c, "sched")
      /\ \A i \in DOMAIN list[sleep_queue] : ~ Expired(i)
      /\ find_idle_task(c, NetLists, SetStatus(NetStatus, before, "READY"),
                        [cont EXCEPT ![before] = User])

\* Mutant: do_scheduler does not look at the network card.
do_scheduler_nonet(c) ==
  LET before == runnings[c]
  IN  /\ InKernel(c, "sched")
      /\ \A i \in DOMAIN list[sleep_queue] : ~ Expired(i)
      /\ find_idle_task(c,
           IF before \in Pcb THEN Moved(list, before, ready_queue) ELSE list,
           SetStatus(status, before, "READY"),
           [cont EXCEPT ![before] = User])

\* do_scheduler after check_sleeping: wake the tasks the network card can
\* serve, requeue the running task at the tail of ready_queue (an idle task is
\* on no list) and run the next one.
do_scheduler(c) ==
  LET before == runnings[c]
  IN  /\ InKernel(c, "sched")
      /\ \A i \in DOMAIN list[sleep_queue] : ~ Expired(i)
      /\ find_idle_task(c,
           IF before \in Pcb THEN Moved(NetLists, before, ready_queue) ELSE NetLists,
           SetStatus(NetStatus, before, "READY"),
           [cont EXCEPT ![before] = User])

\* Mutant: the slave hart takes the first task of ready_queue.
slave_wait_for_task_first ==
  LET q == list[ready_queue]
  IN  /\ kernel_spin_lock = UNLOCKED
      /\ runnings[1] = NULL
      /\ Len(q) >= 2
      /\ runnings' = [runnings EXCEPT ![1] = q[1]]
      /\ status' = [status EXCEPT ![q[1]] = "RUNNING"]
      /\ kernel_spin_lock' = IF cont[q[1]].op = "user" THEN UNLOCKED ELSE 1
      /\ UNCHANGED <<list, cont>>

\* slave_wait_for_task: with at least two tasks on ready_queue the slave hart
\* runs the second one.  Until then it only takes and drops the lock.
slave_wait_for_task ==
  LET q == list[ready_queue]
  IN  /\ kernel_spin_lock = UNLOCKED
      /\ runnings[1] = NULL
      /\ Len(q) >= 2
      /\ runnings' = [runnings EXCEPT ![1] = q[2]]
      /\ status' = [status EXCEPT ![q[2]] = "RUNNING"]
      /\ kernel_spin_lock' = IF cont[q[2]].op = "user" THEN UNLOCKED ELSE 1
      /\ UNCHANGED <<list, cont>>

\* do_sleep
do_sleep(c) ==
  /\ Syscall(c)
  /\ \E s \in Seconds :
       wakeup_time' = [wakeup_time EXCEPT ![runnings[c]] = s]
  /\ do_block(c, list, status, sleep_queue, User)

\* A second passes (the clock is only read by check_sleeping and do_sleep).
Tick ==
  /\ kernel_spin_lock = UNLOCKED
  /\ \E p \in Pcb : On(list, sleep_queue, p) /\ wakeup_time[p] > 0
  /\ wakeup_time' = [p \in Pcb |-> IF wakeup_time[p] > 0 THEN wakeup_time[p] - 1 ELSE 0]
  /\ UNCHANGED schedVars
=============================================================================
