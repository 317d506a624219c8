-------------------------------- MODULE Sync --------------------------------
(***************************************************************************)
(* Mutex locks, barriers and condition variables (kernel/locking/lock.c).  *)
(***************************************************************************)
EXTENDS Net

CONSTANTS Goals,   \* the goals user programs pass to barrier_init
          Unsafe   \* the uses that the kernel mishandles and a run admits

\* Some legal uses of the system calls break the kernel.  They are part of the
\* model, each behind a flag: a run whose Unsafe is empty shows what holds
\* without them, a run that admits one shows what it breaks.
\* "destroy_busy"    destroy a barrier that tasks wait on
\* "close_busy"      close a mailbox for the last time while a task uses it
\* "close_locked"    ... while a user program holds the mutex of its number
\* "kill_running"    kill a task that the other hart is running
\* "kill_self"       kill oneself
\* "kill_at_barrier" kill a task that waits at a barrier
\* "pid_zero"        pass pid 0, which marks unused slots, to waitpid or kill
\* "thread_exit"     exit from a process that has other threads
\* "thread_kill"     kill a process that has several threads
ASSUME SyncAssumption ==
  /\ Goals \subseteq Nat
  /\ Unsafe \subseteq {"destroy_busy", "close_busy", "close_locked", "kill_running",
                       "kill_self", "kill_at_barrier", "pid_zero", "thread_exit", "thread_kill"}

VARIABLES mlocks,    \* lock: LOCKED or not; pid: of the owner, 0 if none
          holds,     \* history: the tasks to which acquire granted a mutex
                     \* and that have not released it
          barriers   \* goal and current of each barrier

mutexVars == <<mlocks, holds>>

SyncTypeOK ==
  /\ mlocks \in [Mutex -> [lock : BOOLEAN, pid : Nat]]
  /\ holds \in [Mutex -> SUBSET Pcb]
  /\ barriers \in [Barrier -> [goal : Nat, current : Nat]]

-----------------------------------------------------------------------------
(* Mutex locks *)

\* do_mutex_lock_acquire by the running task of hart c: take a free lock, or
\* block on it; the release that unblocks the task has made it the owner.
do_mutex_lock_acquire(c, m) ==
  LET p == runnings[c]
  IN  \/ /\ ~ mlocks[m].lock
         /\ mlocks' = [mlocks EXCEPT ![m] = [lock |-> TRUE, pid |-> pid[p]]]
         /\ holds' = [holds EXCEPT ![m] = @ \cup {p}]
         /\ ret_from_kernel(c)
         /\ UNCHANGED <<status, list>>
      \/ /\ mlocks[m].lock
         /\ do_block(c, list, status, block_queue(m), User)
         /\ UNCHANGED mutexVars

\* Mutant: the lock is handed over and unlocked as well.
do_mutex_lock_release_open(m, p) ==
  LET q == list[block_queue(m)]
  IN  IF q = <<>>
      THEN [lists |-> list, statuses |-> status,
            mlocks |-> [mlocks EXCEPT ![m] = [lock |-> FALSE, pid |-> 0]],
            holds |-> [holds EXCEPT ![m] = @ \ {p}]]
      ELSE [lists |-> Moved(list, q[1], ready_queue),
            statuses |-> [status EXCEPT ![q[1]] = "READY"],
            mlocks |-> [mlocks EXCEPT ![m] = [lock |-> FALSE, pid |-> pid[q[1]]]],
            holds |-> [holds EXCEPT ![m] = (@ \ {p}) \cup {q[1]}]]

\* Mutant: the lock goes to the last waiter (block_queue.prev).
do_mutex_lock_release_lifo(m, p) ==
  LET q == list[block_queue(m)]
  IN  IF q = <<>>
      THEN [lists |-> list, statuses |-> status,
            mlocks |-> [mlocks EXCEPT ![m] = [lock |-> FALSE, pid |-> 0]],
            holds |-> [holds EXCEPT ![m] = @ \ {p}]]
      ELSE [lists |-> Moved(list, q[Len(q)], ready_queue),
            statuses |-> [status EXCEPT ![q[Len(q)]] = "READY"],
            mlocks |-> [mlocks EXCEPT ![m].pid = pid[q[Len(q)]]],
            holds |-> [holds EXCEPT ![m] = (@ \ {p}) \cup {q[Len(q)]}]]

\* do_mutex_lock_release, called on behalf of task p: with no waiter the lock
\* becomes free, else it is handed to the first waiter without being unlocked.
\* The record holds what the call leaves in the state.
do_mutex_lock_release(m, p) ==
  LET q == list[block_queue(m)]
  IN  IF q = <<>>
      THEN [lists |-> list, statuses |-> status,
            mlocks |-> [mlocks EXCEPT ![m] = [lock |-> FALSE, pid |-> 0]],
            holds |-> [holds EXCEPT ![m] = @ \ {p}]]
      ELSE [lists |-> Moved(list, q[1], ready_queue),
            statuses |-> [status EXCEPT ![q[1]] = "READY"],
            mlocks |-> [mlocks EXCEPT ![m].pid = pid[q[1]]],
            holds |-> [holds EXCEPT ![m] = (@ \ {p}) \cup {q[1]}]]

MutexAcquire(c, m) == Syscall(c) /\ do_mutex_lock_acquire(c, m)

\* The code does not check the caller; user programs release what they hold.
MutexRelease(c, m) ==
  LET r == do_mutex_lock_release(m, runnings[c])
  IN  /\ Syscall(c)
      /\ runnings[c] \in holds[m]
      /\ list' = r.lists /\ status' = r.statuses
      /\ mlocks' = r.mlocks /\ holds' = r.holds
      /\ ret_from_kernel(c)

-----------------------------------------------------------------------------
(* Condition variables *)

\* do_condition_wait: release the mutex and block; acquire it when woken.
do_condition_wait(c, k, m) ==
  LET r == do_mutex_lock_release(m, runnings[c])
  IN  /\ Syscall(c)
      /\ runnings[c] \in holds[m]
      /\ mlocks' = r.mlocks /\ holds' = r.holds
      /\ do_block(c, r.lists, r.statuses, cond_list(k),
                  [op |-> "acquire", x |-> m, y |-> 0])

\* ... the rest of do_condition_wait.
CondReacquire(c) ==
  /\ InKernel(c, "acquire")
  /\ do_mutex_lock_acquire(c, cont[runnings[c]].x)

\* Mutant: the signalled task is made ready but left on the condition's list.
do_condition_signal_linked(c, k) ==
  LET q == list[cond_list(k)]
  IN  /\ Syscall(c)
      /\ q # <<>>
      /\ list' = list_add_tail(list, q[1], ready_queue)
      /\ status' = [status EXCEPT ![q[1]] = "READY"]
      /\ ret_from_kernel(c)

\* do_condition_signal wakes the first waiter, if there is one.
do_condition_signal(c, k) ==
  LET q == list[cond_list(k)]
  IN  /\ Syscall(c)
      /\ q # <<>>
      /\ list' = Moved(list, q[1], ready_queue)
      /\ status' = [status EXCEPT ![q[1]] = "READY"]
      /\ ret_from_kernel(c)

\* do_condition_broadcast, and do_condition_destroy (which also clears the
\* key that nothing reads), wake all waiters.
do_condition_broadcast(c, k) ==
  /\ Syscall(c)
  /\ list[cond_list(k)] # <<>>
  /\ UnblockAll(list, status, cond_list(k))
  /\ ret_from_kernel(c)

-----------------------------------------------------------------------------
(* Barriers *)

do_barrier_init(c, b) ==
  /\ Syscall(c)
  /\ \E g \in Goals : barriers' = [barriers EXCEPT ![b].goal = g]
  /\ UNCHANGED schedVars

\* Mutant: the barrier opens one arrival early.
do_barrier_wait_early(c, b) ==
  LET n == barriers[b].current + 1
  IN  /\ Syscall(c)
      /\ \/ /\ n + 1 < barriers[b].goal
            /\ barriers' = [barriers EXCEPT ![b].current = n]
            /\ do_block(c, list, status, block_list(b), User)
         \/ /\ n + 1 >= barriers[b].goal
            /\ barriers' = [barriers EXCEPT ![b].current = 0]
            /\ UnblockAll(list, status, block_list(b))
            /\ ret_from_kernel(c)

\* Mutant: on opening, the arrivals are subtracted from the goal.
do_barrier_wait_subtract(c, b) ==
  LET n == barriers[b].current + 1
  IN  /\ Syscall(c)
      /\ \/ /\ n < barriers[b].goal
            /\ barriers' = [barriers EXCEPT ![b].current = n]
            /\ do_block(c, list, status, block_list(b), User)
         \/ /\ n >= barriers[b].goal
            /\ barriers' = [barriers EXCEPT ![b].current = barriers[b].goal - n]
            /\ UnblockAll(list, status, block_list(b))
            /\ ret_from_kernel(c)

\* do_barrier_wait: the task that completes the goal opens the barrier.
do_barrier_wait(c, b) ==
  LET n == barriers[b].current + 1
  IN  /\ Syscall(c)
      /\ \/ /\ n < barriers[b].goal
            /\ barriers' = [barriers EXCEPT ![b].current = n]
            /\ do_block(c, list, status, block_list(b), User)
         \/ /\ n >= barriers[b].goal
            /\ barriers' = [barriers EXCEPT ![b].current = 0]
            /\ UnblockAll(list, status, block_list(b))
            /\ ret_from_kernel(c)

\* do_barrier_destroy: the waiters are unlinked, not unblocked, and the goal
\* stays ("bar->current = 0, bar->current = 0").
do_barrier_destroy(c, b) ==
  /\ Syscall(c)
  /\ list[block_list(b)] = <<>> \/ "destroy_busy" \in Unsafe
  /\ barriers' = [barriers EXCEPT ![b].current = 0]
  /\ list' = [list EXCEPT ![block_list(b)] = <<>>]
  /\ ret_from_kernel(c)
  /\ UNCHANGED status

SyncStep(c) ==
  \/ /\ \/ \E m \in Mutex : MutexAcquire(c, m) \/ MutexRelease(c, m)
        \/ \E k \in Condition, m \in Mutex : do_condition_wait(c, k, m)
        \/ CondReacquire(c)
     /\ UNCHANGED <<pid, wakeup_time, barriers>>
  \/ /\ \E k \in Condition : do_condition_signal(c, k) \/ do_condition_broadcast(c, k)
     /\ UNCHANGED <<pid, wakeup_time, mutexVars, barriers>>
  \/ /\ \E b \in Barrier :
          do_barrier_init(c, b) \/ do_barrier_wait(c, b) \/ do_barrier_destroy(c, b)
     /\ UNCHANGED <<pid, wakeup_time, mutexVars>>
=============================================================================
