------------------------------ MODULE Process ------------------------------
(***************************************************************************)
(* Processes and threads: exec, exit, kill, waitpid, thread_create and     *)
(* thread_join (kernel/sched/sched.c).                                     *)
(***************************************************************************)
EXTENDS Sync

CONSTANTS MaxPid,    \* bound: the last pid that exec hands out
          MaxTid     \* bound: the most threads of a process

ASSUME ProcessAssumption == MaxPid \in Nat \ {0} /\ MaxTid \in Nat

VARIABLES process_id,   \* the next pid
          threads,      \* threads[pid]: its number of threads
          tid           \* pcb->tid

procVars == <<pid, process_id, threads, tid>>

Pid == 0 .. MaxPid

ProcessTypeOK ==
  /\ pid \in [Pcb -> Pid]
  /\ process_id \in Nat \ {0}
  /\ threads \in [Pid -> Int]
  /\ tid \in [Pcb -> Int]

\* The loops over pcb[] that look for a pid: p is the first slot that has it.
FirstWithPid(q, p) == pid[p] = q /\ \A r \in 0 .. (p - 1) : pid[r] # q

find_unused_pcb(p) == FirstWithPid(0, p)

\* Mutant: the thread is not counted.
NewTask_uncounted(c, p, q) ==
  /\ pid' = [pid EXCEPT ![p] = q]
  /\ tid' = [tid EXCEPT ![p] = threads[q] + 1]
  /\ status' = [status EXCEPT ![p] = "READY"]
  /\ list' = INIT_LIST_HEAD(list_add_tail(list, p, ready_queue), wait_list(p))
  /\ cont' = [cont EXCEPT ![p] = User]
  /\ UNCHANGED <<kernel_spin_lock, runnings, threads>>

\* The part of create_pcb and do_thread_create that fills slot p for a new
\* thread of process q.
NewTask(c, p, q) ==
  /\ pid' = [pid EXCEPT ![p] = q]
  /\ tid' = [tid EXCEPT ![p] = threads[q] + 1]
  /\ threads' = [threads EXCEPT ![q] = @ + 1]
  /\ status' = [status EXCEPT ![p] = "READY"]
  /\ list' = INIT_LIST_HEAD(list_add_tail(list, p, ready_queue), wait_list(p))
  /\ cont' = [cont EXCEPT ![p] = User]
  /\ UNCHANGED <<kernel_spin_lock, runnings>>

\* do_exec; it fails, changing nothing, when no slot is free or no task of
\* the image has the name.
do_exec(c) ==
  /\ Syscall(c)
  /\ process_id <= MaxPid
  /\ \E p \in Pcb : find_unused_pcb(p) /\ NewTask(c, p, process_id)
  /\ process_id' = process_id + 1

do_thread_create(c) ==
  /\ Syscall(c)
  /\ threads[pid[runnings[c]]] < MaxTid
  /\ \E p \in Pcb : find_unused_pcb(p) /\ NewTask(c, p, pid[runnings[c]])
  /\ UNCHANGED process_id

-----------------------------------------------------------------------------
(* Termination *)

\* Mutant: the task stays on its list.
release_pcb_linked(c, p, op) ==
  /\ status' = [status EXCEPT ![p] = "EXITED"]
  /\ threads' = [threads EXCEPT ![pid[p]] = @ - 1]
  /\ kernel_spin_lock' = c
  /\ cont' = [cont EXCEPT ![runnings[c]] = [op |-> op, x |-> p, y |-> 0]]
  /\ UNCHANGED <<list, runnings, pid, process_id, tid>>

\* release_pcb(p), first part: p leaves its list.  The loop over mlocks is
\* release_locks below; x is p, y the loop's index.
release_pcb(c, p, op) ==
  /\ status' = [status EXCEPT ![p] = "EXITED"]
  /\ threads' = [threads EXCEPT ![pid[p]] = @ - 1]
  /\ list' = list_delete_entry(list, p)
  /\ kernel_spin_lock' = c
  /\ cont' = [cont EXCEPT ![runnings[c]] = [op |-> op, x |-> p, y |-> 0]]
  /\ UNCHANGED <<runnings, pid, process_id, tid>>

do_exit(c) ==
  /\ Syscall(c)
  /\ threads[pid[runnings[c]]] <= 1 \/ "thread_exit" \in Unsafe
  /\ release_pcb(c, runnings[c], "exit")

\* do_kill(q); it changes nothing when no slot has pid q.
do_kill(c, q) ==
  /\ Syscall(c)
  /\ q # 0 \/ "pid_zero" \in Unsafe
  /\ threads[q] <= 1 \/ "thread_kill" \in Unsafe
  /\ \E p \in Pcb :
       /\ FirstWithPid(q, p)
       /\ p # runnings[c] \/ "kill_self" \in Unsafe
       /\ status[p] # "RUNNING" \/ p = runnings[c] \/ "kill_running" \in Unsafe
       /\ (\A b \in Barrier : ~ On(list, block_list(b), p)) \/ "kill_at_barrier" \in Unsafe
       /\ release_pcb(c, p, "kill")

\* Mutant: the loop looks for the slot number instead of the pid.
release_locks_byslot(c) ==
  LET k == cont[runnings[c]]
      r == do_mutex_lock_release(k.y, k.x)
  IN  /\ InKernel(c, "exit") \/ InKernel(c, "kill")
      /\ k.y < LOCK_NUM
      /\ IF mlocks[k.y].pid = k.x
         THEN /\ list' = r.lists /\ status' = r.statuses
              /\ mlocks' = r.mlocks /\ holds' = r.holds
         ELSE UNCHANGED <<list, status, mutexVars>>
      /\ cont' = [cont EXCEPT ![runnings[c]].y = @ + 1]
      /\ UNCHANGED <<kernel_spin_lock, runnings>>

\* release_pcb, the loop over mlocks: release every lock whose pid is p's.
release_locks(c) ==
  LET k == cont[runnings[c]]
      r == do_mutex_lock_release(k.y, k.x)
  IN  /\ InKernel(c, "exit") \/ InKernel(c, "kill")
      /\ k.y < LOCK_NUM
      /\ IF mlocks[k.y].pid = pid[k.x]
         THEN /\ list' = r.lists /\ status' = r.statuses
              /\ mlocks' = r.mlocks /\ holds' = r.holds
         ELSE UNCHANGED <<list, status, mutexVars>>
      /\ cont' = [cont EXCEPT ![runnings[c]].y = @ + 1]
      /\ UNCHANGED <<kernel_spin_lock, runnings>>

\* The rest of do_exit.  With no other thread left the hart moves on to the
\* next task; otherwise find_idle_task is not called, and the hart returns to
\* user mode in the task that has exited.
ExitEnd(c) ==
  LET p == runnings[c]
  IN  /\ InKernel(c, "exit")
      /\ cont[p].y = LOCK_NUM
      /\ pid' = [pid EXCEPT ![p] = 0]
      /\ IF threads[pid[p]] = 0
         THEN find_idle_task(c, Drained(list, wait_list(p), ready_queue),
                             Readied(status, list, wait_list(p)),
                             [cont EXCEPT ![p] = User])
         ELSE UnblockAll(list, status, wait_list(p)) /\ ret_from_kernel(c)
      /\ UNCHANGED <<process_id, threads, tid>>

\* Mutant: nobody wakes the tasks that wait for the killed one.
KillEnd_silent(c) ==
  LET k == cont[runnings[c]]
  IN  /\ InKernel(c, "kill")
      /\ k.y = LOCK_NUM
      /\ pid' = [pid EXCEPT ![k.x] = 0]
      /\ ret_from_kernel(c)
      /\ UNCHANGED <<process_id, threads, tid, list, status>>

\* Mutant: the slot is not marked unused.
KillEnd_pidkept(c) ==
  LET k == cont[runnings[c]]
  IN  /\ InKernel(c, "kill")
      /\ k.y = LOCK_NUM
      /\ UnblockAll(list, status, wait_list(k.x))
      /\ ret_from_kernel(c)
      /\ UNCHANGED <<pid, process_id, threads, tid>>

\* The rest of do_kill: release_pcb wakes the tasks that wait for k.x, and
\* the slot becomes unused.
KillEnd(c) ==
  LET k == cont[runnings[c]]
  IN  /\ InKernel(c, "kill")
      /\ k.y = LOCK_NUM
      /\ UnblockAll(list, status, wait_list(k.x))
      /\ pid' = [pid EXCEPT ![k.x] = 0]
      /\ ret_from_kernel(c)
      /\ UNCHANGED <<process_id, threads, tid>>

-----------------------------------------------------------------------------
(* Waiting for termination *)

\* do_waitpid(q); it returns at once when no slot has pid q.
do_waitpid(c, q) ==
  /\ Syscall(c)
  /\ q # 0 \/ "pid_zero" \in Unsafe
  /\ \E p \in Pcb :
       FirstWithPid(q, p) /\ do_block(c, list, status, wait_list(p), User)

\* do_thread_join scans ready_queue from position i for thread t of its own
\* process.  At a match it blocks on that task, having saved the task's
\* successor p_q (NULL at the end of the list) to go on from.
JoinScan(c, t, i) ==
  LET q == list[ready_queue]
      Match(j) == pid[q[j]] = pid[runnings[c]] /\ tid[q[j]] = t
  IN  \/ /\ \A j \in i .. Len(q) : ~ Match(j)
         /\ ret_from_kernel(c)
         /\ UNCHANGED <<list, status>>
      \/ \E j \in i .. Len(q) :
           /\ Match(j) /\ \A n \in i .. (j - 1) : ~ Match(n)
           /\ do_block(c, list, status, wait_list(q[j]),
                [op |-> "join", x |-> t,
                 y |-> IF j < Len(q) THEN q[j + 1] ELSE NULL])

do_thread_join(c, t) == Syscall(c) /\ JoinScan(c, t, 1)

\* The scan goes on from the saved successor when the joined thread is gone:
\* p_q may have left ready_queue while the task was blocked.
JoinResume(c) ==
  LET k == cont[runnings[c]]
      q == list[ready_queue]
  IN  /\ InKernel(c, "join")
      /\ \/ k.y = NULL /\ ret_from_kernel(c) /\ UNCHANGED <<list, status>>
         \/ \E i \in DOMAIN q : q[i] = k.y /\ JoinScan(c, k.x, i)

\* A successor that has left ready_queue leads the scan astray, into another
\* list, whose head is taken for a task and does not end the loop, or along
\* the stale links of a freed slot.  It goes round for ever, meets a matching
\* task, or, from a freed slot, ends.
JoinStray(c) ==
  LET k == cont[runnings[c]]
  IN  /\ InKernel(c, "join")
      /\ k.y # NULL
      /\ ~ On(list, ready_queue, k.y)
      /\ \/ UNCHANGED schedVars
         \/ pid[k.y] = 0 /\ ret_from_kernel(c) /\ UNCHANGED <<list, status>>
         \/ \E p \in Pcb, z \in Pcb \cup {NULL} :
              /\ pid[p] = pid[runnings[c]] /\ tid[p] = k.x
              /\ do_block(c, list, status, wait_list(p),
                          [op |-> "join", x |-> k.x, y |-> z])

ProcessStep(c) ==
  \/ /\ \/ do_exec(c) \/ do_thread_create(c) \/ do_exit(c)
        \/ \E q \in Pid : do_kill(c, q)
        \/ ExitEnd(c) \/ KillEnd(c)
     /\ UNCHANGED <<mutexVars, wakeup_time, barriers>>
  \/ /\ release_locks(c)
     /\ UNCHANGED <<procVars, wakeup_time, barriers>>
  \/ /\ \/ \E q \in Pid : do_waitpid(c, q)
        \/ \E t \in 1 .. MaxTid : do_thread_join(c, t)
        \/ JoinResume(c) \/ JoinStray(c)
     /\ UNCHANGED <<procVars, mutexVars, wakeup_time, barriers>>
=============================================================================
