----------------------------- MODULE SyncProofs -----------------------------
(***************************************************************************)
(* Who owns a mutex, and who waits until when, for every number of tasks,  *)
(* mutexes, barriers and mailboxes.                                        *)
(*                                                                         *)
(* Mutexes: a step of the kernel touches them in one of a few ways: not at *)
(* all (Quiet, Still), by granting, queueing for or releasing one (Grants, *)
(* Queues, Releases), by creating a task (Creates), or by one of the three *)
(* parts of a teardown (Unlinks, Sweeps, Frees).  StepKinds shows that     *)
(* there are no others; the invariants are then preserved kind by kind.    *)
(*                                                                         *)
(* Waiters for the end of a task, at a barrier or for a mailbox: their     *)
(* lists are the watched ones.  A step leaves these alone (Keeps), adds    *)
(* its own task to one of them (Adds), empties one (Empties) or takes out  *)
(* a task that dies (Drops).  StepEffect says which of them a step does,   *)
(* and what it does to barriers and mailboxes then; the properties follow  *)
(* from it case by case.                                                   *)
(***************************************************************************)
EXTENDS KernelProofs

-----------------------------------------------------------------------------
(* Mutexes *)


\* Where a task that uses a mailbox has, or waits for, the mutex.
InMailbox == {"mbox_loop", "mbox_end"}

\* Nothing is being torn down.
Calm == \A t \in Task : cont[t].op \notin {"exit", "kill"}

\* The same tasks queue for the mutexes.
SameQueues(L, N) ==
  \A m \in Mutex : \A p : On(N, block_queue(m), p) <=> On(L, block_queue(m), p)

Still == UNCHANGED <<mlocks, holds, pid, list, cont>>

Quiet ==
  /\ Calm /\ Calm' /\ UNCHANGED <<mlocks, holds, pid>>
  /\ SameQueues(list, list')
  /\ \A t \in Pcb : cont'[t].op \in InMailbox =>
       cont[t].op \in InMailbox /\ cont[t].x = cont'[t].x

Grants(c, m, k) ==
  /\ Entered(c) /\ ~ mlocks[m].lock
  /\ mlocks' = [mlocks EXCEPT ![m] = [lock |-> TRUE, pid |-> pid[runnings[c]]]]
  /\ holds' = [holds EXCEPT ![m] = @ \cup {runnings[c]}]
  /\ UNCHANGED <<list, pid>>
  /\ cont' = [cont EXCEPT ![runnings[c]] = k]
  /\ k = User \/ (k.op = "mbox_loop" /\ k.x = m)

Queues(c, m, k) ==
  /\ Entered(c) /\ mlocks[m].lock
  /\ list' = Moved(list, runnings[c], block_queue(m))
  /\ UNCHANGED <<mlocks, holds, pid>>
  /\ cont' = [cont EXCEPT ![runnings[c]] = k]
  /\ k = User \/ (k.op = "mbox_loop" /\ k.x = m)

Releases(c, m, k) ==
  LET p == runnings[c]
      r == do_mutex_lock_release(m, p)
  IN  /\ Entered(c)
      /\ \/ p \in holds[m] \/ ~ mlocks[m].lock
         \/ cont[p].op \in InMailbox /\ cont[p].x = m
      /\ mlocks' = r.mlocks /\ holds' = r.holds /\ pid' = pid
      /\ SameQueues(r.lists, list')
      /\ cont' = [cont EXCEPT ![p] = k]
      /\ k.op \notin InMailbox \cup {"exit", "kill"}

Creates(p, q) ==
  /\ Calm /\ pid[p] = 0 /\ q # 0
  /\ pid' = [pid EXCEPT ![p] = q]
  /\ UNCHANGED <<mlocks, holds>>
  /\ SameQueues(list, list')
  /\ cont' = [cont EXCEPT ![p] = User]

Unlinks(c, p, op) ==
  /\ Entered(c) /\ pid[p] # 0 /\ op \in {"exit", "kill"}
  /\ threads[pid[p]] <= 1 \/ "thread_kill" \in Unsafe
  /\ list' = list_delete_entry(list, p)
  /\ cont' = [cont EXCEPT ![runnings[c]] = [op |-> op, x |-> p, y |-> 0]]
  /\ UNCHANGED <<mlocks, holds, pid>>

Sweeps(c) == release_locks(c) /\ pid' = pid

Frees(c) ==
  LET k == cont[runnings[c]]
  IN  /\ InKernel(c, "exit") \/ InKernel(c, "kill")
      /\ k.y = LOCK_NUM
      /\ pid' = [pid EXCEPT ![k.x] = 0]
      /\ UNCHANGED <<mlocks, holds>>
      /\ SameQueues(list, list')
      /\ cont' = [cont EXCEPT ![runnings[c]] = User]

Kinds ==
  \/ Still \/ Quiet
  \/ \E c \in Cpu, m \in Mutex, k \in Cont : Grants(c, m, k) \/ Queues(c, m, k) \/ Releases(c, m, k)
  \/ \E p \in Pcb, q \in Nat : Creates(p, q)
  \/ \E c \in Cpu, p \in Pcb, op \in {"exit", "kill"} : Unlinks(c, p, op)
  \/ \E c \in Cpu : Sweeps(c) \/ Frees(c)

-----------------------------------------------------------------------------
(* The lists *)

\* block_queue is the list of a mutex and of nothing else.
LEMMA QueueHeads ==
  ASSUME NEW m \in Mutex
  PROVE  /\ block_queue(m) \in ListHead /\ block_queue(m) # ready_queue
         /\ block_queue(m) # sleep_queue /\ block_queue(m) # send_block_queue
         /\ block_queue(m) # recv_block_queue
         /\ \A i : /\ block_queue(m) # wait_list(i) /\ block_queue(m) # block_list(i)
                   /\ block_queue(m) # cond_list(i) /\ block_queue(m) # send_list(i)
                   /\ block_queue(m) # recv_list(i)
         /\ \A i \in Mutex : block_queue(m) = block_queue(i) => m = i
  BY DEF ListHead, ready_queue, sleep_queue, send_block_queue, recv_block_queue,
         wait_list, block_queue, block_list, cond_list, send_list, recv_list

\* A list that is not a mutex's.
Other(h) == h \in ListHead /\ \A m \in Mutex : h # block_queue(m)

\* The lists of the other parts of the kernel.
LEMMA OtherHeads ==
  /\ Other(ready_queue) /\ Other(sleep_queue)
  /\ Other(send_block_queue) /\ Other(recv_block_queue)
  /\ \A p \in Pcb : Other(wait_list(p))
  /\ \A b \in Barrier : Other(block_list(b))
  /\ \A k \in Condition : Other(cond_list(k))
  /\ \A b \in Mbox : \A y : Other(OwnList(b, y))
  BY HeadsDiffer, QueueHeads DEF Other, OwnList

\* A list is empty iff nobody is on it.
LEMMA EmptyQueue ==
  ASSUME NEW L \in AllLists, NEW m \in Mutex
  PROVE  L[block_queue(m)] # <<>> <=> \E p \in Pcb : On(L, block_queue(m), p)
<1>1. L[block_queue(m)] \in Seq(Pcb)
  BY QueueHeads DEF AllLists
<1> DEFINE s == L[block_queue(m)]
<1>2. s # <<>> => s[1] \in Pcb /\ 1 \in 1 .. Len(s)
  BY <1>1
<1> QED
  BY <1>1, <1>2 DEF On, Contains

\* Moving a task that queues for no mutex to a list that is not a mutex's.
LEMMA MovedElsewhere ==
  ASSUME NEW L \in AllLists, LinkedOnce(L), NEW p \in Pcb, NEW h, Other(h),
         \A m \in Mutex : ~ On(L, block_queue(m), p)
  PROVE  SameQueues(L, Moved(L, p, h))
<1>1. L \in [ListHead -> Seq(Pcb)] /\ h \in ListHead
  BY DEF AllLists, Other
<1>2. \A g \in ListHead : \A q : On(Moved(L, p, h), g, q) <=> IF q = p THEN g = h ELSE On(L, g, q)
  BY <1>1, MovedProperties
<1> QED
  BY <1>2, QueueHeads DEF SameQueues, Other

\* Unblocking all of a list that is not a mutex's.
LEMMA DrainedElsewhere ==
  ASSUME NEW L \in AllLists, LinkedOnce(L), NEW h, Other(h), h # ready_queue
  PROVE  SameQueues(L, Drained(L, h, ready_queue))
  BY QueueHeads, OtherHeads DEF SameQueues, Other, Drained, AllLists, On

\* A task that runs, or that is on another list, queues for no mutex.
LEMMA NotQueued ==
  ASSUME NEW L, NEW S, NEW P, NEW X, Sound(L, S, P, X), NEW p \in Pcb,
         S[p] = "RUNNING" \/ \E h \in ListHead : Other(h) /\ On(L, h, p)
  PROVE  \A m \in Mutex : ~ On(L, block_queue(m), p)
<1> SUFFICES ASSUME NEW m \in Mutex, On(L, block_queue(m), p)
             PROVE  FALSE
  OBVIOUS
<1>1. block_queue(m) \in ListHead /\ block_queue(m) # ready_queue
  BY QueueHeads
<1>2. S[p] # "RUNNING"
  BY <1>1 DEF Sound
<1>3. PICK h \in ListHead : Other(h) /\ On(L, h, p)
  BY <1>2
<1>4. PICK i \in 1 .. Len(L[h]) : L[h][i] = p
  BY <1>3 DEF On, Contains
<1>5. PICK j \in 1 .. Len(L[block_queue(m)]) : L[block_queue(m)][j] = p
  BY DEF On, Contains
<1>6. L \in [ListHead -> Seq(Pcb)] /\ LinkedOnce(L)
  BY DEF Sound, AllLists
<1>7. h = block_queue(m)
  BY <1>1, <1>4, <1>5, <1>6 DEF LinkedOnce
<1> QED
  BY <1>3, <1>7 DEF Other

\* SameQueues is transitive
LEMMA SameQueuesTrans ==
  ASSUME NEW L, NEW M, NEW N, SameQueues(L, M), SameQueues(M, N)
  PROVE  SameQueues(L, N)
  BY DEF SameQueues

\* ... and reflexive.
LEMMA SameQueuesRefl ==
  ASSUME NEW L
  PROVE  SameQueues(L, L)
  BY DEF SameQueues

-----------------------------------------------------------------------------
(* The kinds of steps *)

\* A step that continues task t at k and touches no mutex.
LEMMA QuietStep ==
  ASSUME NEW t \in Task, NEW k, Resumes(cont), cont' = [cont EXCEPT ![t] = k],
         k.op \notin {"exit", "kill"},
         k.op \in InMailbox => cont[t].op \in InMailbox /\ cont[t].x = k.x,
         SameQueues(list, list'), UNCHANGED <<mlocks, holds, pid>>
  PROVE  Quiet
<1>1. \A u \in Task : cont'[u] = IF u = t THEN k ELSE cont[u]
  BY DEF Resumes
<1>2. Calm /\ Calm'
  BY <1>1 DEF Resumes, Calm
<1> QED
  BY <1>1, <1>2, TaskFacts DEF Quiet

\* What do_block does to the lists and continuations.
LEMMA BlockEffect ==
  ASSUME NEW c, NEW L, NEW S, NEW h, NEW k, do_block(c, L, S, h, k)
  PROVE  /\ list' = Moved(L, runnings[c], h)
         /\ cont' = [cont EXCEPT ![runnings[c]] = k]
  BY DEF do_block, find_idle_task

\* The task of hart c queues for no mutex.
LEMMA CallerNotQueued ==
  ASSUME NEW c \in Cpu, Entered(c)
  PROVE  /\ runnings[c] \in Pcb /\ runnings[c] \in Task
         /\ list \in AllLists /\ LinkedOnce(list)
         /\ \A m \in Mutex : ~ On(list, block_queue(m), runnings[c])
<1>1. /\ runnings[c] \in Pcb /\ Sound(list, status, pid, {}) /\ status[runnings[c]] = "RUNNING"
  BY DEF Entered, Runs
<1>2. \A m \in Mutex : ~ On(list, block_queue(m), runnings[c])
  BY <1>1, NotQueued
<1> QED
  BY <1>1, <1>2, TaskFacts DEF Sound

\* A system call that blocks its task elsewhere than on a mutex.
LEMMA QuietBlock ==
  ASSUME NEW c \in Cpu, Entered(c), NEW h, Other(h), NEW k,
         k.op \notin InMailbox \cup {"exit", "kill"},
         do_block(c, list, status, h, k), UNCHANGED <<mlocks, holds, pid>>
  PROVE  Quiet
<1>1. /\ list' = Moved(list, runnings[c], h)
      /\ cont' = [cont EXCEPT ![runnings[c]] = k]
  BY BlockEffect
<1>2. SameQueues(list, list') /\ runnings[c] \in Task
  BY <1>1, CallerNotQueued, MovedElsewhere
<1>3. Resumes(cont)
  BY DEF Entered
<1> QED
  BY <1>1, <1>2, <1>3, QuietStep

\* A system call that returns and has touched no mutex.
LEMMA QuietReturn ==
  ASSUME NEW c \in Cpu, Entered(c), ret_from_kernel(c), SameQueues(list, list'),
         UNCHANGED <<mlocks, holds, pid>>
  PROVE  Quiet
<1>1. /\ cont' = [cont EXCEPT ![runnings[c]] = User] /\ Resumes(cont) /\ runnings[c] \in Task
  BY CallerNotQueued DEF ret_from_kernel, Entered
<1>2. User.op \notin {"exit", "kill"} /\ User.op \notin InMailbox
  BY ContFacts DEF InMailbox
<1> QED
  BY <1>1, <1>2, QuietStep

\* A system call that unblocks a whole list and returns.
LEMMA QuietWakeAll ==
  ASSUME NEW c \in Cpu, Entered(c), NEW h, Other(h), h # ready_queue,
         UnblockAll(list, status, h), ret_from_kernel(c), UNCHANGED <<mlocks, holds, pid>>
  PROVE  Quiet
<1>1. SameQueues(list, list')
  BY CallerNotQueued, DrainedElsewhere DEF UnblockAll
<1> QED
  BY <1>1, QuietReturn

\* The scheduler touches no mutex.
LEMMA SchedKinds ==
  ASSUME Core, NEW c \in Cpu, UNCHANGED <<mlocks, holds, pid>>,
         Timer(c) \/ check_sleeping(c) \/ do_scheduler(c) \/ do_sleep(c)
  PROVE  Quiet
<1>1. User.op = "user" /\ Sched.op = "sched" /\ "user" \notin InMailbox /\ "sched" \notin InMailbox
  BY ContFacts DEF InMailbox
<1>2. CASE Timer(c)
  <2>1. Resumes(cont) /\ runnings[c] \in Task
    BY <1>2, CoreElim DEF Timer
  <2>2. cont' = [cont EXCEPT ![runnings[c]] = Sched] /\ list' = list
    BY <1>2 DEF Timer
  <2> QED
    BY <1>1, <2>1, <2>2, QuietStep, SameQueuesRefl
<1>3. ASSUME InKernel(c, "sched")
      PROVE  /\ Sound(list, status, pid, {}) /\ Runs(list, status, pid, runnings, {})
             /\ Resumes(cont) /\ runnings[c] \in Task /\ cont[runnings[c]].op = "sched"
  <2>1. "sched" \in Op \ {"exit", "kill"}
    BY DEF Op
  <2> QED
    BY <1>3, <2>1, CoreElim DEF InKernel
<1>4. CASE check_sleeping(c)
  <2>1. PICK i \in DOMAIN list[sleep_queue] :
          list' = Moved(list, list[sleep_queue][i], ready_queue)
    BY <1>4 DEF check_sleeping
  <2>2. Sound(list, status, pid, {}) /\ Resumes(cont) /\ cont' = cont
        /\ runnings[c] \in Task /\ cont[runnings[c]].op = "sched"
    BY <1>3, <1>4 DEF check_sleeping
  <2> DEFINE p == list[sleep_queue][i]
  <2>3. p \in Pcb /\ On(list, sleep_queue, p) /\ list \in AllLists /\ LinkedOnce(list)
    BY <2>2, HeadsDiffer DEF Sound, AllLists, On, Contains
  <2> HIDE DEF p
  <2>4. \A m \in Mutex : ~ On(list, block_queue(m), p)
    BY <2>2, <2>3, OtherHeads, NotQueued DEF Other
  <2>5. SameQueues(list, list')
    BY <2>1, <2>3, <2>4, OtherHeads, MovedElsewhere DEF p
  <2>6. cont' = [cont EXCEPT ![runnings[c]] = cont[runnings[c]]]
    BY <2>2 DEF Resumes
  <2> QED
    BY <1>1, <2>2, <2>5, <2>6, QuietStep
<1>5. CASE do_scheduler(c)
  <2> DEFINE p == runnings[c]
  <2>1. /\ Sound(list, status, pid, {}) /\ Runs(list, status, pid, runnings, {})
        /\ Resumes(cont) /\ p \in Task
    BY <1>3, <1>5 DEF do_scheduler
  <2>2. /\ Sound(NetLists, NetStatus, pid, {}) /\ Runs(NetLists, NetStatus, pid, runnings, {})
    BY <2>1, NetSound
  <2>3. SameQueues(list, NetLists)
    <3> SUFFICES ASSUME NEW m \in Mutex
                 PROVE  NetLists[block_queue(m)] = list[block_queue(m)]
      BY DEF SameQueues, On
    <3>1. list \in [ListHead -> Seq(Pcb)]
      BY <2>1 DEF Sound, AllLists
    <3>2. ASSUME NEW L, DOMAIN L = ListHead, NEW h \in {send_block_queue, recv_block_queue}
          PROVE  /\ NetCheck(L, h)[block_queue(m)] = L[block_queue(m)]
                 /\ DOMAIN NetCheck(L, h) = ListHead
      BY <3>2, QueueHeads DEF NetCheck, Drained
    <3> QED
      BY <3>1, <3>2 DEF NetLists
  <2>4. /\ list' = IF p \in Pcb THEN Moved(NetLists, p, ready_queue) ELSE NetLists
        /\ cont' = [cont EXCEPT ![p] = User]
    BY <1>5 DEF do_scheduler, find_idle_task
  <2>5. SameQueues(NetLists, list')
    <3>1. CASE p \in Pcb
      <4>1. NetStatus[p] = "RUNNING" /\ NetLists \in AllLists /\ LinkedOnce(NetLists)
        BY <2>2, <3>1 DEF Runs, Sound
      <4>2. \A m \in Mutex : ~ On(NetLists, block_queue(m), p)
        BY <2>2, <3>1, <4>1, NotQueued
      <4> HIDE DEF p
      <4> QED
        BY <2>4, <3>1, <4>1, <4>2, OtherHeads, MovedElsewhere
    <3>2. CASE p \notin Pcb
      BY <2>4, <3>2, SameQueuesRefl
    <3> QED
      BY <3>1, <3>2
  <2>6. SameQueues(list, list')
    BY <2>3, <2>5, SameQueuesTrans
  <2> QED
    BY <1>1, <2>1, <2>4, <2>6, QuietStep
<1>6. CASE do_sleep(c)
  BY <1>1, <1>6, SyscallEntered, OtherHeads, QuietBlock DEF do_sleep
<1> QED
  BY <1>2, <1>4, <1>5, <1>6

\* Nor do the network system calls.
LEMMA NetKinds ==
  ASSUME Core, NEW c \in Cpu, NetStep(c), UNCHANGED <<mlocks, holds, pid>>
  PROVE  Quiet
<1>1. ASSUME Entered(c), NEW n, NetSend(c, n)
      PROVE  Quiet
  <2>1. CASE ret_from_kernel(c) /\ list' = list
    BY <1>1, <2>1, QuietReturn, SameQueuesRefl
  <2> DEFINE k == [op |-> "net_send", x |-> n, y |-> 0]
  <2>2. CASE do_block(c, list, status, send_block_queue, k)
    <3>1. k.op \notin InMailbox \cup {"exit", "kill"}
      BY DEF InMailbox
    <3> HIDE DEF k
    <3> QED
      BY <1>1, <2>2, <3>1, OtherHeads, QuietBlock
  <2> QED
    BY <1>1, <2>1, <2>2 DEF NetSend
<1>2. ASSUME NEW n \in PktLens, do_net_send(c, n)
      PROVE  Quiet
  BY <1>1, <1>2, SyscallEntered DEF do_net_send
<1>3. CASE NetSendResume(c)
  <2>1. Entered(c)
    BY <1>3, ResumeEntered DEF NetSendResume, Op
  <2> QED
    BY <1>1, <1>3, <2>1 DEF NetSendResume
<1>4. ASSUME NEW n \in PktNums, do_net_recv(c, n)
      PROVE  Quiet
  <2> DEFINE k == [op |-> "net_recv", x |-> n, y |-> 0]
  <2>1. /\ Entered(c) /\ cont' = [cont EXCEPT ![runnings[c]] = k] /\ list' = list
    BY <1>4, SyscallEntered DEF do_net_recv
  <2>2. k.op \notin InMailbox /\ k.op \notin {"exit", "kill"}
    BY DEF InMailbox
  <2> HIDE DEF k
  <2> QED
    BY <2>1, <2>2, CallerNotQueued, QuietStep, SameQueuesRefl DEF Entered
<1>5. CASE NetRecv(c)
  <2> DEFINE k == cont[runnings[c]]
             n == [k EXCEPT !.x = k.x - 1]
  <2>1. Entered(c) /\ k.op = "net_recv"
    BY <1>5, ResumeEntered DEF NetRecv, Op, InKernel
  <2>2. CASE ret_from_kernel(c) /\ list' = list
    BY <2>1, <2>2, QuietReturn, SameQueuesRefl
  <2>3. CASE cont' = [cont EXCEPT ![runnings[c]].x = k.x - 1] /\ list' = list
    <3>1. n.op \notin InMailbox /\ n.op \notin {"exit", "kill"}
      BY <2>1, CallerNotQueued DEF InMailbox, Entered, Resumes, Cont
    <3>2. cont' = [cont EXCEPT ![runnings[c]] = n]
      BY <2>3
    <3> HIDE DEF n
    <3> QED
      BY <2>1, <2>3, <3>1, <3>2, CallerNotQueued, QuietStep, SameQueuesRefl DEF Entered
  <2>4. CASE do_block(c, list, status, recv_block_queue, k)
    <3>1. k.op \notin InMailbox \cup {"exit", "kill"}
      BY <2>1 DEF InMailbox
    <3> HIDE DEF k
    <3> QED
      BY <2>1, <2>4, <3>1, OtherHeads, QuietBlock
  <2> QED
    BY <1>5, <2>2, <2>3, <2>4 DEF NetRecv
<1> QED
  BY <1>2, <1>3, <1>4, <1>5 DEF NetStep

\* Nor do waitpid and thread_join.
LEMMA WaitKinds ==
  ASSUME Core, Admitted, NEW c \in Cpu, UNCHANGED <<mlocks, holds, pid>>,
         \/ \E q \in Pid : do_waitpid(c, q)
         \/ \E t \in 1 .. MaxTid : do_thread_join(c, t)
         \/ JoinResume(c) \/ JoinStray(c)
  PROVE  Quiet \/ Still
<1>0. User.op \notin InMailbox \cup {"exit", "kill"}
  BY ContFacts DEF InMailbox
<1>1. ASSUME NEW q \in Pid, do_waitpid(c, q)
      PROVE  Quiet
  <2>1. PICK p \in Pcb : do_block(c, list, status, wait_list(p), User)
    BY <1>1 DEF do_waitpid
  <2>2. Entered(c)
    BY <1>1, SyscallEntered DEF do_waitpid
  <2> QED
    BY <1>0, <2>1, <2>2, OtherHeads, QuietBlock
<1>2. ASSUME NEW p \in Pcb, NEW x, NEW y, Entered(c),
             do_block(c, list, status, wait_list(p), [op |-> "join", x |-> x, y |-> y])
      PROVE  Quiet
  <2> DEFINE k == [op |-> "join", x |-> x, y |-> y]
  <2>1. k.op \notin InMailbox \cup {"exit", "kill"}
    BY DEF InMailbox
  <2> HIDE DEF k
  <2>2. do_block(c, list, status, wait_list(p), k)
    BY <1>2 DEF k
  <2> QED
    BY <1>2, <2>1, <2>2, OtherHeads, QuietBlock
<1>3. ASSUME NEW x, NEW i \in Nat \ {0}, Entered(c), JoinScan(c, x, i)
      PROVE  Quiet
  <2> DEFINE q == list[ready_queue]
  <2>1. q \in Seq(Pcb)
    BY <1>3, HeadsDiffer DEF Entered, Sound, AllLists
  <2>2. CASE ret_from_kernel(c) /\ UNCHANGED <<list, status>>
    BY <1>3, <2>2, QuietReturn, SameQueuesRefl
  <2>3. ASSUME NEW j \in i .. Len(q), NEW y,
               do_block(c, list, status, wait_list(q[j]), [op |-> "join", x |-> x, y |-> y])
        PROVE  Quiet
    <3>1. q[j] \in Pcb
      BY <2>1
    <3> DEFINE p == q[j]
    <3>2. p \in Pcb /\ do_block(c, list, status, wait_list(p), [op |-> "join", x |-> x, y |-> y])
      BY <2>3, <3>1
    <3> HIDE DEF p
    <3> QED
      BY <1>2, <1>3, <3>2
  <2> QED
    BY <1>3, <2>2, <2>3 DEF JoinScan
<1>4. ASSUME NEW t \in 1 .. MaxTid, do_thread_join(c, t)
      PROVE  Quiet
  <2>1. Entered(c) /\ JoinScan(c, t, 1) /\ 1 \in Nat \ {0}
    BY <1>4, SyscallEntered DEF do_thread_join
  <2> QED
    BY <1>3, <2>1
<1>5. ASSUME InKernel(c, "join")
      PROVE  Entered(c)
  BY <1>5, ResumeEntered DEF Op
<1>6. CASE JoinResume(c)
  <2>1. Entered(c)
    BY <1>5, <1>6 DEF JoinResume
  <2>2. CASE ret_from_kernel(c) /\ UNCHANGED <<list, status>>
    BY <2>1, <2>2, QuietReturn, SameQueuesRefl
  <2>3. ASSUME NEW i \in DOMAIN list[ready_queue], JoinScan(c, cont[runnings[c]].x, i)
        PROVE  Quiet
    <3>1. list[ready_queue] \in Seq(Pcb)
      BY <2>1, HeadsDiffer DEF Entered, Sound, AllLists
    <3>2. i \in Nat \ {0}
      BY <3>1
    <3> QED
      BY <1>3, <2>1, <2>3, <3>2
  <2> QED
    BY <1>6, <2>2, <2>3 DEF JoinResume
<1>7. CASE JoinStray(c)
  <2>1. Entered(c)
    BY <1>5, <1>7 DEF JoinStray
  <2>2. CASE UNCHANGED schedVars
    BY <2>2 DEF Still, schedVars
  <2>3. CASE ret_from_kernel(c) /\ UNCHANGED <<list, status>>
    BY <2>1, <2>3, QuietReturn, SameQueuesRefl
  <2>4. ASSUME NEW p \in Pcb, NEW z,
               do_block(c, list, status, wait_list(p),
                        [op |-> "join", x |-> cont[runnings[c]].x, y |-> z])
        PROVE  Quiet
    BY <1>2, <2>1, <2>4
  <2> QED
    BY <1>7, <2>2, <2>3, <2>4 DEF JoinStray
<1> QED
  BY <1>1, <1>4, <1>6, <1>7

\* do_mutex_lock_acquire grants the mutex or queues for it.
LEMMA AcquireKinds ==
  ASSUME NEW c \in Cpu, Entered(c), NEW m \in Mutex, do_mutex_lock_acquire(c, m), pid' = pid
  PROVE  Grants(c, m, User) \/ Queues(c, m, User)
<1>1. CASE ~ mlocks[m].lock
  BY <1>1 DEF do_mutex_lock_acquire, Grants, ret_from_kernel
<1>2. CASE mlocks[m].lock
  <2>1. do_block(c, list, status, block_queue(m), User) /\ UNCHANGED mutexVars
    BY <1>2 DEF do_mutex_lock_acquire
  <2> QED
    BY <1>2, <2>1, BlockEffect DEF Queues, mutexVars
<1> QED
  BY <1>1, <1>2

\* A release followed by a return.
LEMMA ReleaseReturns ==
  ASSUME NEW c \in Cpu, Entered(c), NEW m \in Mutex, ret_from_kernel(c), pid' = pid,
         \/ runnings[c] \in holds[m] \/ ~ mlocks[m].lock
         \/ cont[runnings[c]].op \in InMailbox /\ cont[runnings[c]].x = m,
         list' = do_mutex_lock_release(m, runnings[c]).lists,
         mlocks' = do_mutex_lock_release(m, runnings[c]).mlocks,
         holds' = do_mutex_lock_release(m, runnings[c]).holds
  PROVE  Releases(c, m, User)
<1>1. User.op \notin InMailbox \cup {"exit", "kill"}
  BY ContFacts DEF InMailbox
<1> QED
  BY <1>1, SameQueuesRefl DEF Releases, ret_from_kernel

\* A release followed by a wait elsewhere.
LEMMA ReleaseBlocks ==
  ASSUME NEW c \in Cpu, Entered(c), NEW m \in Mutex, NEW h, Other(h), NEW k, pid' = pid,
         SyncTypeOK, ProcessTypeOK,
         \/ runnings[c] \in holds[m]
         \/ cont[runnings[c]].op \in InMailbox /\ cont[runnings[c]].x = m,
         k.op \notin InMailbox \cup {"exit", "kill"},
         mlocks' = do_mutex_lock_release(m, runnings[c]).mlocks,
         holds' = do_mutex_lock_release(m, runnings[c]).holds,
         do_block(c, do_mutex_lock_release(m, runnings[c]).lists,
                  do_mutex_lock_release(m, runnings[c]).statuses, h, k)
  PROVE  Releases(c, m, k)
<1> DEFINE r == do_mutex_lock_release(m, runnings[c])
           L == r.lists
           S == r.statuses
           p == runnings[c]
<1>1. Sound(L, S, pid, {}) /\ Runs(L, S, pid, runnings, {}) /\ p \in Pcb
  BY ReleaseSound DEF Entered
<1>2. list' = Moved(L, p, h) /\ cont' = [cont EXCEPT ![p] = k]
  BY BlockEffect
<1>3. S[p] = "RUNNING" /\ L \in AllLists /\ LinkedOnce(L)
  BY <1>1 DEF Runs, Sound
<1>4. SameQueues(L, list')
  <2> HIDE DEF L, S, p
  <2>1. \A n \in Mutex : ~ On(L, block_queue(n), p)
    BY <1>1, <1>3, NotQueued
  <2> QED
    BY <1>1, <1>2, <1>3, <2>1, MovedElsewhere
<1> QED
  BY <1>2, <1>4 DEF Releases

\* The system calls of lock.c, without mailboxes.
LEMMA SyncKinds ==
  ASSUME Core, Admitted, SyncTypeOK, ProcessTypeOK, NEW c \in Cpu, SyncStep(c)
  PROVE  Kinds
<1>0. User \in Cont /\ User.op \notin InMailbox \cup {"exit", "kill"} /\ pid' = pid
  BY ContFacts DEF InMailbox, SyncStep
<1>1. ASSUME NEW m \in Mutex, MutexAcquire(c, m)
      PROVE  Kinds
  BY <1>0, <1>1, SyscallEntered, AcquireKinds DEF MutexAcquire, Kinds
<1>2. ASSUME NEW m \in Mutex, MutexRelease(c, m)
      PROVE  Kinds
  <2>1. Entered(c)
    BY <1>2, SyscallEntered DEF MutexRelease
  <2>2. Releases(c, m, User)
    BY <1>0, <1>2, <2>1, ReleaseReturns DEF MutexRelease
  <2> QED
    BY <1>0, <2>2 DEF Kinds
<1>3. ASSUME NEW j \in Condition, NEW m \in Mutex, do_condition_wait(c, j, m)
      PROVE  Kinds
  <2> DEFINE k == [op |-> "acquire", x |-> m, y |-> 0]
  <2>1. Entered(c)
    BY <1>3, SyscallEntered DEF do_condition_wait
  <2>2. k \in Cont /\ k.op \notin InMailbox \cup {"exit", "kill"}
    BY KernelAssumption DEF Cont, Op, Mutex, InMailbox
  <2>3. Other(cond_list(j))
    BY OtherHeads
  <2>4. /\ runnings[c] \in holds[m]
        /\ mlocks' = do_mutex_lock_release(m, runnings[c]).mlocks
        /\ holds' = do_mutex_lock_release(m, runnings[c]).holds
        /\ do_block(c, do_mutex_lock_release(m, runnings[c]).lists,
                    do_mutex_lock_release(m, runnings[c]).statuses, cond_list(j), k)
    BY <1>3 DEF do_condition_wait
  <2> HIDE DEF k
  <2>5. Releases(c, m, k)
    BY <1>0, <2>1, <2>2, <2>3, <2>4, ReleaseBlocks
  <2> QED
    BY <2>2, <2>5 DEF Kinds
<1>4. CASE CondReacquire(c)
  <2>1. Entered(c)
    BY <1>4, ResumeEntered DEF CondReacquire, Op
  <2>2. cont[runnings[c]].x \in Mutex
    BY <1>4, <2>1, CallerNotQueued DEF CondReacquire, InKernel, Entered, Resumes
  <2> QED
    BY <1>0, <1>4, <2>1, <2>2, AcquireKinds DEF CondReacquire, Kinds
<1>5. ASSUME NEW j \in Condition, do_condition_signal(c, j), UNCHANGED mutexVars
      PROVE  Quiet
  <2> DEFINE h == cond_list(j)
             p == list[h][1]
  <2>1. /\ list[h] # <<>> /\ list' = Moved(list, p, ready_queue) /\ ret_from_kernel(c)
        /\ Entered(c)
    BY <1>5, SyscallEntered DEF do_condition_signal
  <2>2. list[h] \in Seq(Pcb) /\ h \in ListHead
    BY <2>1, HeadsDiffer DEF Entered, Sound, AllLists
  <2>3. p \in Pcb /\ On(list, h, p) /\ Other(h)
    BY <2>1, <2>2, OtherHeads DEF On, Contains
  <2> HIDE DEF h, p
  <2>4. \A m \in Mutex : ~ On(list, block_queue(m), p)
    BY <2>1, <2>2, <2>3, NotQueued DEF Entered
  <2>5. SameQueues(list, list')
    BY <2>1, <2>3, <2>4, OtherHeads, CallerNotQueued, MovedElsewhere
  <2> QED
    BY <1>0, <1>5, <2>1, <2>5, QuietReturn DEF mutexVars
<1>6. ASSUME NEW j \in Condition, do_condition_broadcast(c, j), UNCHANGED mutexVars
      PROVE  Quiet
  <2>1. Entered(c) /\ Other(cond_list(j)) /\ cond_list(j) # ready_queue
    BY <1>6, SyscallEntered, OtherHeads, HeadsDiffer DEF do_condition_broadcast
  <2> QED
    BY <1>0, <1>6, <2>1, QuietWakeAll DEF do_condition_broadcast, mutexVars
<1>7. ASSUME NEW b \in Barrier, do_barrier_init(c, b), UNCHANGED mutexVars
      PROVE  Still
  BY <1>0, <1>7 DEF do_barrier_init, Still, schedVars, mutexVars
<1>8. ASSUME NEW b \in Barrier, do_barrier_wait(c, b) \/ do_barrier_destroy(c, b),
             UNCHANGED mutexVars
      PROVE  Quiet
  <2> DEFINE h == block_list(b)
  <2>1. Entered(c) /\ Other(h) /\ h # ready_queue /\ UNCHANGED <<mlocks, holds, pid>>
    BY <1>0, <1>8, SyscallEntered, OtherHeads, HeadsDiffer
       DEF do_barrier_wait, do_barrier_destroy, mutexVars
  <2>2. CASE do_block(c, list, status, h, User)
    <3> HIDE DEF h
    <3> QED
      BY <1>0, <2>1, <2>2, QuietBlock
  <2>3. CASE UnblockAll(list, status, h) /\ ret_from_kernel(c)
    <3> HIDE DEF h
    <3> QED
      BY <2>1, <2>3, QuietWakeAll
  <2>4. CASE list' = [list EXCEPT ![h] = <<>>] /\ ret_from_kernel(c)
    <3>1. SameQueues(list, list')
      BY <2>1, <2>4, CallerNotQueued, QueueHeads DEF SameQueues, Other, On, AllLists
    <3> QED
      BY <2>1, <2>4, <3>1, QuietReturn
  <2> QED
    BY <1>8, <2>2, <2>3, <2>4 DEF do_barrier_wait, do_barrier_destroy
<1> QED
  BY <1>1, <1>2, <1>3, <1>4, <1>5, <1>6, <1>7, <1>8 DEF SyncStep, Kinds

\* create_pcb and do_thread_create fill a slot; the rest of exec and
\* thread_create is in NewTask.
LEMMA CreateKinds ==
  ASSUME Core, NEW c \in Cpu, Syscall(c), NEW p \in Pcb, pid[p] = 0, NEW q \in Nat \ {0},
         NewTask(c, p, q), UNCHANGED mutexVars
  PROVE  Kinds
<1>1. Entered(c)
  BY SyscallEntered
<1>2. Calm
  BY <1>1 DEF Entered, Resumes, Calm
<1>3. SameQueues(list, list')
  BY CallerNotQueued, <1>1, QueueHeads
     DEF NewTask, SameQueues, list_add_tail, INIT_LIST_HEAD, On, AllLists
<1>4. Creates(p, q)
  BY <1>2, <1>3 DEF Creates, NewTask, mutexVars
<1> QED
  BY <1>4 DEF Kinds

\* The system calls of sched.c.
LEMMA ProcessKinds ==
  ASSUME Core, Admitted, RestTypeOK, NEW c \in Cpu, ProcessStep(c)
  PROVE  Kinds
<1>1. ASSUME do_exec(c), UNCHANGED mutexVars
      PROVE  Kinds
  <2>1. PICK p \in Pcb : find_unused_pcb(p) /\ NewTask(c, p, process_id)
    BY <1>1 DEF do_exec
  <2>2. Syscall(c) /\ pid[p] = 0 /\ process_id \in Nat \ {0}
    BY <1>1, <2>1 DEF do_exec, RestTypeOK, ProcessTypeOK, find_unused_pcb, FirstWithPid
  <2> QED
    BY <1>1, <2>1, <2>2, CreateKinds
<1>2. ASSUME do_thread_create(c), UNCHANGED mutexVars
      PROVE  Kinds
  <2> DEFINE q == pid[runnings[c]]
  <2>1. PICK p \in Pcb : find_unused_pcb(p) /\ NewTask(c, p, q)
    BY <1>2 DEF do_thread_create
  <2>2. Syscall(c) /\ pid[p] = 0
    BY <1>2, <2>1 DEF do_thread_create, find_unused_pcb, FirstWithPid
  <2>3. q \in Nat \ {0}
    BY <2>2, CallerFacts DEF RestTypeOK, ProcessTypeOK, Pid
  <2> HIDE DEF q
  <2> QED
    BY <1>2, <2>1, <2>2, <2>3, CreateKinds
<1>3. ASSUME do_exit(c), UNCHANGED mutexVars
      PROVE  Kinds
  <2> DEFINE p == runnings[c]
  <2>1. Syscall(c) /\ threads[pid[p]] <= 1 /\ release_pcb(c, p, "exit")
    BY <1>3 DEF do_exit, Admitted
  <2>2. Entered(c) /\ p \in Pcb /\ pid[p] # 0
    BY <2>1, SyscallEntered DEF Entered
  <2>3. Unlinks(c, p, "exit")
    BY <1>3, <2>1, <2>2 DEF Unlinks, release_pcb, mutexVars
  <2> QED
    BY <2>2, <2>3 DEF Kinds
<1>4. ASSUME NEW q \in Pid, do_kill(c, q), UNCHANGED mutexVars
      PROVE  Kinds
  <2>1. PICK p \in Pcb : FirstWithPid(q, p) /\ release_pcb(c, p, "kill")
    BY <1>4 DEF do_kill
  <2>2. Entered(c) /\ pid[p] = q /\ q # 0 /\ (threads[q] <= 1 \/ "thread_kill" \in Unsafe)
    BY <1>4, <2>1, SyscallEntered DEF do_kill, Admitted, FirstWithPid
  <2>3. Unlinks(c, p, "kill")
    BY <1>4, <2>1, <2>2 DEF Unlinks, release_pcb, mutexVars
  <2> QED
    BY <2>3 DEF Kinds
<1>5. ASSUME release_locks(c), UNCHANGED procVars
      PROVE  Kinds
  BY <1>5 DEF Kinds, Sweeps, procVars
<1>6. ASSUME ExitEnd(c) \/ KillEnd(c), UNCHANGED mutexVars
      PROVE  Kinds
  <2> DEFINE k == cont[runnings[c]]
  <2>1. InKernel(c, "exit") \/ InKernel(c, "kill")
    BY <1>6 DEF ExitEnd, KillEnd
  <2>2. Tearing(c, list, status, pid, runnings, cont, threads)
    BY <2>1, TearElim
  <2>3. /\ k.x \in Pcb /\ Sound(list, status, pid, {k.x})
        /\ k.op = "exit" => k.x = runnings[c]
    BY <2>2 DEF Tearing
  <2>4. /\ list' = Drained(list, wait_list(k.x), ready_queue)
        /\ cont' = [cont EXCEPT ![runnings[c]] = User]
        /\ pid' = [pid EXCEPT ![k.x] = 0] /\ k.y = LOCK_NUM
    BY <1>6, <2>3 DEF ExitEnd, KillEnd, InKernel, UnblockAll, find_idle_task, ret_from_kernel
  <2> HIDE DEF k
  <2>5. SameQueues(list, list')
    BY <2>3, <2>4, OtherHeads, HeadsDiffer, DrainedElsewhere DEF Sound
  <2>6. Frees(c)
    BY <1>6, <2>1, <2>4, <2>5 DEF Frees, k, mutexVars
  <2> QED
    BY <2>6 DEF Kinds
<1>7. ASSUME UNCHANGED <<procVars, mutexVars>>,
             \/ \E q \in Pid : do_waitpid(c, q)
             \/ \E t \in 1 .. MaxTid : do_thread_join(c, t)
             \/ JoinResume(c) \/ JoinStray(c)
      PROVE  Kinds
  BY <1>7, WaitKinds DEF Kinds, procVars, mutexVars
<1> QED
  BY <1>1, <1>2, <1>3, <1>4, <1>5, <1>6, <1>7 DEF ProcessStep

\* A mailbox grants, queues for and releases the mutex of its number.
LEMMA MailKinds ==
  ASSUME Core, Admitted, SyncTypeOK, ProcessTypeOK, NEW c \in Cpu, MailStep(c), pid' = pid
  PROVE  Kinds
<1>0. User \in Cont /\ \A b \in Mbox : b \in Mutex /\ b \in Int
  BY ContFacts, MboxFacts
<1>1. ASSUME NEW s \in Names, do_mbox_open(c, s)
      PROVE  Still
  BY <1>1 DEF do_mbox_open, Still, schedVars, mutexVars
<1>2. ASSUME NEW b \in Mbox, do_mbox_close(c, b)
      PROVE  Kinds
  <2>1. Entered(c) /\ ret_from_kernel(c)
    BY <1>2, SyscallEntered DEF do_mbox_close
  <2>2. CASE mailboxes[b].ref = 1
    <3>1. ~ mlocks[b].lock
      BY <1>2, <2>2 DEF do_mbox_close, Admitted
    <3>2. Releases(c, b, User)
      BY <1>0, <1>2, <2>1, <2>2, <3>1, ReleaseReturns DEF do_mbox_close
    <3> QED
      BY <1>0, <3>2 DEF Kinds
  <2>3. CASE mailboxes[b].ref # 1
    <3>1. UNCHANGED <<list, mutexVars>>
      BY <1>2, <2>3 DEF do_mbox_close
    <3> QED
      BY <2>1, <3>1, QuietReturn, SameQueuesRefl DEF Kinds, mutexVars
  <2> QED
    BY <2>2, <2>3
<1>3. ASSUME Entered(c), NEW b \in Mbox, NEW y \in Int, MboxAcquire(c, b, y)
      PROVE  Kinds
  <2> DEFINE k == [op |-> "mbox_loop", x |-> b, y |-> y]
  <2>1. k \in Cont /\ k.op = "mbox_loop" /\ k.x = b /\ b \in Mutex
    BY <1>0 DEF Cont, Op
  <2>2. CASE ~ mlocks[b].lock
    <3>1. Grants(c, b, k)
      BY <1>3, <2>1, <2>2 DEF MboxAcquire, Grants
    <3> QED
      BY <2>1, <3>1 DEF Kinds
  <2>3. CASE mlocks[b].lock
    <3>1. do_block(c, list, status, block_queue(b), k) /\ UNCHANGED mutexVars
      BY <1>3, <2>3 DEF MboxAcquire
    <3> HIDE DEF k
    <3>2. Queues(c, b, k)
      BY <1>3, <2>1, <2>3, <3>1, BlockEffect DEF Queues, mutexVars
    <3> QED
      BY <2>1, <3>2 DEF Kinds
  <2> QED
    BY <2>2, <2>3
<1>4. ASSUME NEW b \in Mbox, NEW n \in MsgLengths, do_mbox_send(c, b, n) \/ do_mbox_recv(c, b, n)
      PROVE  Kinds
  <2>1. Entered(c)
    BY <1>4, SyscallEntered DEF do_mbox_send, do_mbox_recv
  <2>2. PICK y \in Int : MboxAcquire(c, b, y)
    BY <1>4, MailAssumption DEF do_mbox_send, do_mbox_recv
  <2> QED
    BY <1>3, <2>1, <2>2
<1>5. ASSUME NEW op \in {"mbox_acquire", "mbox_loop", "mbox_end"}, InKernel(c, op)
      PROVE  Entered(c) /\ cont[runnings[c]].y \in Int
  <2>1. Entered(c)
    BY <1>5, ResumeEntered DEF Op
  <2> QED
    BY <2>1, CallerNotQueued DEF Entered, Resumes, Cont
<1>6. CASE MboxReacquire(c)
  BY <1>3, <1>5, <1>6 DEF MboxReacquire
<1>7. CASE MboxLoop(c)
  <2> DEFINE p == runnings[c]
             y == cont[p].y
  <2>1. PICK b \in Mbox : cont[p].x = b /\ (MboxCopy(c, b, y) \/ MboxWait(c, b, y))
    BY <1>7 DEF MboxLoop
  <2>2. Entered(c) /\ y \in Int /\ cont[p].op = "mbox_loop" /\ cont[p].op \in InMailbox
    BY <1>5, <1>7 DEF MboxLoop, InKernel, InMailbox
  <2>3. CASE MboxCopy(c, b, y)
    <3> DEFINE k == [op |-> "mbox_end", x |-> b, y |-> y]
    <3>1. /\ list' = Drained(list, OwnList(b, -y), ready_queue)
          /\ cont' = [cont EXCEPT ![p] = k] /\ UNCHANGED mutexVars
      BY <2>3 DEF MboxCopy, UnblockAll
    <3>2. Other(OwnList(b, -y)) /\ OwnList(b, -y) # ready_queue
      BY OtherHeads, MboxFacts
    <3>3. SameQueues(list, list')
      BY <2>2, <3>1, <3>2, CallerNotQueued, DrainedElsewhere
    <3>4. k.op \notin {"exit", "kill"} /\ k.x = b
      OBVIOUS
    <3> HIDE DEF k
    <3>5. Quiet
      BY <2>1, <2>2, <3>1, <3>3, <3>4, CallerNotQueued, QuietStep DEF Entered, mutexVars
    <3> QED
      BY <3>5 DEF Kinds
  <2>4. CASE MboxWait(c, b, y)
    <3> DEFINE k == [op |-> "mbox_acquire", x |-> b, y |-> y]
    <3>1. k \in Cont /\ k.op \notin InMailbox \cup {"exit", "kill"}
      BY <1>0, <2>2 DEF Cont, Op, InMailbox
    <3>2. /\ mlocks' = do_mutex_lock_release(b, p).mlocks
          /\ holds' = do_mutex_lock_release(b, p).holds
          /\ do_block(c, do_mutex_lock_release(b, p).lists,
                      do_mutex_lock_release(b, p).statuses, OwnList(b, y), k)
      BY <2>4 DEF MboxWait
    <3>3. Other(OwnList(b, y))
      BY OtherHeads
    <3> HIDE DEF k
    <3>4. Releases(c, b, k)
      BY <1>0, <2>1, <2>2, <3>1, <3>2, <3>3, ReleaseBlocks
    <3> QED
      BY <1>0, <3>1, <3>4 DEF Kinds
  <2> QED
    BY <2>1, <2>3, <2>4
<1>8. CASE MboxEnd(c)
  <2> DEFINE b == cont[runnings[c]].x
  <2>1. b \in Mbox /\ Entered(c) /\ cont[runnings[c]].op \in InMailbox
    BY <1>5, <1>8 DEF MboxEnd, InKernel, InMailbox
  <2>2. Releases(c, b, User)
    BY <1>0, <1>8, <2>1, ReleaseReturns DEF MboxEnd
  <2> QED
    BY <1>0, <2>1, <2>2 DEF Kinds
<1> QED
  BY <1>1, <1>2, <1>4, <1>6, <1>7, <1>8 DEF MailStep, MailContinue, Kinds

\* There are no other kinds of steps.
LEMMA StepKinds ==
  ASSUME KernelInv, Admitted, [Next]_vars
  PROVE  Kinds
<1>1. Core /\ RestTypeOK /\ SyncTypeOK /\ ProcessTypeOK
  BY InvParts DEF Base, RestTypeOK
<1>2. ASSUME UNCHANGED <<list, cont, procVars, mutexVars>>
      PROVE  Kinds
  BY <1>2 DEF Kinds, Still, procVars, mutexVars
<1>3. ASSUME NEW c \in Cpu, SchedStep(c)
      PROVE  Kinds
  <2>1. UNCHANGED <<mlocks, holds, pid>>
    BY <1>3 DEF SchedStep, mutexVars, procVars
  <2> QED
    BY <1>1, <1>3, <2>1, SchedKinds DEF SchedStep, Kinds
<1>4. ASSUME NEW c \in Cpu, NetStep(c), UNCHANGED <<procVars, mutexVars>>
      PROVE  Kinds
  BY <1>1, <1>4, NetKinds DEF Kinds, procVars, mutexVars
<1>5. CASE KernelStep
  BY <1>1, <1>2, <1>3, <1>4, <1>5, SyncKinds, ProcessKinds
     DEF KernelStep, slave_wait_for_task, Tick, Transmitted, Received, schedVars
<1>6. CASE \E c \in Cpu : MailStep(c) /\ UNCHANGED procVars
  BY <1>1, <1>6, MailKinds DEF procVars
<1>7. CASE UNCHANGED vars
  BY <1>2, <1>7 DEF vars, schedVars
<1> QED
  BY <1>5, <1>6, <1>7 DEF Next

-----------------------------------------------------------------------------
(* Owners *)

\* The release r of m on behalf of p frees a mutex that nobody waits for, and
\* passes it to the first task f in its queue else; no other mutex is affected.
Passed(r, m, p) ==
  /\ \A n \in Mutex \ {m} :
       /\ r.mlocks[n] = mlocks[n] /\ r.holds[n] = holds[n]
       /\ \A q : On(r.lists, block_queue(n), q) <=> On(list, block_queue(n), q)
  /\ \/ /\ \A q \in Pcb : ~ On(list, block_queue(m), q)
        /\ \A q \in Pcb : ~ On(r.lists, block_queue(m), q)
        /\ r.mlocks[m].lock = FALSE /\ r.mlocks[m].pid = 0
        /\ r.holds[m] = holds[m] \ {p}
     \/ \E f \in Pcb :
          /\ On(list, block_queue(m), f) /\ f = list[block_queue(m)][1]
          /\ pid[f] # 0 /\ status[f] # "EXITED"
          /\ \A q : On(r.lists, block_queue(m), q) <=> q # f /\ On(list, block_queue(m), q)
          /\ r.mlocks[m].lock = mlocks[m].lock /\ r.mlocks[m].pid = pid[f]
          /\ r.holds[m] = (holds[m] \ {p}) \cup {f}

\* do_mutex_lock_release, for any task and mutex.
LEMMA ReleaseEffect ==
  ASSUME NEW X, NEW m \in Mutex, NEW p \in Pcb, Sound(list, status, pid, X), SyncTypeOK
  PROVE  Passed(do_mutex_lock_release(m, p), m, p)
<1> DEFINE r == do_mutex_lock_release(m, p)
           s == list[block_queue(m)]
           f == s[1]
<1>1. block_queue(m) \in ListHead /\ list \in [ListHead -> Seq(Pcb)] /\ LinkedOnce(list)
  BY QueueHeads DEF Sound, AllLists
<1>2. CASE s = <<>>
  <2>1. /\ r.lists = list
        /\ r.mlocks = [mlocks EXCEPT ![m] = [lock |-> FALSE, pid |-> 0]]
        /\ r.holds = [holds EXCEPT ![m] = @ \ {p}]
    BY <1>2 DEF do_mutex_lock_release
  <2>2. \A q \in Pcb : ~ On(list, block_queue(m), q)
    BY <1>2 DEF On, Contains
  <2> HIDE DEF r
  <2>3. /\ r.mlocks[m].lock = FALSE /\ r.mlocks[m].pid = 0 /\ r.holds[m] = holds[m] \ {p}
        /\ \A n \in Mutex \ {m} : r.mlocks[n] = mlocks[n] /\ r.holds[n] = holds[n]
    BY <2>1 DEF SyncTypeOK
  <2> QED
    BY <2>1, <2>2, <2>3 DEF r, Passed
<1>3. CASE s # <<>>
  <2>1. f \in Pcb /\ On(list, block_queue(m), f)
    BY <1>1, <1>3 DEF On, Contains
  <2>2. /\ r.lists = Moved(list, f, ready_queue)
        /\ r.mlocks = [mlocks EXCEPT ![m].pid = pid[f]]
        /\ r.holds = [holds EXCEPT ![m] = (@ \ {p}) \cup {f}]
    BY <1>3 DEF do_mutex_lock_release
  <2>9. f = list[block_queue(m)][1]
    OBVIOUS
  <2> HIDE DEF r, f
  <2>3. /\ r.mlocks[m].lock = mlocks[m].lock /\ r.mlocks[m].pid = pid[f]
        /\ r.holds[m] = (holds[m] \ {p}) \cup {f}
        /\ \A n \in Mutex \ {m} : r.mlocks[n] = mlocks[n] /\ r.holds[n] = holds[n]
    BY <2>2 DEF SyncTypeOK
  <2>4. ready_queue \in ListHead
    BY HeadsDiffer
  <2>5. \A g \in ListHead : \A q :
          On(r.lists, g, q) <=> IF q = f THEN g = ready_queue ELSE On(list, g, q)
    <3>1. \A g \in ListHead : \A q : On(Moved(list, f, ready_queue), g, q)
                                      <=> IF q = f THEN g = ready_queue ELSE On(list, g, q)
      BY <1>1, <2>1, <2>4, MovedProperties
    <3> QED
      BY <2>2, <3>1
  <2>6. \A q : On(r.lists, block_queue(m), q) <=> q # f /\ On(list, block_queue(m), q)
    BY <1>1, <2>5, QueueHeads
  <2>7. ASSUME NEW n \in Mutex \ {m}, NEW q
        PROVE  On(r.lists, block_queue(n), q) <=> On(list, block_queue(n), q)
    <3>1. block_queue(n) \in ListHead /\ block_queue(n) # block_queue(m)
          /\ block_queue(n) # ready_queue
      BY QueueHeads
    <3>2. ~ On(list, block_queue(n), f)
      <4> SUFFICES ASSUME On(list, block_queue(n), f)
                   PROVE  FALSE
        OBVIOUS
      <4>1. PICK i \in 1 .. Len(list[block_queue(n)]) : list[block_queue(n)][i] = f
        BY DEF On, Contains
      <4>2. PICK j \in 1 .. Len(list[block_queue(m)]) : list[block_queue(m)][j] = f
        BY <2>1 DEF On, Contains
      <4> QED
        BY <1>1, <3>1, <4>1, <4>2 DEF LinkedOnce
    <3> QED
      BY <2>5, <3>1, <3>2
  <2>8. pid[f] # 0 /\ status[f] # "EXITED"
    BY <1>1, <2>1 DEF Sound
  <2> QED
    BY <2>1, <2>3, <2>6, <2>7, <2>8, <2>9 DEF r, Passed
<1> QED
  BY <1>2, <1>3

\* MutexOwner, in terms of who is on which list.
Owned(L, M, P) ==
  \A m \in Mutex :
    /\ M[m].lock <=> M[m].pid # 0
    /\ M[m].lock => \E p \in Pcb : P[p] = M[m].pid
    /\ (\E p \in Pcb : On(L, block_queue(m), p)) => M[m].lock

\* Of the mutexes that the loop of release_pcb has passed, none is owned by the
\* process of the task being torn down, unless another task of it is left.
Swept ==
  \A t \in Task : cont[t].op \in {"exit", "kill"} =>
    \A m \in Mutex : m < cont[t].y /\ mlocks[m].pid = pid[cont[t].x] =>
      \E p \in Pcb : p # cont[t].x /\ pid[p] = pid[cont[t].x]

\* The two forms of MutexOwner agree.
LEMMA OwnerOn ==
  /\ list \in AllLists => (MutexOwner <=> Owned(list, mlocks, pid))
  /\ list' \in AllLists => (MutexOwner' <=> Owned(list', mlocks', pid'))
  BY EmptyQueue DEF MutexOwner, Owned

\* What the loop of release_pcb finds.
LEMMA SweepFacts ==
  ASSUME Core, NEW c \in Cpu, InKernel(c, "exit") \/ InKernel(c, "kill")
  PROVE  LET t == runnings[c]
             k == cont[t]
         IN  /\ t \in Task /\ t \in Pcb /\ cont \in [Task -> Cont]
             /\ k.x \in Pcb /\ k.y \in 0 .. LOCK_NUM /\ k.op \in {"exit", "kill"}
             /\ pid[k.x] # 0 /\ status[k.x] = "EXITED"
             /\ Sound(list, status, pid, {k.x})
             /\ \A u \in Task : u # t => cont[u].op \notin {"exit", "kill"}
<1>1. Tearing(c, list, status, pid, runnings, cont, threads)
  BY TearElim
<1> DEFINE x == cont[runnings[c]].x
<1>2. x \in Pcb /\ Sound(list, status, pid, {x})
  BY <1>1 DEF Tearing
<1>3. pid[x] # 0 /\ status[x] = "EXITED"
  BY <1>2 DEF Sound
<1> QED
  BY <1>1, <1>2, <1>3, TaskFacts DEF Tearing

\* A step keeps MutexOwner.
LEMMA OwnerStep ==
  ASSUME KernelInv, KernelInv', Kinds, MutexOwner, Swept
  PROVE  MutexOwner' /\ Swept'
<1>1. /\ Core /\ SyncTypeOK /\ ProcessTypeOK /\ list \in AllLists /\ list' \in AllLists
      /\ cont \in [Task -> Cont] /\ pid \in [Pcb -> Pid]
      /\ mlocks \in [Mutex -> [lock : BOOLEAN, pid : Nat]]
  BY InvParts, InvPartsNext DEF Base, RestTypeOK, Core, ProcessTypeOK, SyncTypeOK
<1>2. Owned(list, mlocks, pid)
  BY <1>1, OwnerOn
<1> SUFFICES Owned(list', mlocks', pid') /\ Swept'
  BY <1>1, OwnerOn
<1>3. Calm' => Swept'
  BY DEF Calm, Swept
<1>4. ASSUME NEW c \in Cpu, Entered(c), NEW k, k.op \notin {"exit", "kill"},
             cont' = [cont EXCEPT ![runnings[c]] = k]
      PROVE  Calm'
  BY <1>4, CallerNotQueued DEF Entered, Resumes, Calm
<1>5. CASE Still
  BY <1>2, <1>5 DEF Still, Swept
<1>6. CASE Quiet
  BY <1>2, <1>3, <1>6 DEF Quiet, Owned, SameQueues
<1>7. ASSUME NEW c \in Cpu, NEW m \in Mutex, NEW k \in Cont, Grants(c, m, k)
      PROVE  Owned(list', mlocks', pid') /\ Swept'
  <2>1. Calm'
    BY <1>4, <1>7, ContFacts DEF Grants
  <2>2. runnings[c] \in Pcb /\ pid[runnings[c]] # 0
    BY <1>7 DEF Grants, Entered
  <2>3. /\ mlocks'[m].lock = TRUE /\ mlocks'[m].pid = pid[runnings[c]]
        /\ \A n \in Mutex \ {m} : mlocks'[n] = mlocks[n]
        /\ list' = list /\ pid' = pid
    BY <1>1, <1>7 DEF Grants
  <2> QED
    BY <1>2, <1>3, <2>1, <2>2, <2>3 DEF Owned
<1>8. ASSUME NEW c \in Cpu, NEW m \in Mutex, NEW k \in Cont, Queues(c, m, k)
      PROVE  Owned(list', mlocks', pid') /\ Swept'
  <2>1. Calm'
    BY <1>4, <1>8, ContFacts DEF Queues
  <2>2. /\ runnings[c] \in Pcb /\ list \in [ListHead -> Seq(Pcb)] /\ LinkedOnce(list)
        /\ block_queue(m) \in ListHead
        /\ list' = Moved(list, runnings[c], block_queue(m))
        /\ mlocks[m].lock /\ mlocks' = mlocks /\ pid' = pid
    BY <1>8, CallerNotQueued, QueueHeads DEF Queues, AllLists
  <2>3. \A g \in ListHead : \A q :
          On(list', g, q) <=> IF q = runnings[c] THEN g = block_queue(m) ELSE On(list, g, q)
    BY <2>2, MovedProperties
  <2>4. \A n \in Mutex \ {m} : \A q \in Pcb :
          On(list', block_queue(n), q) => On(list, block_queue(n), q)
    BY <2>3, QueueHeads
  <2> QED
    BY <1>2, <1>3, <2>1, <2>2, <2>4 DEF Owned
<1>9. ASSUME NEW X, NEW m \in Mutex, NEW p \in Pcb, Sound(list, status, pid, X),
             mlocks' = do_mutex_lock_release(m, p).mlocks,
             SameQueues(do_mutex_lock_release(m, p).lists, list'), pid' = pid
      PROVE  Owned(list', mlocks', pid')
  <2> DEFINE r == do_mutex_lock_release(m, p)
             M == r.mlocks
             L == r.lists
  <2>1. /\ \A n \in Mutex \ {m} :
             /\ M[n] = mlocks[n]
             /\ \A q : On(L, block_queue(n), q) <=> On(list, block_queue(n), q)
        /\ \/ /\ \A q \in Pcb : ~ On(L, block_queue(m), q)
              /\ M[m].lock = FALSE /\ M[m].pid = 0
           \/ \E f \in Pcb : /\ On(list, block_queue(m), f) /\ pid[f] # 0
                             /\ M[m].lock = mlocks[m].lock /\ M[m].pid = pid[f]
    <3>1. Passed(r, m, p)
      BY <1>1, <1>9, ReleaseEffect
    <3> HIDE DEF r
    <3> QED
      BY <3>1 DEF Passed
  <2>2. mlocks' = M /\ SameQueues(L, list') /\ pid' = pid
    BY <1>9
  <2> HIDE DEF r, M, L
  <2>3. Owned(L, M, pid)
    <3> SUFFICES ASSUME NEW n \in Mutex
                 PROVE  /\ M[n].lock <=> M[n].pid # 0
                        /\ M[n].lock => \E q \in Pcb : pid[q] = M[n].pid
                        /\ (\E q \in Pcb : On(L, block_queue(n), q)) => M[n].lock
      BY DEF Owned
    <3>1. CASE n # m
      BY <1>2, <2>1, <3>1 DEF Owned
    <3>2. CASE n = m
      <4>1. (\E f \in Pcb : On(list, block_queue(m), f)) => mlocks[m].lock
        BY <1>2 DEF Owned
      <4> QED
        BY <2>1, <3>2, <4>1
    <3> QED
      BY <3>1, <3>2
  <2> QED
    BY <2>2, <2>3 DEF Owned, SameQueues
<1>10. ASSUME NEW c \in Cpu, NEW m \in Mutex, NEW k \in Cont, Releases(c, m, k)
       PROVE  Owned(list', mlocks', pid') /\ Swept'
  <2>1. Calm'
    BY <1>4, <1>10 DEF Releases
  <2>2. Sound(list, status, pid, {}) /\ runnings[c] \in Pcb
    BY <1>10 DEF Releases, Entered
  <2> QED
    BY <1>3, <1>9, <1>10, <2>1, <2>2 DEF Releases
<1>11. ASSUME NEW p \in Pcb, NEW q \in Nat, Creates(p, q)
       PROVE  Owned(list', mlocks', pid') /\ Swept'
  <2>1. Calm'
    BY <1>1, <1>11, ContFacts, TaskFacts DEF Creates, Calm
  <2>2. /\ \A o \in Pcb : pid'[o] = IF o = p THEN q ELSE pid[o]
        /\ pid[p] = 0 /\ mlocks' = mlocks /\ SameQueues(list, list')
    BY <1>1, <1>11 DEF Creates
  <2> QED
    BY <1>2, <1>3, <2>1, <2>2 DEF Owned, SameQueues
<1>12. ASSUME NEW c \in Cpu, NEW p \in Pcb, NEW op \in {"exit", "kill"}, Unlinks(c, p, op)
       PROVE  Owned(list', mlocks', pid') /\ Swept'
  <2>1. Resumes(cont) /\ runnings[c] \in Task
    BY <1>12, CallerNotQueued DEF Unlinks, Entered
  <2>2. \A t \in Task : cont'[t].op \in {"exit", "kill"} => cont'[t].y = 0
    BY <1>12, <2>1 DEF Unlinks, Resumes
  <2>3. Swept'
    BY <2>2 DEF Swept, Mutex
  <2>4. /\ list \in [ListHead -> Seq(Pcb)] /\ LinkedOnce(list)
        /\ list' = list_delete_entry(list, p) /\ mlocks' = mlocks /\ pid' = pid
    BY <1>12, CallerNotQueued DEF Unlinks, AllLists
  <2>5. \A h \in ListHead : \A q : On(list', h, q) <=> q # p /\ On(list, h, q)
    BY <2>4, DeleteProperties
  <2> QED
    BY <1>2, <2>3, <2>4, <2>5, QueueHeads DEF Owned
<1>13. ASSUME NEW c \in Cpu, Sweeps(c)
       PROVE  Owned(list', mlocks', pid') /\ Swept'
  <2> DEFINE t == runnings[c]
             x == cont[t].x
             m == cont[t].y
  <2>1. /\ InKernel(c, "exit") \/ InKernel(c, "kill")
        /\ m < LOCK_NUM /\ pid' = pid
        /\ cont' = [cont EXCEPT ![t].y = @ + 1]
    BY <1>13 DEF Sweeps, release_locks
  <2>2. /\ t \in Task /\ x \in Pcb /\ m \in 0 .. LOCK_NUM /\ cont[t].op \in {"exit", "kill"}
        /\ pid[x] # 0 /\ status[x] = "EXITED" /\ Sound(list, status, pid, {x})
        /\ \A u \in Task : u # t => cont[u].op \notin {"exit", "kill"}
    BY <1>1, <2>1, SweepFacts
  <2>3. m \in Mutex /\ m \in Int
    BY <2>1, <2>2, KernelAssumption DEF Mutex
  <2>4. \/ /\ mlocks[m].pid = pid[x]
           /\ list' = do_mutex_lock_release(m, x).lists
           /\ mlocks' = do_mutex_lock_release(m, x).mlocks
        \/ mlocks[m].pid # pid[x] /\ list' = list /\ mlocks' = mlocks
    BY <1>13 DEF Sweeps, release_locks, mutexVars
  <2>5. /\ cont'[t].x = x /\ cont'[t].y = m + 1
        /\ \A u \in Task : u # t => cont'[u] = cont[u]
    BY <1>1, <2>1, <2>2 DEF Cont
  <2> HIDE DEF t, x, m
  <2>6. Owned(list', mlocks', pid')
    BY <1>2, <1>9, <2>1, <2>2, <2>3, <2>4, SameQueuesRefl
  <2>7. /\ \A n \in Mutex \ {m} : mlocks'[n] = mlocks[n]
        /\ mlocks'[m].pid = pid[x] => \E p \in Pcb : p # x /\ pid[p] = pid[x]
    <3>1. CASE /\ mlocks[m].pid = pid[x]
               /\ mlocks' = do_mutex_lock_release(m, x).mlocks
      <4> DEFINE r == do_mutex_lock_release(m, x)
                 M == r.mlocks
      <4>1. /\ \A n \in Mutex \ {m} : M[n] = mlocks[n]
            /\ \/ M[m].pid = 0
               \/ \E f \in Pcb : status[f] # "EXITED" /\ M[m].pid = pid[f]
        <5>1. Passed(r, m, x)
          BY <1>1, <2>2, <2>3, ReleaseEffect
        <5> HIDE DEF r
        <5> QED
          BY <5>1 DEF Passed
      <4>2. mlocks' = M
        BY <3>1
      <4> HIDE DEF r, M
      <4> QED
        BY <2>2, <4>1, <4>2
    <3>2. CASE mlocks[m].pid # pid[x] /\ mlocks' = mlocks
      BY <3>2
    <3> QED
      BY <2>4, <3>1, <3>2
  <2>8. Swept'
    <3> SUFFICES ASSUME NEW u \in Task, cont'[u].op \in {"exit", "kill"}, NEW n \in Mutex,
                        n < cont'[u].y, mlocks'[n].pid = pid[cont'[u].x]
                 PROVE  \E p \in Pcb : p # cont'[u].x /\ pid[p] = pid[cont'[u].x]
      BY <2>1 DEF Swept
    <3>1. u = t
      BY <2>2, <2>5
    <3>2. n = m \/ n < m
      BY <2>3, <2>5, <3>1 DEF Mutex
    <3>3. CASE n = m
      BY <2>5, <2>7, <3>1, <3>3
    <3>4. CASE n # m
      <4>1. n < cont[t].y /\ mlocks[n].pid = pid[cont[t].x]
        BY <2>5, <2>7, <3>1, <3>2, <3>4 DEF m, x
      <4> QED
        BY <2>2, <2>5, <3>1, <4>1 DEF Swept, x
    <3> QED
      BY <3>3, <3>4
  <2> QED
    BY <2>6, <2>8
<1>14. ASSUME NEW c \in Cpu, Frees(c)
       PROVE  Owned(list', mlocks', pid') /\ Swept'
  <2> DEFINE t == runnings[c]
             x == cont[t].x
  <2>1. /\ InKernel(c, "exit") \/ InKernel(c, "kill")
        /\ cont[t].y = LOCK_NUM /\ pid' = [pid EXCEPT ![x] = 0]
        /\ mlocks' = mlocks /\ SameQueues(list, list')
        /\ cont' = [cont EXCEPT ![t] = User]
    BY <1>14 DEF Frees
  <2>2. /\ t \in Task /\ x \in Pcb /\ cont[t].op \in {"exit", "kill"} /\ pid[x] # 0
        /\ \A u \in Task : u # t => cont[u].op \notin {"exit", "kill"}
    BY <1>1, <2>1, SweepFacts
  <2>3. Calm'
    BY <1>1, <2>1, <2>2, ContFacts DEF Calm
  <2>4. \A m \in Mutex : mlocks[m].pid = pid[x] => \E p \in Pcb : p # x /\ pid[p] = pid[x]
    <3>1. \A m \in Mutex : m < cont[t].y
      BY <2>1, KernelAssumption DEF Mutex
    <3> QED
      BY <2>2, <3>1 DEF Swept
  <2>5. \A p \in Pcb : pid'[p] = IF p = x THEN 0 ELSE pid[p]
    BY <1>1, <2>1
  <2> HIDE DEF t, x
  <2>6. \A m \in Mutex : mlocks[m].lock => \E p \in Pcb : pid'[p] = mlocks[m].pid
    <3> SUFFICES ASSUME NEW m \in Mutex, mlocks[m].lock
                 PROVE  \E p \in Pcb : pid'[p] = mlocks[m].pid
      OBVIOUS
    <3>1. PICK p \in Pcb : pid[p] = mlocks[m].pid
      BY <1>2 DEF Owned
    <3> QED
      BY <2>4, <2>5, <3>1
  <2> QED
    BY <1>2, <1>3, <2>1, <2>3, <2>6 DEF Owned, SameQueues
<1> QED
  BY <1>5, <1>6, <1>7, <1>8, <1>10, <1>11, <1>12, <1>13, <1>14 DEF Kinds

\* A locked mutex always has a live owner, whatever is killed or exits while it
\* holds or awaits mutexes, and nobody queues for a free one.
THEOREM MutexesOwned ==
  ASSUME Admitted
  PROVE  Spec => []MutexOwner
<1>1. Init => MutexOwner /\ Swept
  <2> SUFFICES ASSUME Init
               PROVE  MutexOwner /\ Swept
    OBVIOUS
  <2>1. /\ \A m \in Mutex : mlocks[m].lock = FALSE /\ mlocks[m].pid = 0
        /\ \A m \in Mutex : list[block_queue(m)] = <<>>
    BY QueueHeads DEF Init
  <2>2. \A t \in Task : cont[t].op = "user"
    BY ContFacts DEF Init
  <2> QED
    BY <2>1, <2>2 DEF MutexOwner, Swept
<1>2. KernelInv /\ KernelInv' /\ MutexOwner /\ Swept /\ [Next]_vars => MutexOwner' /\ Swept'
  BY StepKinds, OwnerStep
<1> QED
  BY <1>1, <1>2, KernelInvariant, PTL DEF Spec

-----------------------------------------------------------------------------
(* Holders *)

\* p is being torn down.
Torn(p) == \E t \in Task : cont[t].op \in {"exit", "kill"} /\ cont[t].x = p

\* A live task inside a mailbox has the mutex of the mailbox or queues for it.
MailHolds ==
  \A p \in Pcb : pid[p] # 0 /\ cont[p].op \in InMailbox /\ ~ Torn(p) =>
    /\ cont[p].x \in Mutex
    /\ On(list, block_queue(cont[p].x), p) \/ p \in holds[cont[p].x]

\* A task that is torn down is the last of its process, and owns none of the
\* mutexes that the loop of release_pcb has passed.
Alone ==
  \A t \in Task : cont[t].op \in {"exit", "kill"} =>
    /\ \A p \in Pcb : pid[p] = pid[cont[t].x] => p = cont[t].x
    /\ \A m \in Mutex : m < cont[t].y => mlocks[m].pid # pid[cont[t].x]

\* MutexExclusion for one mutex with holders H, lock and owner's pid M.
Exclusive(M, H, P) ==
  /\ \A p, q \in H : p = q
  /\ M.lock <=> H # {}
  /\ \A p \in H : P[p] = M.pid

\* MutexExclusion, mutex by mutex.
LEMMA ExclusionEach ==
  /\ MutexExclusion <=> \A m \in Mutex : Exclusive(mlocks[m], holds[m], pid)
  /\ MutexExclusion' <=> \A m \in Mutex : Exclusive(mlocks'[m], holds'[m], pid')
  BY DEF MutexExclusion, Exclusive

\* With at most one thread, a process has no other task.
LEMMA OnlyThread ==
  ASSUME ThreadCount, ProcessTypeOK, Sound(list, status, pid, {}), status \in [Pcb -> Status],
         NEW p \in Pcb, pid[p] # 0, threads[pid[p]] <= 1
  PROVE  \A q \in Pcb : pid[q] = pid[p] => q = p
<1> SUFFICES ASSUME NEW q \in Pcb, pid[q] = pid[p], q # p
             PROVE  FALSE
  OBVIOUS
<1> DEFINE A == {o \in Pcb : pid[o] = pid[p] /\ status[o] # "EXITED"}
<1>1. threads[pid[p]] = Cardinality(A)
  BY DEF ThreadCount, ProcessTypeOK
<1>2. \A o \in Pcb : pid[o] # 0 => status[o] # "EXITED"
  BY DEF Sound, Linked
<1>3. {p, q} \subseteq A
  BY <1>2
<1>4. IsFiniteSet(A)
  <2>1. IsFiniteSet(Pcb)
    BY FS_Interval, KernelAssumption DEF Pcb
  <2> QED
    BY <2>1, FS_Subset
<1>5. Cardinality({p}) = 1
  BY FS_Singleton
<1>6. /\ Cardinality({p}) <= Cardinality(A)
      /\ Cardinality(A) = Cardinality({p}) => A = {p}
  BY <1>3, <1>4, FS_Subset
<1>7. Cardinality(A) \in Nat
  BY <1>4, FS_CardinalityType
<1> HIDE DEF A
<1>8. A = {p}
  BY <1>1, <1>5, <1>6, <1>7
<1> QED
  BY <1>3, <1>8

\* A step keeps MutexExclusion.
LEMMA ExclusionStep ==
  ASSUME KernelInv, KernelInv', Kinds, MutexOwner, "thread_kill" \notin Unsafe,
         MutexExclusion, MailHolds, Alone
  PROVE  MutexExclusion' /\ MailHolds' /\ Alone'
<1>1. /\ Core /\ SyncTypeOK /\ ProcessTypeOK /\ ThreadCount
      /\ list \in AllLists /\ LinkedOnce(list)
      /\ status \in [Pcb -> Status] /\ cont \in [Task -> Cont] /\ pid \in [Pcb -> Pid]
      /\ mlocks \in [Mutex -> [lock : BOOLEAN, pid : Nat]]
      /\ holds \in [Mutex -> SUBSET Pcb]
  BY InvParts DEF Base, RestTypeOK, Core, ProcessTypeOK, SyncTypeOK, TaskPlacement
<1>2. /\ \A m \in Mutex : Exclusive(mlocks[m], holds[m], pid)
      /\ \A m \in Mutex : mlocks[m].lock <=> mlocks[m].pid # 0
      /\ \A m \in Mutex, p \in Pcb : On(list, block_queue(m), p) => mlocks[m].lock
  BY <1>1, ExclusionEach, OwnerOn DEF Owned
<1>3. Calm' => Alone'
  BY DEF Calm, Alone
<1>4. ASSUME NEW c \in Cpu, Entered(c), NEW k, cont' = [cont EXCEPT ![runnings[c]] = k]
      PROVE  /\ Calm /\ \A p \in Pcb : ~ Torn(p)
             /\ runnings[c] \in Pcb /\ pid[runnings[c]] # 0
             /\ \A t \in Task : cont'[t] = IF t = runnings[c] THEN k ELSE cont[t]
             /\ k.op \notin {"exit", "kill"} => Calm'
  BY <1>4, CallerNotQueued DEF Entered, Resumes, Calm, Torn
<1>5. CASE Still
  BY <1>5 DEF Still, MutexExclusion, MailHolds, Torn, Alone
<1>6. CASE Quiet
  <2>1. MutexExclusion'
    BY <1>6 DEF Quiet, MutexExclusion
  <2>2. \A p \in Pcb : ~ Torn(p)
    BY <1>6 DEF Quiet, Calm, Torn
  <2>3. MailHolds'
    BY <1>6, <2>2 DEF Quiet, MailHolds, SameQueues
  <2> QED
    BY <1>3, <1>6, <2>1, <2>3 DEF Quiet
<1>7. ASSUME NEW c \in Cpu, NEW m \in Mutex, NEW k \in Cont, Grants(c, m, k)
      PROVE  MutexExclusion' /\ MailHolds' /\ Alone'
  <2> DEFINE p == runnings[c]
  <2>1. /\ ~ mlocks[m].lock /\ list' = list /\ pid' = pid
        /\ mlocks'[m].lock = TRUE /\ mlocks'[m].pid = pid[p] /\ holds'[m] = holds[m] \cup {p}
        /\ \A n \in Mutex \ {m} : mlocks'[n] = mlocks[n] /\ holds'[n] = holds[n]
    BY <1>1, <1>7 DEF Grants
  <2>2. /\ \A o \in Pcb : ~ Torn(o)
        /\ p \in Pcb /\ p \in Task /\ \A t \in Task : cont'[t] = IF t = p THEN k ELSE cont[t]
        /\ Calm' /\ (k.op \in InMailbox => k.x = m)
    BY <1>4, <1>7, ContFacts, TaskFacts DEF Grants, InMailbox
  <2> HIDE DEF p
  <2>3. holds[m] = {}
    BY <1>2, <2>1 DEF Exclusive
  <2>4. \A n \in Mutex : Exclusive(mlocks'[n], holds'[n], pid')
    BY <1>2, <2>1, <2>3 DEF Exclusive
  <2>5. MailHolds'
    <3> SUFFICES ASSUME NEW o \in Pcb, pid'[o] # 0, cont'[o].op \in InMailbox
                 PROVE  /\ cont'[o].x \in Mutex
                        /\ On(list', block_queue(cont'[o].x), o) \/ o \in holds'[cont'[o].x]
      BY DEF MailHolds
    <3>1. CASE o = p
      BY <2>1, <2>2, <3>1
    <3>2. CASE o # p
      <4>1. cont'[o] = cont[o] /\ pid[o] # 0 /\ ~ Torn(o)
        BY <2>1, <2>2, <3>2, TaskFacts
      <4>2. /\ cont[o].x \in Mutex
            /\ On(list, block_queue(cont[o].x), o) \/ o \in holds[cont[o].x]
        BY <4>1 DEF MailHolds
      <4> QED
        BY <2>1, <4>1, <4>2
    <3> QED
      BY <3>1, <3>2
  <2> QED
    BY <1>3, <2>2, <2>4, <2>5, ExclusionEach
<1>8. ASSUME NEW c \in Cpu, NEW m \in Mutex, NEW k \in Cont, Queues(c, m, k)
      PROVE  MutexExclusion' /\ MailHolds' /\ Alone'
  <2> DEFINE p == runnings[c]
  <2>1. mlocks' = mlocks /\ holds' = holds /\ pid' = pid /\ list' = Moved(list, p, block_queue(m))
    BY <1>8 DEF Queues
  <2>2. /\ \A o \in Pcb : ~ Torn(o)
        /\ p \in Pcb /\ p \in Task /\ \A t \in Task : cont'[t] = IF t = p THEN k ELSE cont[t]
        /\ Calm' /\ (k.op \in InMailbox => k.x = m)
    BY <1>4, <1>8, ContFacts, TaskFacts DEF Queues, InMailbox
  <2> HIDE DEF p
  <2>3. /\ list \in [ListHead -> Seq(Pcb)] /\ LinkedOnce(list) /\ p \in Pcb
        /\ block_queue(m) \in ListHead /\ list' = Moved(list, p, block_queue(m))
    BY <1>1, <2>1, <2>2, QueueHeads DEF AllLists
  <2>4. \A g \in ListHead : \A q :
          On(list', g, q) <=> IF q = p THEN g = block_queue(m) ELSE On(list, g, q)
    BY <2>3, MovedProperties
  <2>5. /\ On(list', block_queue(m), p)
        /\ \A n \in Mutex, q \in Pcb \ {p} :
             On(list, block_queue(n), q) => On(list', block_queue(n), q)
    BY <2>1, <2>3, <2>4, QueueHeads
  <2>6. MailHolds'
    BY <2>1, <2>2, <2>5, TaskFacts DEF MailHolds
  <2>7. MutexExclusion'
    BY <2>1 DEF MutexExclusion
  <2> QED
    BY <1>3, <2>2, <2>6, <2>7
<1>9. ASSUME NEW m \in Mutex, NEW p \in Pcb, NEW r, Passed(r, m, p),
             \A q \in holds[m] : q = p,
             mlocks' = r.mlocks, holds' = r.holds, SameQueues(r.lists, list'), pid' = pid
      PROVE  /\ \A n \in Mutex : Exclusive(mlocks'[n], holds'[n], pid')
             /\ \A n \in Mutex, q \in Pcb \ {p} :
                  On(list, block_queue(n), q) \/ q \in holds[n] =>
                    On(list', block_queue(n), q) \/ q \in holds'[n]
  <2>1. ASSUME NEW n \in Mutex, n # m
        PROVE  /\ Exclusive(mlocks'[n], holds'[n], pid')
               /\ \A q \in Pcb \ {p} :
                    On(list, block_queue(n), q) \/ q \in holds[n] =>
                      On(list', block_queue(n), q) \/ q \in holds'[n]
    <3>1. /\ mlocks'[n] = mlocks[n] /\ holds'[n] = holds[n] /\ pid' = pid
          /\ \A q : On(list', block_queue(n), q) <=> On(list, block_queue(n), q)
      BY <1>9, <2>1 DEF Passed, SameQueues
    <3> QED
      BY <1>2, <3>1
  <2>2. CASE /\ \A q \in Pcb : ~ On(list, block_queue(m), q)
             /\ mlocks'[m].lock = FALSE /\ mlocks'[m].pid = 0 /\ holds'[m] = holds[m] \ {p}
    <3>1. holds'[m] = {}
      BY <1>9, <2>2
    <3>2. Exclusive(mlocks'[m], holds'[m], pid')
      BY <2>2, <3>1 DEF Exclusive
    <3>3. \A q \in Pcb \ {p} : ~ (On(list, block_queue(m), q) \/ q \in holds[m])
      BY <1>9, <2>2
    <3> QED
      BY <2>1, <3>2, <3>3
  <2>3. ASSUME NEW f \in Pcb, On(list, block_queue(m), f),
               \A q : On(list', block_queue(m), q) <=> q # f /\ On(list, block_queue(m), q),
               mlocks'[m].lock = mlocks[m].lock, mlocks'[m].pid = pid[f],
               holds'[m] = (holds[m] \ {p}) \cup {f}
        PROVE  /\ Exclusive(mlocks'[m], holds'[m], pid')
               /\ \A q \in Pcb \ {p} :
                    On(list, block_queue(m), q) \/ q \in holds[m] =>
                      On(list', block_queue(m), q) \/ q \in holds'[m]
    <3>1. holds'[m] = {f} /\ mlocks[m].lock
      BY <1>2, <1>9, <2>3
    <3>2. Exclusive(mlocks'[m], holds'[m], pid')
      BY <1>9, <2>3, <3>1 DEF Exclusive
    <3> QED
      BY <2>3, <3>2
  <2>4. \/ /\ \A q \in Pcb : ~ On(list, block_queue(m), q)
           /\ mlocks'[m].lock = FALSE /\ mlocks'[m].pid = 0 /\ holds'[m] = holds[m] \ {p}
        \/ \E f \in Pcb :
             /\ On(list, block_queue(m), f)
             /\ \A q : On(list', block_queue(m), q) <=> q # f /\ On(list, block_queue(m), q)
             /\ mlocks'[m].lock = mlocks[m].lock /\ mlocks'[m].pid = pid[f]
             /\ holds'[m] = (holds[m] \ {p}) \cup {f}
    BY <1>9 DEF Passed, SameQueues
  <2> QED
    BY <2>1, <2>2, <2>3, <2>4
<1>10. ASSUME NEW c \in Cpu, NEW m \in Mutex, NEW k \in Cont, Releases(c, m, k)
       PROVE  MutexExclusion' /\ MailHolds' /\ Alone'
  <2> DEFINE p == runnings[c]
             r == do_mutex_lock_release(m, p)
  <2>1. /\ mlocks' = r.mlocks /\ holds' = r.holds /\ SameQueues(r.lists, list') /\ pid' = pid
        /\ k.op \notin InMailbox /\ k.op \notin {"exit", "kill"}
        /\ \/ p \in holds[m] \/ ~ mlocks[m].lock
           \/ cont[p].op \in InMailbox /\ cont[p].x = m
        /\ Entered(c) /\ Sound(list, status, pid, {})
    BY <1>10 DEF Releases, Entered
  <2>2. /\ \A o \in Pcb : ~ Torn(o)
        /\ p \in Pcb /\ pid[p] # 0
        /\ \A t \in Task : cont'[t] = IF t = p THEN k ELSE cont[t]
        /\ Calm' /\ ~ On(list, block_queue(m), p)
    BY <1>4, <1>10, <2>1, CallerNotQueued DEF Releases
  <2>3. Passed(r, m, p)
    BY <1>1, <2>1, <2>2, ReleaseEffect
  <2> HIDE DEF p, r
  <2>4. p \in holds[m] \/ ~ mlocks[m].lock
    BY <2>1, <2>2 DEF MailHolds
  <2>5. \A q \in holds[m] : q = p
    BY <1>2, <2>4 DEF Exclusive
  <2>6. /\ \A n \in Mutex : Exclusive(mlocks'[n], holds'[n], pid')
        /\ \A n \in Mutex, q \in Pcb \ {p} :
             On(list, block_queue(n), q) \/ q \in holds[n] =>
               On(list', block_queue(n), q) \/ q \in holds'[n]
    BY <1>9, <2>1, <2>2, <2>3, <2>5
  <2>7. MailHolds'
    BY <2>1, <2>2, <2>6, TaskFacts DEF MailHolds
  <2> QED
    BY <1>3, <2>2, <2>6, <2>7, ExclusionEach
<1>11. ASSUME NEW p \in Pcb, NEW q \in Nat, Creates(p, q)
       PROVE  MutexExclusion' /\ MailHolds' /\ Alone'
  <2>1. /\ Calm /\ pid[p] = 0 /\ mlocks' = mlocks /\ holds' = holds /\ SameQueues(list, list')
        /\ \A o \in Pcb : pid'[o] = IF o = p THEN q ELSE pid[o]
        /\ \A t \in Task : cont'[t] = IF t = p THEN User ELSE cont[t]
    BY <1>1, <1>11, TaskFacts DEF Creates
  <2>2. Calm' /\ User.op \notin InMailbox /\ \A o \in Pcb : ~ Torn(o)
    BY <2>1, ContFacts DEF Calm, Torn, InMailbox
  <2>3. \A m \in Mutex : p \notin holds[m] /\ holds[m] \subseteq Pcb
    BY <1>1, <1>2, <2>1 DEF Exclusive
  <2>4. \A m \in Mutex : Exclusive(mlocks'[m], holds'[m], pid')
    BY <1>2, <2>1, <2>3 DEF Exclusive
  <2>5. MailHolds'
    BY <2>1, <2>2, TaskFacts DEF MailHolds, SameQueues
  <2> QED
    BY <1>3, <2>2, <2>4, <2>5, ExclusionEach
<1>12. ASSUME NEW c \in Cpu, NEW p \in Pcb, NEW op \in {"exit", "kill"}, Unlinks(c, p, op)
       PROVE  MutexExclusion' /\ MailHolds' /\ Alone'
  <2> DEFINE t == runnings[c]
             k == [op |-> op, x |-> p, y |-> 0]
  <2>1. /\ Entered(c) /\ pid[p] # 0 /\ threads[pid[p]] <= 1
        /\ list' = list_delete_entry(list, p) /\ mlocks' = mlocks /\ holds' = holds /\ pid' = pid
        /\ Sound(list, status, pid, {})
    BY <1>12 DEF Unlinks, Entered
  <2>2. /\ k.op = op /\ k.x = p /\ k.y = 0 /\ k.op \notin InMailbox
        /\ cont' = [cont EXCEPT ![runnings[c]] = k]
    BY <1>12 DEF InMailbox, Unlinks
  <2> HIDE DEF k
  <2>3. /\ \A o \in Pcb : ~ Torn(o)
        /\ t \in Pcb /\ t \in Task /\ Calm
        /\ \A u \in Task : cont'[u] = IF u = t THEN k ELSE cont[u]
    BY <2>1, <2>2, CallerNotQueued DEF Entered, Resumes, Calm, Torn
  <2> HIDE DEF t
  <2>4. \A q \in Pcb : pid[q] = pid[p] => q = p
    BY <1>1, <2>1, OnlyThread
  <2>5. Alone'
    BY <2>1, <2>3, <2>2, <2>4 DEF Alone, Calm, Mutex
  <2>6. list \in [ListHead -> Seq(Pcb)]
    BY <1>1 DEF AllLists
  <2>7. \A h \in ListHead : \A q : On(list_delete_entry(list, p), h, q) <=> q # p /\ On(list, h, q)
    BY <1>1, <2>6, DeleteProperties
  <2>8. \A n \in Mutex, q \in Pcb \ {p} :
          On(list, block_queue(n), q) => On(list', block_queue(n), q)
    BY <2>1, <2>7, QueueHeads
  <2>9. Torn(p)'
    BY <2>3, <2>2 DEF Torn
  <2>10. MailHolds'
    BY <2>1, <2>3, <2>2, <2>8, <2>9, TaskFacts DEF MailHolds
  <2>11. MutexExclusion'
    BY <2>1 DEF MutexExclusion
  <2> QED
    BY <2>5, <2>10, <2>11
<1>13. ASSUME NEW c \in Cpu, Sweeps(c)
       PROVE  MutexExclusion' /\ MailHolds' /\ Alone'
  <2> DEFINE t == runnings[c]
             x == cont[t].x
             m == cont[t].y
             r == do_mutex_lock_release(m, x)
  <2>1. /\ InKernel(c, "exit") \/ InKernel(c, "kill")
        /\ m < LOCK_NUM /\ pid' = pid
        /\ cont' = [cont EXCEPT ![t].y = @ + 1]
    BY <1>13 DEF Sweeps, release_locks
  <2>2. /\ t \in Task /\ x \in Pcb /\ m \in 0 .. LOCK_NUM /\ cont[t].op \in {"exit", "kill"}
        /\ pid[x] # 0 /\ status[x] = "EXITED" /\ Sound(list, status, pid, {x})
        /\ \A u \in Task : u # t => cont[u].op \notin {"exit", "kill"}
    BY <1>1, <2>1, SweepFacts
  <2>3. m \in Mutex /\ m \in Int
    BY <2>1, <2>2, KernelAssumption DEF Mutex
  <2>4. \/ /\ mlocks[m].pid = pid[x]
           /\ list' = r.lists /\ mlocks' = r.mlocks /\ holds' = r.holds
        \/ mlocks[m].pid # pid[x] /\ list' = list /\ mlocks' = mlocks /\ holds' = holds
    BY <1>13 DEF Sweeps, release_locks, mutexVars
  <2>5. /\ cont'[t].x = x /\ cont'[t].y = m + 1 /\ cont'[t].op = cont[t].op
        /\ \A u \in Task : u # t => cont'[u] = cont[u]
    BY <1>1, <2>1, <2>2 DEF Cont
  <2>6. Passed(r, m, x)
    BY <1>1, <2>2, <2>3, ReleaseEffect
  <2>7. /\ \A p \in Pcb : pid[p] = pid[x] => p = x
        /\ \A n \in Mutex : n < m => mlocks[n].pid # pid[x]
    BY <2>2 DEF Alone
  <2> HIDE DEF t, x, m, r
  <2>8. /\ \A n \in Mutex : Exclusive(mlocks'[n], holds'[n], pid')
        /\ \A n \in Mutex, q \in Pcb \ {x} :
             On(list, block_queue(n), q) \/ q \in holds[n] =>
               On(list', block_queue(n), q) \/ q \in holds'[n]
        /\ \A n \in Mutex : n # m => mlocks'[n] = mlocks[n]
        /\ mlocks'[m].pid # pid[x]
    <3>1. CASE /\ mlocks[m].pid = pid[x]
               /\ list' = r.lists /\ mlocks' = r.mlocks /\ holds' = r.holds
      <4>1. \A q \in holds[m] : q = x
        BY <1>1, <1>2, <2>3, <2>7, <3>1 DEF Exclusive
      <4>2. SameQueues(r.lists, list')
        BY <3>1, SameQueuesRefl
      <4>3. /\ \A n \in Mutex : Exclusive(mlocks'[n], holds'[n], pid')
            /\ \A n \in Mutex, q \in Pcb \ {x} :
                 On(list, block_queue(n), q) \/ q \in holds[n] =>
                   On(list', block_queue(n), q) \/ q \in holds'[n]
        BY <1>9, <2>1, <2>2, <2>3, <2>6, <3>1, <4>1, <4>2
      <4>4. /\ \A n \in Mutex : n # m => mlocks'[n] = mlocks[n]
            /\ mlocks'[m].pid = 0
               \/ \E f \in Pcb : status[f] # "EXITED" /\ mlocks'[m].pid = pid[f]
        BY <2>6, <3>1 DEF Passed
      <4>5. mlocks'[m].pid # pid[x]
        BY <2>2, <2>7, <4>4
      <4> QED
        BY <4>3, <4>4, <4>5
    <3>2. CASE mlocks[m].pid # pid[x] /\ list' = list /\ mlocks' = mlocks /\ holds' = holds
      BY <1>2, <2>1, <3>2
    <3> QED
      BY <2>4, <3>1, <3>2
  <2>9. /\ \A p \in Pcb : Torn(p) => p = x
        /\ \A p \in Pcb : p = x => Torn(p)'
    <3>1. \A p \in Pcb : Torn(p) => p = x
      BY <2>2 DEF Torn, x
    <3>2. cont'[t].op \in {"exit", "kill"} /\ cont'[t].x = x
      BY <2>2, <2>5
    <3> QED
      BY <2>2, <3>1, <3>2 DEF Torn
  <2>10. MailHolds'
    <3> SUFFICES ASSUME NEW p \in Pcb, pid'[p] # 0, cont'[p].op \in InMailbox, ~ Torn(p)'
                 PROVE  /\ cont'[p].x \in Mutex
                        /\ On(list', block_queue(cont'[p].x), p) \/ p \in holds'[cont'[p].x]
      BY DEF MailHolds
    <3>1. p # x /\ p # t
      <4>1. p # x
        BY <2>9
      <4>2. cont'[t].op \in {"exit", "kill"}
        BY <2>2, <2>5
      <4> QED
        BY <4>1, <4>2 DEF InMailbox
    <3>2. cont'[p] = cont[p] /\ pid[p] # 0 /\ ~ Torn(p)
      BY <2>1, <2>5, <2>9, <3>1, TaskFacts
    <3> QED
      BY <2>8, <3>1, <3>2 DEF MailHolds
  <2>11. Alone'
    <3>1. \A u \in Task : cont'[u].op \in {"exit", "kill"} => u = t
      BY <2>2, <2>5
    <3>2. \A n \in Mutex : n < m + 1 => mlocks'[n].pid # pid[x]
      <4>1. \A n \in Mutex : n < m + 1 => n = m \/ n < m
        BY <2>3 DEF Mutex
      <4> QED
        BY <2>7, <2>8, <4>1
    <3> QED
      BY <2>1, <2>5, <2>7, <3>1, <3>2 DEF Alone
  <2> QED
    BY <2>8, <2>10, <2>11, ExclusionEach
<1>14. ASSUME NEW c \in Cpu, Frees(c)
       PROVE  MutexExclusion' /\ MailHolds' /\ Alone'
  <2> DEFINE t == runnings[c]
             x == cont[t].x
  <2>1. /\ InKernel(c, "exit") \/ InKernel(c, "kill")
        /\ cont[t].y = LOCK_NUM /\ pid' = [pid EXCEPT ![x] = 0]
        /\ mlocks' = mlocks /\ holds' = holds /\ SameQueues(list, list')
        /\ cont' = [cont EXCEPT ![t] = User]
    BY <1>14 DEF Frees
  <2>2. /\ t \in Task /\ x \in Pcb /\ cont[t].op \in {"exit", "kill"} /\ pid[x] # 0
        /\ \A u \in Task : u # t => cont[u].op \notin {"exit", "kill"}
    BY <1>1, <2>1, SweepFacts
  <2>3. \A m \in Mutex : mlocks[m].pid # pid[x]
    <3>1. \A m \in Mutex : m < cont[t].y
      BY <2>1, KernelAssumption DEF Mutex
    <3> QED
      BY <2>2, <3>1 DEF Alone
  <2>4. /\ \A p \in Pcb : pid'[p] = IF p = x THEN 0 ELSE pid[p]
        /\ \A u \in Task : cont'[u] = IF u = t THEN User ELSE cont[u]
    BY <1>1, <2>1, <2>2
  <2>5. \A p \in Pcb : Torn(p) => p = x
    BY <2>2 DEF Torn
  <2> HIDE DEF t, x
  <2>6. Calm'
    BY <2>2, <2>4, ContFacts DEF Calm
  <2>7. \A m \in Mutex : x \notin holds[m] /\ holds[m] \subseteq Pcb
    BY <1>1, <1>2, <2>3 DEF Exclusive
  <2>8. \A m \in Mutex : Exclusive(mlocks'[m], holds'[m], pid')
    BY <1>2, <2>1, <2>4, <2>7 DEF Exclusive
  <2>9. User.op \notin InMailbox
    BY ContFacts DEF InMailbox
  <2>10. MailHolds'
    BY <2>1, <2>4, <2>5, <2>9, TaskFacts DEF MailHolds, SameQueues
  <2> QED
    BY <1>3, <2>6, <2>8, <2>10, ExclusionEach
<1> QED
  BY <1>5, <1>6, <1>7, <1>8, <1>10, <1>11, <1>12, <1>13, <1>14 DEF Kinds

\* At most one task holds a mutex, and the kernel knows which, also while tasks
\* exit, are killed, wait on conditions or use mailboxes, as long as no process
\* with several threads is killed.
THEOREM MutexesExclusive ==
  ASSUME Admitted, "thread_kill" \notin Unsafe
  PROVE  Spec => []MutexExclusion
<1>1. Init => MutexExclusion /\ MailHolds /\ Alone
  <2> SUFFICES ASSUME Init
               PROVE  MutexExclusion /\ MailHolds /\ Alone
    OBVIOUS
  <2>1. \A m \in Mutex : mlocks[m].lock = FALSE /\ holds[m] = {}
    BY DEF Init
  <2>2. \A t \in Task : cont[t].op = "user"
    BY ContFacts DEF Init
  <2> QED
    BY <2>1, <2>2, TaskFacts DEF MutexExclusion, MailHolds, Alone, InMailbox
<1>2. /\ KernelInv /\ KernelInv' /\ MutexOwner
      /\ MutexExclusion /\ MailHolds /\ Alone /\ [Next]_vars
      => MutexExclusion' /\ MailHolds' /\ Alone'
  BY StepKinds, ExclusionStep
<1> QED
  BY <1>1, <1>2, KernelInvariant, MutexesOwned, PTL DEF Spec

-----------------------------------------------------------------------------
(* The order of grants *)

\* A step grants a mutex only to the first of its queue.
LEMMA GrantOrder ==
  ASSUME KernelInv, Kinds, MutexOwner, NEW m \in Mutex, NEW p \in holds'[m] \ holds[m],
         list[block_queue(m)] # <<>>
  PROVE  p = list[block_queue(m)][1]
<1>1. /\ Core /\ SyncTypeOK /\ mlocks[m].lock /\ holds \in [Mutex -> SUBSET Pcb]
  BY InvParts DEF Base, RestTypeOK, MutexOwner, SyncTypeOK
<1>2. holds' # holds
  OBVIOUS
<1>3. ASSUME NEW n \in Mutex, NEW q \in Pcb, NEW r, Passed(r, n, q), holds' = r.holds
      PROVE  p = list[block_queue(m)][1]
  <2>1. m = n
    BY <1>3 DEF Passed
  <2>2. \/ holds'[m] = holds[m] \ {q}
        \/ holds'[m] = (holds[m] \ {q}) \cup {list[block_queue(m)][1]}
    BY <1>3, <2>1 DEF Passed
  <2> QED
    BY <2>2
<1>4. ASSUME NEW c \in Cpu, NEW n \in Mutex, NEW k \in Cont, Grants(c, n, k)
      PROVE  FALSE
  <2>1. ~ mlocks[n].lock /\ holds' = [holds EXCEPT ![n] = @ \cup {runnings[c]}]
    BY <1>4 DEF Grants
  <2>2. n # m
    BY <1>1, <2>1
  <2> QED
    BY <1>1, <2>1, <2>2
<1>5. ASSUME NEW c \in Cpu, NEW n \in Mutex, NEW k \in Cont, Releases(c, n, k)
      PROVE  p = list[block_queue(m)][1]
  <2> DEFINE r == do_mutex_lock_release(n, runnings[c])
  <2>1. /\ holds' = r.holds /\ runnings[c] \in Pcb /\ Sound(list, status, pid, {})
    BY <1>5 DEF Releases, Entered
  <2>2. Passed(r, n, runnings[c])
    BY <1>1, <2>1, ReleaseEffect
  <2> HIDE DEF r
  <2> QED
    BY <1>3, <2>1, <2>2
<1>6. ASSUME NEW c \in Cpu, Sweeps(c)
      PROVE  p = list[block_queue(m)][1]
  <2> DEFINE k == cont[runnings[c]]
             r == do_mutex_lock_release(k.y, k.x)
  <2>1. /\ InKernel(c, "exit") \/ InKernel(c, "kill")
        /\ k.y < LOCK_NUM /\ holds' = r.holds
    BY <1>2, <1>6 DEF Sweeps, release_locks, mutexVars
  <2>2. k.x \in Pcb /\ k.y \in 0 .. LOCK_NUM /\ Sound(list, status, pid, {k.x})
    BY <1>1, <2>1, SweepFacts
  <2>3. k.y \in Mutex
    BY <2>1, <2>2, KernelAssumption DEF Mutex
  <2> HIDE DEF k
  <2>4. Passed(r, k.y, k.x)
    BY <1>1, <2>2, <2>3, ReleaseEffect
  <2> HIDE DEF r
  <2> QED
    BY <1>3, <2>1, <2>2, <2>3, <2>4
<1> QED
  BY <1>2, <1>4, <1>5, <1>6 DEF Kinds, Still, Quiet, Queues, Creates, Unlinks, Frees

\* A released mutex goes to the task that has waited longest, also when exit or
\* kill releases it: nobody overtakes.
THEOREM GrantsInOrder ==
  ASSUME Admitted
  PROVE  Spec => NoBarging
<1>1. KernelInv /\ MutexOwner /\ [Next]_vars =>
        [\A m \in Mutex : \A p \in holds'[m] \ holds[m] :
           list[block_queue(m)] # <<>> => p = list[block_queue(m)][1]]_vars
  BY StepKinds, GrantOrder
<1> QED
  BY <1>1, KernelInvariant, MutexesOwned, PTL DEF Spec, NoBarging

-----------------------------------------------------------------------------
(* Waiters *)


Watched == {wait_list(p) : p \in Pcb} \cup {block_list(b) : b \in Barrier}
           \cup {send_list(b) : b \in Mbox} \cup {recv_list(b) : b \in Mbox}

\* p waits on a watched list.
Waits(L, p) == \E h \in Watched : On(L, h, p)

Kept(L, M) == \A h \in Watched : M[h] = L[h]

\* Of the watched lists only h changes, to s.
Becomes(L, M, h, s) ==
  h \in Watched /\ M[h] = s /\ \A g \in Watched \ {h} : M[g] = L[g]

Keeps == Kept(list, list')
Adds(c, h) == Becomes(list, list', h, Append(list[h], runnings[c]))
Empties(h) == Becomes(list, list', h, <<>>)

\* A task that waits does not move on.
Carried == \A p \in Pcb : Waits(list, p) => cont'[p] = cont[p]

SameCounts == \A b \in Barrier : barriers'[b].current = barriers[b].current
SameRings == \A b \in Mbox : written(b)' = written(b)

\* The count of barrier b becomes n, the others stay.
Counts(b, n) ==
  /\ barriers'[b].current = n
  /\ \A d \in Barrier \ {b} : barriers'[d].current = barriers[d].current

(* What a step does *)

Passes == Keeps /\ SameCounts /\ SameRings

\* waitpid or thread_join of p
Awaits(c, p) == Adds(c, wait_list(p)) /\ SameCounts /\ SameRings

\* The end of exit or kill of p.
Reports(p) == Empties(wait_list(p)) /\ pid'[p] = 0 /\ SameCounts /\ SameRings

Arrives(c, b) ==
  Adds(c, block_list(b)) /\ Counts(b, barriers[b].current + 1) /\ SameRings

Opens(b) ==
  /\ Empties(block_list(b)) /\ barriers[b].current + 1 >= barriers[b].goal
  /\ Counts(b, 0) /\ SameRings

Destroys(b) ==
  Keeps /\ list[block_list(b)] = <<>> /\ Counts(b, 0) /\ SameRings

\* A send (y > 0) or receive finds too little.
Lacks(c, b, y) ==
  /\ Adds(c, OwnList(b, y)) /\ ~ Enough(b, y) /\ SameCounts /\ SameRings
  /\ cont'[runnings[c]] = [op |-> "mbox_acquire", x |-> b, y |-> y]

\* ... or enough: the other side is woken.
Copies(b, y) ==
  /\ Empties(OwnList(b, -y)) /\ SameCounts
  /\ mailboxes' = [mailboxes EXCEPT ![b] = Copied(@, y)]

\* The last close of b, which nobody uses.
Closes(b) ==
  /\ Keeps /\ \A p \in Pcb : ~ Using(p, b)
  /\ SameCounts /\ mailboxes' = [mailboxes EXCEPT ![b] = Free]

\* p begins to exit or is killed.
Dies(p) ==
  /\ list' = list_delete_entry(list, p) /\ status'[p] = "EXITED"
  /\ \/ \A b \in Barrier : ~ On(list, block_list(b), p)
     \/ "kill_at_barrier" \in Unsafe
  /\ SameCounts /\ SameRings

Effect ==
  \/ Passes
  \/ \E c \in Cpu : /\ Entered(c)
                    /\ \/ \E p \in Pcb : Awaits(c, p)
                       \/ \E b \in Barrier : Arrives(c, b)
                       \/ \E b \in Mbox, y \in Int : Lacks(c, b, y)
  \/ \E p \in Pcb : Reports(p) \/ Dies(p)
  \/ \E b \in Barrier : Opens(b) \/ Destroys(b)
  \/ \E b \in Mbox : Closes(b) \/ \E y \in Int : Copies(b, y)

-----------------------------------------------------------------------------
(* The lists *)

\* The watched lists are none of the others, nor each other.
LEMMA WatchedHeads ==
  /\ Watched \subseteq ListHead \ {ready_queue}
  /\ sleep_queue \notin Watched /\ send_block_queue \notin Watched
  /\ recv_block_queue \notin Watched /\ ready_queue \notin Watched
  /\ \A m \in Mutex : block_queue(m) \notin Watched
  /\ \A k \in Condition : cond_list(k) \notin Watched
  /\ \A p \in Pcb : wait_list(p) \in Watched
  /\ \A b \in Barrier : block_list(b) \in Watched
  /\ \A b \in Mbox : send_list(b) \in Watched /\ recv_list(b) \in Watched
  /\ \A b \in Mbox : \A y : OwnList(b, y) \in Watched
  BY DEF Watched, OwnList, ListHead, ready_queue, sleep_queue, send_block_queue,
         recv_block_queue, wait_list, block_queue, block_list, cond_list, send_list, recv_list

LEMMA WatchedDiffer ==
  /\ \A i, j : wait_list(i) = wait_list(j) => i = j
  /\ \A i, j : block_list(i) = block_list(j) => i = j
  /\ \A i, j : send_list(i) = send_list(j) => i = j
  /\ \A i, j : recv_list(i) = recv_list(j) => i = j
  /\ \A i, j : /\ wait_list(i) # block_list(j) /\ wait_list(i) # send_list(j)
               /\ wait_list(i) # recv_list(j) /\ block_list(i) # send_list(j)
               /\ block_list(i) # recv_list(j) /\ send_list(i) # recv_list(j)
  BY DEF wait_list, block_list, send_list, recv_list

\* Kept is transitive.
LEMMA KeptTrans ==
  ASSUME NEW L, NEW M, NEW N, Kept(L, M), Kept(M, N)
  PROVE  Kept(L, N)
  BY DEF Kept

\* Unlinking an entry changes no list that it is not on.
LEMMA DeleteElsewhere ==
  ASSUME NEW L \in AllLists, NEW p, NEW h \in ListHead, ~ On(L, h, p)
  PROVE  list_delete_entry(L, p)[h] = L[h]
  BY DEF list_delete_entry, AllLists, On, Contains, RemoveFirst

\* Moving a task that waits on no watched list.
LEMMA MovedWatched ==
  ASSUME NEW L \in AllLists, NEW p \in Pcb, ~ Waits(L, p), NEW h \in ListHead
  PROVE  /\ h \notin Watched => Kept(L, Moved(L, p, h))
         /\ h \in Watched => Becomes(L, Moved(L, p, h), h, Append(L[h], p))
<1> DEFINE D == list_delete_entry(L, p)
<1>1. \A g \in Watched : D[g] = L[g] /\ g \in ListHead
  BY DeleteElsewhere, WatchedHeads DEF Waits
<1>2. DOMAIN D = ListHead
  BY DEF list_delete_entry, AllLists
<1> HIDE DEF D
<1>3. Moved(L, p, h) = [D EXCEPT ![h] = Append(D[h], p)]
  BY DEF Moved, list_add_tail, D
<1> QED
  BY <1>1, <1>2, <1>3 DEF Kept, Becomes

\* Unblocking all of a list.
LEMMA DrainedWatched ==
  ASSUME NEW L \in AllLists, NEW h \in ListHead \ {ready_queue}
  PROVE  /\ h \notin Watched => Kept(L, Drained(L, h, ready_queue))
         /\ h \in Watched => Becomes(L, Drained(L, h, ready_queue), h, <<>>)
<1>1. ready_queue \in ListHead /\ \A g \in Watched : g \in ListHead /\ g # ready_queue
  BY HeadsDiffer, WatchedHeads
<1> QED
  BY <1>1 DEF Drained, AllLists, Kept, Becomes

\* A task that runs, or that is on another list, waits on no watched one.
LEMMA NotWaiting ==
  ASSUME NEW L, NEW S, NEW P, NEW X, Sound(L, S, P, X), NEW p \in Pcb,
         \/ S[p] \in {"RUNNING", "EXITED"} \/ P[p] = 0
         \/ \E h \in ListHead \ Watched : On(L, h, p)
  PROVE  ~ Waits(L, p)
<1> SUFFICES ASSUME NEW g \in Watched, On(L, g, p)
             PROVE  FALSE
  BY DEF Waits
<1>1. g \in ListHead /\ g # ready_queue
  BY WatchedHeads
<1>2. S[p] \notin {"RUNNING", "EXITED"} /\ P[p] # 0
  BY <1>1 DEF Sound
<1>3. PICK h \in ListHead \ Watched : On(L, h, p)
  BY <1>2
<1>4. PICK i \in 1 .. Len(L[h]) : L[h][i] = p
  BY <1>3 DEF On, Contains
<1>5. PICK j \in 1 .. Len(L[g]) : L[g][j] = p
  BY DEF On, Contains
<1>6. L \in [ListHead -> Seq(Pcb)] /\ LinkedOnce(L)
  BY DEF Sound, AllLists
<1>7. h = g
  BY <1>1, <1>3, <1>4, <1>5, <1>6 DEF LinkedOnce
<1> QED
  BY <1>3, <1>7

\* The task that makes a call waits on no list.
LEMMA CallerWaitsNot ==
  ASSUME NEW c \in Cpu, Entered(c)
  PROVE  /\ runnings[c] \in Pcb /\ runnings[c] \in Task
         /\ list \in AllLists /\ LinkedOnce(list) /\ cont \in [Task -> Cont]
         /\ ~ Waits(list, runnings[c])
<1>1. /\ runnings[c] \in Pcb /\ Sound(list, status, pid, {}) /\ status[runnings[c]] = "RUNNING"
      /\ cont \in [Task -> Cont]
  BY DEF Entered, Runs, Resumes
<1>2. ~ Waits(list, runnings[c])
  BY <1>1, NotWaiting
<1> QED
  BY <1>1, <1>2, TaskFacts DEF Sound

\* Continuing a task that does not wait.
LEMMA CarriedOn ==
  ASSUME NEW t, NEW k, cont \in [Task -> Cont], cont' = [cont EXCEPT ![t] = k],
         t \in Pcb => ~ Waits(list, t)
  PROVE  Carried
  BY TaskFacts DEF Carried

-----------------------------------------------------------------------------
(* What a step does *)

LEMMA KeptRefl ==
  ASSUME list' = list
  PROVE  Keeps
  BY DEF Keeps, Kept

\* Barriers and mailboxes are left alone.
LEMMA SameState ==
  /\ barriers' = barriers => SameCounts
  /\ mailboxes' = mailboxes => SameRings
  BY DEF SameCounts, SameRings, written

\* What do_block does to the lists and continuations.
LEMMA BlockChange ==
  ASSUME NEW c, NEW L, NEW S, NEW h, NEW k, do_block(c, L, S, h, k)
  PROVE  /\ list' = Moved(L, runnings[c], h)
         /\ cont' = [cont EXCEPT ![runnings[c]] = k]
  BY DEF do_block, find_idle_task

\* A system call blocks its task.
LEMMA CallBlocks ==
  ASSUME NEW c \in Cpu, Entered(c), NEW h \in ListHead, NEW k,
         do_block(c, list, status, h, k)
  PROVE  /\ Carried /\ cont'[runnings[c]] = k
         /\ h \notin Watched => Keeps
         /\ h \in Watched => Adds(c, h)
<1>1. list' = Moved(list, runnings[c], h) /\ cont' = [cont EXCEPT ![runnings[c]] = k]
  BY BlockChange
<1>2. Carried /\ cont'[runnings[c]] = k
  BY <1>1, CallerWaitsNot, CarriedOn
<1> QED
  BY <1>1, <1>2, CallerWaitsNot, MovedWatched DEF Keeps, Adds

\* A system call returns.
LEMMA CallReturns ==
  ASSUME NEW c \in Cpu, Entered(c), ret_from_kernel(c)
  PROVE  Carried
  BY CallerWaitsNot, CarriedOn DEF ret_from_kernel

\* A release of a mutex wakes only a task that queues for it.
LEMMA ReleaseKept ==
  ASSUME NEW X, NEW m \in Mutex, NEW p, Sound(list, status, pid, X)
  PROVE  Kept(list, do_mutex_lock_release(m, p).lists)
<1> DEFINE q == list[block_queue(m)]
<1>1. CASE q = <<>>
  BY <1>1 DEF do_mutex_lock_release, Kept
<1>2. CASE q # <<>>
  <2>1. block_queue(m) \in ListHead \ Watched /\ ready_queue \in ListHead \ Watched
    BY HeadsDiffer, WatchedHeads
  <2>2. q \in Seq(Pcb) /\ list \in AllLists
    BY <2>1 DEF Sound, AllLists
  <2>3. q[1] \in Pcb /\ On(list, block_queue(m), q[1])
    BY <1>2, <2>2 DEF On, Contains
  <2> DEFINE f == q[1]
  <2>4. do_mutex_lock_release(m, p).lists = Moved(list, f, ready_queue)
    BY <1>2 DEF do_mutex_lock_release
  <2>5. f \in Pcb /\ On(list, block_queue(m), f)
    BY <2>3
  <2> HIDE DEF q, f
  <2>6. ~ Waits(list, f)
    BY <2>1, <2>5, NotWaiting
  <2> QED
    BY <2>1, <2>2, <2>4, <2>5, <2>6, MovedWatched
<1> QED
  BY <1>1, <1>2

\* A system call releases a mutex and blocks its task.
LEMMA ReleaseThenBlock ==
  ASSUME NEW c \in Cpu, Entered(c), NEW m \in Mutex, NEW h \in ListHead, NEW k,
         SyncTypeOK, ProcessTypeOK,
         do_block(c, do_mutex_lock_release(m, runnings[c]).lists,
                  do_mutex_lock_release(m, runnings[c]).statuses, h, k)
  PROVE  /\ Carried /\ cont'[runnings[c]] = k
         /\ h \notin Watched => Keeps
         /\ h \in Watched => Adds(c, h)
<1> DEFINE L == do_mutex_lock_release(m, runnings[c]).lists
           S == do_mutex_lock_release(m, runnings[c]).statuses
           p == runnings[c]
<1>1. Sound(L, S, pid, {}) /\ Runs(L, S, pid, runnings, {}) /\ p \in Pcb
  BY ReleaseSound DEF Entered
<1>2. list' = Moved(L, p, h) /\ cont' = [cont EXCEPT ![p] = k]
  BY BlockChange
<1>3. Kept(list, L)
  BY ReleaseKept DEF Entered
<1>4. Carried /\ cont'[p] = k
  BY <1>2, CallerWaitsNot, CarriedOn
<1> HIDE DEF L, S, p
<1>5. ~ Waits(L, p) /\ L \in AllLists
  <2>1. S[p] = "RUNNING" /\ L \in AllLists
    BY <1>1 DEF Runs, Sound, p
  <2> QED
    BY <1>1, <2>1, NotWaiting
<1>6. CASE h \notin Watched
  <2>1. Kept(L, list')
    BY <1>1, <1>2, <1>5, <1>6, MovedWatched
  <2>2. Keeps
    BY <1>3, <2>1, KeptTrans DEF Keeps
  <2> QED
    BY <1>4, <1>6, <2>2 DEF p
<1>7. CASE h \in Watched
  <2>1. Becomes(L, list', h, Append(L[h], p))
    BY <1>1, <1>2, <1>5, <1>7, MovedWatched
  <2>2. Becomes(list, list', h, Append(list[h], p))
    BY <1>3, <1>7, <2>1 DEF Becomes, Kept
  <2> QED
    BY <1>4, <1>7, <2>2 DEF p, Adds
<1> QED
  BY <1>6, <1>7

\* The scheduler moves only its own task and those that sleep or wait for the
\* network card.
LEMMA SchedEffect ==
  ASSUME Core, NEW c \in Cpu,
         Timer(c) \/ check_sleeping(c) \/ do_scheduler(c) \/ do_sleep(c)
  PROVE  Keeps /\ Carried
<1>1. CASE Timer(c)
  <2>1. /\ runnings[c] \in Task /\ cont \in [Task -> Cont] /\ Sound(list, status, pid, {})
        /\ Runs(list, status, pid, runnings, {})
    BY <1>1, CoreElim DEF Timer, Resumes
  <2>2. cont' = [cont EXCEPT ![runnings[c]] = Sched] /\ list' = list
    BY <1>1 DEF Timer
  <2>3. runnings[c] \in Pcb => status[runnings[c]] = "RUNNING"
    BY <2>1 DEF Runs
  <2>4. runnings[c] \in Pcb => ~ Waits(list, runnings[c])
    BY <2>1, <2>3, NotWaiting
  <2> QED
    BY <2>1, <2>2, <2>4, CarriedOn, KeptRefl
<1>2. ASSUME InKernel(c, "sched")
      PROVE  /\ Sound(list, status, pid, {}) /\ Runs(list, status, pid, runnings, {})
             /\ cont \in [Task -> Cont] /\ runnings[c] \in Task
  <2>1. "sched" \in Op \ {"exit", "kill"}
    BY DEF Op
  <2> QED
    BY <1>2, <2>1, CoreElim DEF InKernel, Resumes
<1>3. CASE check_sleeping(c)
  <2>1. PICK i \in DOMAIN list[sleep_queue] :
          list' = Moved(list, list[sleep_queue][i], ready_queue)
    BY <1>3 DEF check_sleeping
  <2>2. Sound(list, status, pid, {}) /\ cont' = cont
    BY <1>2, <1>3 DEF check_sleeping
  <2> DEFINE p == list[sleep_queue][i]
  <2>3. p \in Pcb /\ On(list, sleep_queue, p) /\ list \in AllLists
    BY <2>2, HeadsDiffer DEF Sound, AllLists, On, Contains
  <2> HIDE DEF p
  <2>4. ~ Waits(list, p) /\ ready_queue \in ListHead /\ ready_queue \notin Watched
    BY <2>2, <2>3, HeadsDiffer, WatchedHeads, NotWaiting
  <2>5. Keeps
    BY <2>1, <2>3, <2>4, MovedWatched DEF p, Keeps
  <2> QED
    BY <2>2, <2>5 DEF Carried
<1>4. CASE do_scheduler(c)
  <2> DEFINE p == runnings[c]
  <2>1. /\ Sound(list, status, pid, {}) /\ Runs(list, status, pid, runnings, {})
        /\ cont \in [Task -> Cont] /\ p \in Task
    BY <1>2, <1>4 DEF do_scheduler
  <2>2. /\ Sound(NetLists, NetStatus, pid, {}) /\ Runs(NetLists, NetStatus, pid, runnings, {})
    BY <2>1, NetSound
  <2>3. Kept(list, NetLists)
    <3> SUFFICES ASSUME NEW g \in Watched
                 PROVE  NetLists[g] = list[g]
      BY DEF Kept
    <3>1. list \in [ListHead -> Seq(Pcb)] /\ g \in ListHead /\ g # ready_queue
          /\ g # send_block_queue /\ g # recv_block_queue
      BY <2>1, WatchedHeads DEF Sound, AllLists
    <3>2. ASSUME NEW L, DOMAIN L = ListHead, NEW h \in {send_block_queue, recv_block_queue}
          PROVE  NetCheck(L, h)[g] = L[g] /\ DOMAIN NetCheck(L, h) = ListHead
      BY <3>1, <3>2 DEF NetCheck, Drained
    <3> QED
      BY <3>1, <3>2 DEF NetLists
  <2>4. /\ list' = IF p \in Pcb THEN Moved(NetLists, p, ready_queue) ELSE NetLists
        /\ cont' = [cont EXCEPT ![p] = User]
    BY <1>4 DEF do_scheduler, find_idle_task
  <2>5. CASE p \in Pcb
    <3>1. NetStatus[p] = "RUNNING" /\ NetLists \in AllLists /\ status[p] = "RUNNING"
      BY <2>1, <2>2, <2>5 DEF Runs, Sound
    <3> HIDE DEF p
    <3>2. ~ Waits(NetLists, p) /\ ~ Waits(list, p)
      BY <2>1, <2>2, <2>5, <3>1, NotWaiting
    <3>3. Kept(NetLists, list')
      BY <2>4, <2>5, <3>1, <3>2, HeadsDiffer, WatchedHeads, MovedWatched
    <3> QED
      BY <2>1, <2>3, <2>4, <3>2, <3>3, KeptTrans, CarriedOn DEF Keeps
  <2>6. CASE p \notin Pcb
    <3> HIDE DEF p
    <3> QED
      BY <2>1, <2>3, <2>4, <2>6, CarriedOn DEF Keeps
  <2> QED
    BY <2>5, <2>6
<1>5. CASE do_sleep(c)
  <2>1. Entered(c) /\ do_block(c, list, status, sleep_queue, User)
    BY <1>5, SyscallEntered DEF do_sleep
  <2> QED
    BY <2>1, CallBlocks, WatchedHeads, HeadsDiffer
<1> QED
  BY <1>1, <1>3, <1>4, <1>5

\* Nor do the network system calls.
LEMMA NetEffect ==
  ASSUME Core, NEW c \in Cpu, NetStep(c)
  PROVE  Keeps /\ Carried
<1>0. /\ send_block_queue \in ListHead /\ send_block_queue \notin Watched
      /\ recv_block_queue \in ListHead /\ recv_block_queue \notin Watched
  BY HeadsDiffer, WatchedHeads
<1>1. ASSUME Entered(c), NEW n, NetSend(c, n)
      PROVE  Keeps /\ Carried
  <2>1. CASE ret_from_kernel(c) /\ list' = list
    BY <1>1, <2>1, CallReturns, KeptRefl
  <2> DEFINE k == [op |-> "net_send", x |-> n, y |-> 0]
  <2>2. CASE do_block(c, list, status, send_block_queue, k)
    <3> HIDE DEF k
    <3> QED
      BY <1>0, <1>1, <2>2, CallBlocks
  <2> QED
    BY <1>1, <2>1, <2>2 DEF NetSend
<1>2. ASSUME NEW n \in PktLens, do_net_send(c, n)
      PROVE  Keeps /\ Carried
  BY <1>1, <1>2, SyscallEntered DEF do_net_send
<1>3. CASE NetSendResume(c)
  <2>1. Entered(c)
    BY <1>3, ResumeEntered DEF NetSendResume, Op
  <2> QED
    BY <1>1, <1>3, <2>1 DEF NetSendResume
<1>4. ASSUME NEW n \in PktNums, do_net_recv(c, n)
      PROVE  Keeps /\ Carried
  <2> DEFINE k == [op |-> "net_recv", x |-> n, y |-> 0]
  <2>1. Entered(c) /\ cont' = [cont EXCEPT ![runnings[c]] = k] /\ list' = list
    BY <1>4, SyscallEntered DEF do_net_recv
  <2> HIDE DEF k
  <2> QED
    BY <2>1, CallerWaitsNot, CarriedOn, KeptRefl
<1>5. CASE NetRecv(c)
  <2> DEFINE k == cont[runnings[c]]
             n == [k EXCEPT !.x = k.x - 1]
  <2>1. Entered(c)
    BY <1>5, ResumeEntered DEF NetRecv, Op
  <2>2. CASE ret_from_kernel(c) /\ list' = list
    BY <2>1, <2>2, CallReturns, KeptRefl
  <2>3. CASE cont' = [cont EXCEPT ![runnings[c]].x = k.x - 1] /\ list' = list
    <3>1. cont' = [cont EXCEPT ![runnings[c]] = n]
      BY <2>3
    <3> HIDE DEF n
    <3> QED
      BY <2>1, <2>3, <3>1, CallerWaitsNot, CarriedOn, KeptRefl
  <2>4. CASE do_block(c, list, status, recv_block_queue, k)
    <3> HIDE DEF k
    <3> QED
      BY <1>0, <2>1, <2>4, CallBlocks
  <2> QED
    BY <1>5, <2>2, <2>3, <2>4 DEF NetRecv
<1> QED
  BY <1>2, <1>3, <1>4, <1>5 DEF NetStep

\* Taking a mutex, or queueing for it.
LEMMA AcquireEffect ==
  ASSUME NEW c \in Cpu, Entered(c), NEW m \in Mutex, do_mutex_lock_acquire(c, m)
  PROVE  Keeps /\ Carried
<1>1. CASE ~ mlocks[m].lock
  BY <1>1, CallReturns, KeptRefl DEF do_mutex_lock_acquire
<1>2. CASE mlocks[m].lock
  <2>1. do_block(c, list, status, block_queue(m), User)
    BY <1>2 DEF do_mutex_lock_acquire
  <2> QED
    BY <2>1, CallBlocks, WatchedHeads, HeadsDiffer
<1> QED
  BY <1>1, <1>2

\* The system calls of lock.c, without mailboxes.
LEMMA SyncEffect ==
  ASSUME Core, Admitted, SyncTypeOK, ProcessTypeOK, NEW c \in Cpu, SyncStep(c), SameRings
  PROVE  Effect /\ Carried
<1>0. ASSUME barriers' = barriers, Keeps, Carried
      PROVE  Effect /\ Carried
  BY <1>0, SameState DEF Effect, Passes
<1>1. ASSUME NEW m \in Mutex, MutexAcquire(c, m)
      PROVE  Keeps /\ Carried
  BY <1>1, SyscallEntered, AcquireEffect DEF MutexAcquire
<1>2. ASSUME NEW m \in Mutex, MutexRelease(c, m)
      PROVE  Keeps /\ Carried
  <2>1. /\ Entered(c) /\ ret_from_kernel(c)
        /\ list' = do_mutex_lock_release(m, runnings[c]).lists
    BY <1>2, SyscallEntered DEF MutexRelease
  <2>2. Kept(list, list')
    BY <2>1, ReleaseKept DEF Entered
  <2> QED
    BY <2>1, <2>2, CallReturns DEF Keeps
<1>3. ASSUME NEW j \in Condition, NEW m \in Mutex, do_condition_wait(c, j, m)
      PROVE  Keeps /\ Carried
  <2> DEFINE k == [op |-> "acquire", x |-> m, y |-> 0]
  <2>1. /\ Entered(c)
        /\ do_block(c, do_mutex_lock_release(m, runnings[c]).lists,
                    do_mutex_lock_release(m, runnings[c]).statuses, cond_list(j), k)
    BY <1>3, SyscallEntered DEF do_condition_wait
  <2> HIDE DEF k
  <2>2. cond_list(j) \in ListHead /\ cond_list(j) \notin Watched
    BY HeadsDiffer, WatchedHeads
  <2> QED
    BY <2>1, <2>2, ReleaseThenBlock
<1>4. ASSUME CondReacquire(c)
      PROVE  Keeps /\ Carried
  <2>1. Entered(c)
    BY <1>4, ResumeEntered DEF CondReacquire, Op
  <2>2. cont[runnings[c]].x \in Mutex
    BY <1>4, <2>1, CallerWaitsNot DEF CondReacquire, InKernel, Entered, Resumes
  <2> QED
    BY <1>4, <2>1, <2>2, AcquireEffect DEF CondReacquire
<1>5. ASSUME NEW j \in Condition, do_condition_signal(c, j)
      PROVE  Keeps /\ Carried
  <2> DEFINE h == cond_list(j)
             p == list[h][1]
  <2>1. /\ list[h] # <<>> /\ list' = Moved(list, p, ready_queue) /\ ret_from_kernel(c)
        /\ Entered(c)
    BY <1>5, SyscallEntered DEF do_condition_signal
  <2>2. list[h] \in Seq(Pcb) /\ h \in ListHead
    BY <2>1, HeadsDiffer DEF Entered, Sound, AllLists
  <2>3. p \in Pcb /\ On(list, h, p) /\ h \notin Watched
    BY <2>1, <2>2, WatchedHeads DEF On, Contains
  <2> HIDE DEF h, p
  <2>4. ~ Waits(list, p)
    BY <2>1, <2>2, <2>3, NotWaiting DEF Entered
  <2>5. Keeps
    BY <2>1, <2>3, <2>4, HeadsDiffer, WatchedHeads, CallerWaitsNot, MovedWatched DEF Keeps
  <2> QED
    BY <2>1, <2>5, CallReturns
<1>6. ASSUME NEW j \in Condition, do_condition_broadcast(c, j)
      PROVE  Keeps /\ Carried
  <2>1. /\ Entered(c) /\ cond_list(j) \in ListHead \ {ready_queue} /\ cond_list(j) \notin Watched
        /\ list' = Drained(list, cond_list(j), ready_queue) /\ ret_from_kernel(c)
    BY <1>6, SyscallEntered, WatchedHeads, HeadsDiffer DEF do_condition_broadcast, UnblockAll
  <2> QED
    BY <2>1, CallerWaitsNot, CallReturns, DrainedWatched DEF Keeps
<1>7. ASSUME NEW b \in Barrier, do_barrier_init(c, b)
      PROVE  Effect /\ Carried
  <2>1. UNCHANGED <<list, cont>> /\ \E g : barriers' = [barriers EXCEPT ![b].goal = g]
    BY <1>7 DEF do_barrier_init, schedVars
  <2>2. SameCounts
    BY <2>1 DEF SameCounts, SyncTypeOK
  <2> QED
    BY <2>1, <2>2, KeptRefl DEF Effect, Passes, Carried
<1>8. ASSUME NEW b \in Barrier, do_barrier_wait(c, b)
      PROVE  Effect /\ Carried
  <2> DEFINE h == block_list(b)
             n == barriers[b].current + 1
  <2>1. Entered(c) /\ h \in Watched /\ h \in ListHead \ {ready_queue}
    BY <1>8, SyscallEntered, WatchedHeads DEF do_barrier_wait
  <2>2. ASSUME NEW k, barriers' = [barriers EXCEPT ![b].current = k]
        PROVE  Counts(b, k)
    BY <2>2 DEF Counts, SyncTypeOK
  <2>3. CASE do_block(c, list, status, h, User) /\ barriers' = [barriers EXCEPT ![b].current = n]
    <3>1. Adds(c, h) /\ Carried
      BY <2>1, <2>3, CallBlocks
    <3> QED
      BY <2>1, <2>2, <2>3, <3>1 DEF Effect, Arrives
  <2>4. CASE /\ UnblockAll(list, status, h) /\ ret_from_kernel(c) /\ n >= barriers[b].goal
             /\ barriers' = [barriers EXCEPT ![b].current = 0]
    <3>1. Empties(h) /\ Carried
      BY <2>1, <2>4, CallReturns, CallerWaitsNot, DrainedWatched DEF UnblockAll, Empties
    <3> QED
      BY <2>2, <2>4, <3>1 DEF Effect, Opens
  <2> QED
    BY <1>8, <2>3, <2>4 DEF do_barrier_wait
<1>9. ASSUME NEW b \in Barrier, do_barrier_destroy(c, b)
      PROVE  Effect /\ Carried
  <2>1. /\ Entered(c) /\ ret_from_kernel(c) /\ list[block_list(b)] = <<>>
        /\ barriers' = [barriers EXCEPT ![b].current = 0]
        /\ list' = [list EXCEPT ![block_list(b)] = <<>>]
    BY <1>9, SyscallEntered DEF do_barrier_destroy, Admitted
  <2>2. list' = list
    BY <2>1, CallerWaitsNot DEF AllLists
  <2>3. Counts(b, 0)
    BY <2>1 DEF Counts, SyncTypeOK
  <2> QED
    BY <2>1, <2>2, <2>3, CallReturns, KeptRefl DEF Effect, Destroys
<1> QED
  BY <1>0, <1>1, <1>2, <1>3, <1>4, <1>5, <1>6, <1>7, <1>8, <1>9 DEF SyncStep

\* waitpid and thread_join
LEMMA WaitEffect ==
  ASSUME Core, Admitted, NEW c \in Cpu, SameRings, SameCounts,
         \/ \E q \in Pid : do_waitpid(c, q)
         \/ \E t \in 1 .. MaxTid : do_thread_join(c, t)
         \/ JoinResume(c) \/ JoinStray(c)
  PROVE  Effect /\ Carried
<1>1. ASSUME NEW p \in Pcb, NEW k, Entered(c), do_block(c, list, status, wait_list(p), k)
      PROVE  Effect /\ Carried
  <2>1. Adds(c, wait_list(p)) /\ Carried
    BY <1>1, CallBlocks, WatchedHeads, HeadsDiffer
  <2> QED
    BY <1>1, <2>1 DEF Effect, Awaits
<1>2. ASSUME Entered(c), ret_from_kernel(c), list' = list
      PROVE  Effect /\ Carried
  BY <1>2, CallReturns, KeptRefl DEF Effect, Passes
<1>3. ASSUME NEW q \in Pid, do_waitpid(c, q)
      PROVE  Effect /\ Carried
  BY <1>1, <1>3, SyscallEntered DEF do_waitpid
<1>4. ASSUME NEW x, NEW i \in Nat \ {0}, Entered(c), JoinScan(c, x, i)
      PROVE  Effect /\ Carried
  <2> DEFINE q == list[ready_queue]
  <2>1. q \in Seq(Pcb)
    BY <1>4, HeadsDiffer DEF Entered, Sound, AllLists
  <2>2. ASSUME NEW j \in i .. Len(q), NEW k, do_block(c, list, status, wait_list(q[j]), k)
        PROVE  Effect /\ Carried
    <3> DEFINE p == q[j]
    <3>1. p \in Pcb /\ do_block(c, list, status, wait_list(p), k)
      BY <2>1, <2>2
    <3> HIDE DEF p
    <3> QED
      BY <1>1, <1>4, <3>1
  <2> QED
    BY <1>2, <1>4, <2>2 DEF JoinScan
<1>5. ASSUME NEW t \in 1 .. MaxTid, do_thread_join(c, t)
      PROVE  Effect /\ Carried
  <2>1. Entered(c) /\ JoinScan(c, t, 1) /\ 1 \in Nat \ {0}
    BY <1>5, SyscallEntered DEF do_thread_join
  <2> QED
    BY <1>4, <2>1
<1>6. ASSUME InKernel(c, "join")
      PROVE  Entered(c)
  BY <1>6, ResumeEntered DEF Op
<1>7. CASE JoinResume(c)
  <2>1. Entered(c)
    BY <1>6, <1>7 DEF JoinResume
  <2>2. CASE ret_from_kernel(c) /\ UNCHANGED <<list, status>>
    BY <1>2, <2>1, <2>2
  <2>3. ASSUME NEW i \in DOMAIN list[ready_queue], JoinScan(c, cont[runnings[c]].x, i)
        PROVE  Effect /\ Carried
    <3>1. list[ready_queue] \in Seq(Pcb)
      BY <2>1, HeadsDiffer DEF Entered, Sound, AllLists
    <3>2. i \in Nat \ {0}
      BY <3>1
    <3> QED
      BY <1>4, <2>1, <2>3, <3>2
  <2> QED
    BY <1>7, <2>2, <2>3 DEF JoinResume
<1>8. CASE JoinStray(c)
  <2>1. Entered(c)
    BY <1>6, <1>8 DEF JoinStray
  <2>2. CASE UNCHANGED schedVars
    BY <2>2, KeptRefl DEF Effect, Passes, Carried, schedVars
  <2>3. CASE ret_from_kernel(c) /\ UNCHANGED <<list, status>>
    BY <1>2, <2>1, <2>3
  <2>4. ASSUME NEW p \in Pcb, NEW z,
               do_block(c, list, status, wait_list(p),
                        [op |-> "join", x |-> cont[runnings[c]].x, y |-> z])
        PROVE  Effect /\ Carried
    BY <1>1, <2>1, <2>4
  <2> QED
    BY <1>8, <2>2, <2>3, <2>4 DEF JoinStray
<1> QED
  BY <1>3, <1>5, <1>7, <1>8

\* exec and thread_create find the waiting list of the new task empty.
LEMMA CreateEffect ==
  ASSUME Core, NEW c \in Cpu, Syscall(c), NEW p \in Pcb, pid[p] = 0, NEW q, NewTask(c, p, q)
  PROVE  Keeps /\ Carried
<1>1. /\ Entered(c) /\ Sound(list, status, pid, {}) /\ list \in AllLists
      /\ cont \in [Task -> Cont]
  BY SyscallEntered, CallerWaitsNot DEF Entered
<1>2. ~ Waits(list, p)
  BY <1>1, NotWaiting
<1>3. list[wait_list(p)] = <<>>
  <2>1. wait_list(p) \in ListHead /\ list[wait_list(p)] \in Seq(Pcb)
    BY <1>1, HeadsDiffer DEF AllLists
  <2> SUFFICES ASSUME list[wait_list(p)] # <<>>
               PROVE  FALSE
    OBVIOUS
  <2>2. On(list, wait_list(p), list[wait_list(p)][1]) /\ list[wait_list(p)][1] \in Pcb
    BY <2>1 DEF On, Contains
  <2> QED
    BY <1>1, <2>1, <2>2 DEF Sound
<1>4. list' = [list EXCEPT ![ready_queue] = Append(@, p), ![wait_list(p)] = <<>>]
  BY <1>1, HeadsDiffer DEF NewTask, INIT_LIST_HEAD, list_add_tail, AllLists
<1>5. Keeps
  BY <1>1, <1>3, <1>4, WatchedHeads DEF Keeps, Kept, AllLists
<1>6. cont' = [cont EXCEPT ![p] = User]
  BY DEF NewTask
<1> QED
  BY <1>1, <1>2, <1>5, <1>6, CarriedOn

\* The beginning of exit and kill.
LEMMA DieEffect ==
  ASSUME Core, RestTypeOK, NEW c \in Cpu, Syscall(c), NEW p \in Pcb, NEW op,
         release_pcb(c, p, op), SameCounts, SameRings,
         \/ \A b \in Barrier : ~ On(list, block_list(b), p)
         \/ "kill_at_barrier" \in Unsafe
  PROVE  Effect /\ Carried
<1> DEFINE k == [op |-> op, x |-> p, y |-> 0]
<1>1. /\ Entered(c) /\ status'[p] = "EXITED" /\ list' = list_delete_entry(list, p)
      /\ cont' = [cont EXCEPT ![runnings[c]] = k]
  BY SyscallEntered DEF release_pcb, Entered, Sound
<1> HIDE DEF k
<1>2. Carried
  BY <1>1, CallerWaitsNot, CarriedOn
<1> QED
  BY <1>1, <1>2 DEF Effect, Dies

\* The system calls of sched.c.
LEMMA ProcessEffect ==
  ASSUME Core, Admitted, RestTypeOK, NEW c \in Cpu, ProcessStep(c), SameRings
  PROVE  Effect /\ Carried
<1>0. SameCounts
  BY SameState DEF ProcessStep
<1>1. ASSUME do_exec(c) \/ do_thread_create(c)
      PROVE  Effect /\ Carried
  <2>1. PICK p \in Pcb : find_unused_pcb(p) /\ \E q : NewTask(c, p, q)
    BY <1>1 DEF do_exec, do_thread_create
  <2>2. Syscall(c) /\ pid[p] = 0
    BY <1>1, <2>1 DEF do_exec, do_thread_create, find_unused_pcb, FirstWithPid
  <2> QED
    BY <1>0, <2>1, <2>2, CreateEffect DEF Effect, Passes
<1>2. CASE do_exit(c)
  <2> DEFINE p == runnings[c]
  <2>1. Syscall(c) /\ release_pcb(c, p, "exit") /\ Entered(c)
    BY <1>2, SyscallEntered DEF do_exit
  <2>2. p \in Pcb /\ ~ Waits(list, p)
    BY <2>1, CallerWaitsNot
  <2> HIDE DEF p
  <2>3. \A b \in Barrier : ~ On(list, block_list(b), p)
    BY <2>2, WatchedHeads DEF Waits
  <2> QED
    BY <1>0, <2>1, <2>2, <2>3, DieEffect
<1>3. ASSUME NEW q \in Pid, do_kill(c, q)
      PROVE  Effect /\ Carried
  <2>1. PICK p \in Pcb :
          /\ release_pcb(c, p, "kill")
          /\ (\A b \in Barrier : ~ On(list, block_list(b), p)) \/ "kill_at_barrier" \in Unsafe
    BY <1>3 DEF do_kill
  <2> QED
    BY <1>0, <1>3, <2>1, DieEffect DEF do_kill
<1>4. ASSUME InKernel(c, "exit") \/ InKernel(c, "kill")
      PROVE  LET k == cont[runnings[c]]
             IN  /\ k.x \in Pcb /\ Sound(list, status, pid, {k.x}) /\ list \in AllLists
                 /\ k.op = "exit" => k.x = runnings[c]
                 /\ k.y \in 0 .. LOCK_NUM /\ cont \in [Task -> Cont]
                 /\ runnings[c] \in Pcb /\ runnings[c] \in Task
                 /\ ~ Waits(list, runnings[c])
  <2>1. Tearing(c, list, status, pid, runnings, cont, threads)
    BY <1>4, TearElim
  <2> DEFINE x == cont[runnings[c]].x
             p == runnings[c]
  <2>2. /\ x \in Pcb /\ p \in Pcb /\ Sound(list, status, pid, {x})
        /\ Runs(list, status, pid, runnings, {x})
    BY <2>1 DEF Tearing
  <2>3. status[p] \in {"RUNNING", "EXITED"} /\ list \in AllLists
    BY <2>2 DEF Runs, Sound
  <2> HIDE DEF x, p
  <2>4. ~ Waits(list, p)
    BY <2>2, <2>3, NotWaiting
  <2> QED
    BY <2>1, <2>3, <2>4, TaskFacts DEF Tearing, p
<1>5. CASE release_locks(c)
  <2> DEFINE k == cont[runnings[c]]
             n == [k EXCEPT !.y = @ + 1]
  <2>1. /\ InKernel(c, "exit") \/ InKernel(c, "kill")
        /\ k.y < LOCK_NUM
        /\ list' = list \/ list' = do_mutex_lock_release(k.y, k.x).lists
        /\ cont' = [cont EXCEPT ![runnings[c]] = n]
    BY <1>5 DEF release_locks
  <2>2. k.y \in Mutex /\ Sound(list, status, pid, {k.x})
    BY <1>4, <2>1, KernelAssumption DEF Mutex
  <2> HIDE DEF k, n
  <2>3. Keeps
    BY <2>1, <2>2, ReleaseKept, KeptRefl DEF Keeps
  <2>4. Carried
    BY <1>4, <2>1, CarriedOn
  <2> QED
    BY <1>0, <2>3, <2>4 DEF Effect, Passes
<1>6. CASE ExitEnd(c) \/ KillEnd(c)
  <2> DEFINE k == cont[runnings[c]]
  <2>1. InKernel(c, "exit") \/ InKernel(c, "kill")
    BY <1>6 DEF ExitEnd, KillEnd
  <2>2. /\ list' = Drained(list, wait_list(k.x), ready_queue)
        /\ cont' = [cont EXCEPT ![runnings[c]] = User]
        /\ pid' = [pid EXCEPT ![k.x] = 0]
    BY <1>4, <1>6 DEF ExitEnd, KillEnd, InKernel, UnblockAll, find_idle_task, ret_from_kernel
  <2>3. /\ k.x \in Pcb /\ list \in AllLists /\ cont \in [Task -> Cont]
        /\ runnings[c] \in Pcb => ~ Waits(list, runnings[c])
    BY <1>4, <2>1
  <2> HIDE DEF k
  <2>4. Carried
    BY <2>2, <2>3, CarriedOn
  <2>5. Empties(wait_list(k.x))
    BY <2>2, <2>3, WatchedHeads, DrainedWatched DEF Empties
  <2>6. pid'[k.x] = 0
    BY <2>2, <2>3 DEF RestTypeOK, ProcessTypeOK
  <2> QED
    BY <1>0, <2>3, <2>4, <2>5, <2>6 DEF Effect, Reports
<1> QED
  BY <1>0, <1>1, <1>2, <1>3, <1>5, <1>6, WaitEffect DEF ProcessStep

\* A mailbox's ring is not touched.
LEMMA SameRing ==
  ASSUME MailTypeOK, NEW b \in Mbox, NEW n, NEW s,
         \/ mailboxes' = [mailboxes EXCEPT ![b].name = s, ![b].ref = n]
         \/ mailboxes' = [mailboxes EXCEPT ![b].ref = n]
  PROVE  SameRings
<1>1. \A d \in Mbox : /\ mailboxes'[d].nread = mailboxes[d].nread
                      /\ mailboxes'[d].nwrite = mailboxes[d].nwrite
                      /\ mailboxes'[d].rounds = mailboxes[d].rounds
  BY DEF MailTypeOK
<1> QED
  BY <1>1 DEF SameRings, written

\* The mailboxes.
LEMMA MailEffect ==
  ASSUME Core, Admitted, SyncTypeOK, ProcessTypeOK, MailTypeOK, NEW c \in Cpu,
         MailStep(c), SameCounts
  PROVE  Effect /\ Carried
<1>0. \A b \in Mbox : b \in Mutex /\ b \in Int
  BY MboxFacts
<1>1. ASSUME NEW s \in Names, do_mbox_open(c, s)
      PROVE  Effect /\ Carried
  <2>1. PICK b \in Mbox :
          mailboxes' = [mailboxes EXCEPT ![b].name = s, ![b].ref = @ + 1]
    BY <1>1 DEF do_mbox_open
  <2>2. UNCHANGED <<list, cont>>
    BY <1>1 DEF do_mbox_open, schedVars
  <2>3. mailboxes' = [mailboxes EXCEPT ![b].name = s, ![b].ref = mailboxes[b].ref + 1]
    BY <2>1
  <2>4. SameRings
    BY <2>3, SameRing
  <2> QED
    BY <2>2, <2>4, KeptRefl DEF Effect, Passes, Carried
<1>2. ASSUME NEW b \in Mbox, do_mbox_close(c, b)
      PROVE  Effect /\ Carried
  <2>1. Entered(c) /\ ret_from_kernel(c)
    BY <1>2, SyscallEntered DEF do_mbox_close
  <2>2. Carried
    BY <2>1, CallReturns
  <2>3. CASE mailboxes[b].ref = 1
    <3>1. /\ mailboxes' = [mailboxes EXCEPT ![b] = Free]
          /\ list' = do_mutex_lock_release(b, runnings[c]).lists
          /\ \A p \in Pcb : ~ Using(p, b)
      BY <1>2, <2>3 DEF do_mbox_close, Admitted
    <3>2. Keeps
      BY <1>0, <2>1, <3>1, ReleaseKept DEF Keeps, Entered
    <3> QED
      BY <2>2, <3>1, <3>2 DEF Effect, Closes
  <2>4. CASE mailboxes[b].ref # 1
    <3>1. mailboxes' = [mailboxes EXCEPT ![b].ref = mailboxes[b].ref - 1] /\ list' = list
      BY <1>2, <2>4 DEF do_mbox_close
    <3>2. SameRings
      BY <3>1, SameRing
    <3> QED
      BY <2>2, <3>1, <3>2, KeptRefl DEF Effect, Passes
  <2> QED
    BY <2>3, <2>4
<1>3. ASSUME Entered(c), NEW b \in Mbox, NEW y, MboxAcquire(c, b, y)
      PROVE  Effect /\ Carried
  <2> DEFINE k == [op |-> "mbox_loop", x |-> b, y |-> y]
  <2>1. mailboxes' = mailboxes
    BY <1>3 DEF MboxAcquire
  <2>2. CASE ~ mlocks[b].lock
    <3>1. cont' = [cont EXCEPT ![runnings[c]] = k] /\ list' = list
      BY <1>3, <2>2 DEF MboxAcquire
    <3> HIDE DEF k
    <3> QED
      BY <1>3, <2>1, <3>1, CallerWaitsNot, CarriedOn, KeptRefl, SameState DEF Effect, Passes
  <2>3. CASE mlocks[b].lock
    <3>1. do_block(c, list, status, block_queue(b), k)
      BY <1>3, <2>3 DEF MboxAcquire
    <3> HIDE DEF k
    <3> QED
      BY <1>0, <1>3, <2>1, <3>1, CallBlocks, HeadsDiffer, WatchedHeads, SameState
         DEF Effect, Passes
  <2> QED
    BY <2>2, <2>3
<1>4. ASSUME NEW b \in Mbox, NEW n \in MsgLengths, do_mbox_send(c, b, n) \/ do_mbox_recv(c, b, n)
      PROVE  Effect /\ Carried
  BY <1>3, <1>4, SyscallEntered DEF do_mbox_send, do_mbox_recv
<1>5. ASSUME NEW op \in {"mbox_acquire", "mbox_loop", "mbox_end"}, InKernel(c, op)
      PROVE  Entered(c) /\ cont[runnings[c]].y \in Int
  <2>1. Entered(c)
    BY <1>5, ResumeEntered DEF Op
  <2> QED
    BY <2>1, CallerWaitsNot DEF Cont
<1>6. CASE MboxReacquire(c)
  BY <1>3, <1>5, <1>6 DEF MboxReacquire
<1>7. CASE MboxLoop(c)
  <2> DEFINE p == runnings[c]
             y == cont[p].y
  <2>1. PICK b \in Mbox : MboxCopy(c, b, y) \/ MboxWait(c, b, y)
    BY <1>7 DEF MboxLoop
  <2>2. Entered(c) /\ y \in Int
    BY <1>5, <1>7 DEF MboxLoop
  <2> HIDE DEF y
  <2>3. CASE MboxCopy(c, b, y)
    <3> DEFINE k == [op |-> "mbox_end", x |-> b, y |-> y]
    <3>1. /\ list' = Drained(list, OwnList(b, -y), ready_queue)
          /\ cont' = [cont EXCEPT ![p] = k]
          /\ mailboxes' = [mailboxes EXCEPT ![b] = Copied(@, y)]
      BY <2>3 DEF MboxCopy, UnblockAll
    <3> HIDE DEF k
    <3>2. Empties(OwnList(b, -y))
      BY <2>2, <3>1, WatchedHeads, CallerWaitsNot, DrainedWatched DEF Empties
    <3>3. Carried
      BY <2>2, <3>1, CallerWaitsNot, CarriedOn
    <3> QED
      BY <2>2, <3>1, <3>2, <3>3 DEF Effect, Copies
  <2>4. CASE MboxWait(c, b, y)
    <3> DEFINE k == [op |-> "mbox_acquire", x |-> b, y |-> y]
    <3>1. /\ ~ Enough(b, y) /\ mailboxes' = mailboxes
          /\ do_block(c, do_mutex_lock_release(b, p).lists,
                      do_mutex_lock_release(b, p).statuses, OwnList(b, y), k)
      BY <2>4 DEF MboxWait
    <3>2. OwnList(b, y) \in Watched /\ OwnList(b, y) \in ListHead
      BY WatchedHeads
    <3>3. Adds(c, OwnList(b, y)) /\ Carried /\ cont'[p] = k
      <4> HIDE DEF k
      <4> QED
        BY <1>0, <2>2, <3>1, <3>2, ReleaseThenBlock
    <3> QED
      BY <2>2, <3>1, <3>3, SameState DEF Effect, Lacks
  <2> QED
    BY <2>1, <2>3, <2>4
<1>8. CASE MboxEnd(c)
  <2> DEFINE b == cont[runnings[c]].x
  <2>1. /\ b \in Mbox /\ Entered(c) /\ ret_from_kernel(c) /\ mailboxes' = mailboxes
        /\ list' = do_mutex_lock_release(b, runnings[c]).lists
    BY <1>5, <1>8 DEF MboxEnd
  <2> HIDE DEF b
  <2>2. Keeps
    BY <1>0, <2>1, ReleaseKept DEF Keeps, Entered
  <2> QED
    BY <2>1, <2>2, CallReturns, SameState DEF Effect, Passes
<1> QED
  BY <1>1, <1>2, <1>4, <1>6, <1>7, <1>8 DEF MailStep, MailContinue

LEMMA StepEffect ==
  ASSUME KernelInv, Admitted, [Next]_vars
  PROVE  Effect /\ Carried
<1>1. Core /\ RestTypeOK /\ SyncTypeOK /\ ProcessTypeOK /\ MailTypeOK
  BY InvParts DEF Base, RestTypeOK
<1>2. ASSUME UNCHANGED <<list, cont, barriers, mailboxes>>
      PROVE  Effect /\ Carried
  BY <1>2, KeptRefl, SameState DEF Effect, Passes, Carried
<1>3. ASSUME NEW c \in Cpu, SchedStep(c), mailboxes' = mailboxes
      PROVE  Effect /\ Carried
  <2>1. barriers' = barriers
    BY <1>3 DEF SchedStep
  <2> QED
    BY <1>1, <1>3, <2>1, SchedEffect, SameState DEF SchedStep, Effect, Passes
<1>4. ASSUME NEW c \in Cpu, NetStep(c), UNCHANGED <<barriers, mailboxes>>
      PROVE  Effect /\ Carried
  BY <1>1, <1>4, NetEffect, SameState DEF Effect, Passes
<1>5. CASE KernelStep /\ mailboxes' = mailboxes
  BY <1>1, <1>2, <1>3, <1>4, <1>5, SameState, SyncEffect, ProcessEffect
     DEF KernelStep, slave_wait_for_task, Tick, Transmitted, Received, schedVars
<1>6. CASE \E c \in Cpu : MailStep(c) /\ barriers' = barriers
  BY <1>1, <1>6, SameState, MailEffect
<1>7. CASE UNCHANGED vars
  BY <1>2, <1>7 DEF vars, schedVars
<1> QED
  BY <1>5, <1>6, <1>7 DEF Next

-----------------------------------------------------------------------------
(* Waiting for the end of a task *)

\* Appending to a list removes nobody.
LEMMA AddsKeeps ==
  ASSUME NEW c \in Cpu, Entered(c), NEW h \in Watched, Adds(c, h), NEW g \in Watched, NEW q
  PROVE  On(list, g, q) => On(list', g, q)
<1>1. list[h] \in Seq(Pcb) /\ runnings[c] \in Pcb
  BY CallerWaitsNot, WatchedHeads DEF AllLists
<1>2. \A i \in 1 .. Len(list[h]) :
        Append(list[h], runnings[c])[i] = list[h][i] /\ i \in 1 .. Len(Append(list[h], runnings[c]))
  BY <1>1
<1>3. CASE g = h
  <2>1. list'[g] = Append(list[h], runnings[c])
    BY <1>3 DEF Adds, Becomes
  <2> QED
    BY <1>2, <1>3, <2>1 DEF On, Contains
<1>4. CASE g # h
  BY <1>4 DEF Adds, Becomes, On
<1> QED
  BY <1>3, <1>4

\* Who leaves a watched list, leaves it because the list is emptied or because
\* it dies.
LEMMA Leaves ==
  ASSUME KernelInv, Effect, NEW g \in Watched, NEW q \in Pcb,
         On(list, g, q), ~ On(list', g, q)
  PROVE  \/ Dies(q)
         \/ \E p \in Pcb : g = wait_list(p) /\ Reports(p)
         \/ \E b \in Barrier : g = block_list(b) /\ Opens(b)
         \/ \E b \in Mbox, y \in Int : g = OwnList(b, -y) /\ Copies(b, y)
<1>1. list \in AllLists /\ LinkedOnce(list) /\ g \in ListHead
  BY WatchedHeads DEF KernelInv, TypeOK, StateTypeOK, TaskPlacement, AllLists
<1>2. ~ Keeps
  BY DEF Keeps, Kept, On
<1>3. ASSUME NEW h \in Watched, Empties(h)
      PROVE  g = h
  BY <1>3 DEF Empties, Becomes, On
<1>4. ASSUME NEW c \in Cpu, Entered(c), NEW h \in Watched, Adds(c, h)
      PROVE  FALSE
  BY <1>4, AddsKeeps
<1>5. ASSUME NEW p \in Pcb, Dies(p)
      PROVE  p = q
  <2>1. list \in [ListHead -> Seq(Pcb)]
    BY <1>1 DEF AllLists
  <2>2. \A h \in ListHead : \A r : On(list_delete_entry(list, p), h, r) <=> r # p /\ On(list, h, r)
    BY <1>1, <2>1, DeleteProperties
  <2> QED
    BY <1>1, <1>5, <2>2 DEF Dies
<1>6. ASSUME NEW c \in Cpu, Entered(c),
             \/ \E p \in Pcb : Awaits(c, p)
             \/ \E b \in Barrier : Arrives(c, b)
             \/ \E b \in Mbox, y \in Int : Lacks(c, b, y)
      PROVE  FALSE
  BY <1>4, <1>6, WatchedHeads DEF Awaits, Arrives, Lacks
<1>7. ASSUME NEW p \in Pcb, Reports(p)
      PROVE  g = wait_list(p)
  BY <1>3, <1>7, WatchedHeads DEF Reports
<1>8. ASSUME NEW b \in Barrier, Opens(b)
      PROVE  g = block_list(b)
  BY <1>3, <1>8, WatchedHeads DEF Opens
<1>9. ASSUME NEW b \in Mbox, NEW y \in Int, Copies(b, y)
      PROVE  g = OwnList(b, -y)
  BY <1>3, <1>9, WatchedHeads DEF Copies
<1> QED
  BY <1>2, <1>5, <1>6, <1>7, <1>8, <1>9 DEF Effect, Passes, Destroys, Closes

\* waitpid and thread_join return only when the awaited task is gone, or when
\* the waiting task is itself killed.
THEOREM WaitsReturn ==
  ASSUME Admitted
  PROVE  Spec => WaitReturns
<1>1. KernelInv /\ [Next]_vars =>
        [\A p, q \in Pcb :
           On(list, wait_list(p), q) /\ ~ On(list', wait_list(p), q) =>
             pid'[p] = 0 \/ status'[q] = "EXITED"]_vars
  <2> SUFFICES ASSUME KernelInv, [Next]_vars, NEW p \in Pcb, NEW q \in Pcb,
                      On(list, wait_list(p), q), ~ On(list', wait_list(p), q)
               PROVE  pid'[p] = 0 \/ status'[q] = "EXITED"
    OBVIOUS
  <2>1. Effect /\ wait_list(p) \in Watched
    BY StepEffect, WatchedHeads
  <2>2. \/ Dies(q)
        \/ \E r \in Pcb : wait_list(p) = wait_list(r) /\ Reports(r)
        \/ \E b \in Barrier : wait_list(p) = block_list(b)
        \/ \E b \in Mbox, y \in Int : wait_list(p) = OwnList(b, -y)
    BY <2>1, Leaves
  <2> QED
    BY <2>2, WatchedDiffer DEF Dies, Reports, OwnList
<1> QED
  BY <1>1, KernelInvariant, PTL DEF Spec, WaitReturns

-----------------------------------------------------------------------------
(* Mailboxes *)

\* The rounds and the rest of a position in the ring.
LEMMA Rounds ==
  ASSUME NEW w \in Int, NEW r \in Int, NEW M \in Nat \ {0}
  PROVE  /\ (r + (w \div M)) * M \in Int /\ (r - (w \div M)) * M \in Int /\ w % M \in Int
         /\ (r + (w \div M)) * M + (w % M) = r * M + w
         /\ (r - (w \div M)) * M - (w % M) = r * M - w
  OBVIOUS

\* A message fills the ring by its length; a receive empties it by twice that.
LEMMA RingChange ==
  ASSUME MailTypeOK, NEW b \in Mbox, NEW y \in Int, Copies(b, y)
  PROVE  /\ written(b) \in Int
         /\ written(b)' = IF y > 0 THEN written(b) + y ELSE written(b) + 2 * y
         /\ \A d \in Mbox \ {b} : written(d)' = written(d)
<1> DEFINE M == MAX_MBOX_LENGTH
           m == mailboxes[b]
<1>1. /\ m \in [name : Names \cup {NoName}, ref : Int, nread : Int, nwrite : Int, rounds : Int]
      /\ mailboxes'[b] = Copied(m, y) /\ \A d \in Mbox \ {b} : mailboxes'[d] = mailboxes[d]
      /\ M \in Nat \ {0}
  BY MailAssumption DEF MailTypeOK, Copies
<1>2. \A d \in Mbox \ {b} : written(d)' = written(d)
  BY <1>1 DEF written
<1>3. m.rounds \in Int /\ m.nwrite \in Int /\ m.nread \in Int /\ m.rounds * M \in Int
  BY <1>1
<1>4. written(b) = m.rounds * M + (m.nwrite - m.nread)
  BY DEF written
<1>5. CASE y > 0
  <2> DEFINE w == m.nwrite + y
  <2>1. /\ mailboxes'[b].nread = m.nread /\ mailboxes'[b].nwrite = w % M
        /\ mailboxes'[b].rounds = m.rounds + (w \div M)
    BY <1>1, <1>5 DEF Copied
  <2>2. written(b)' = (m.rounds + (w \div M)) * M + ((w % M) - m.nread)
    BY <2>1 DEF written
  <2>3. w \in Int
    BY <1>3
  <2> HIDE DEF M, m, w
  <2>4. /\ (m.rounds + (w \div M)) * M + (w % M) = m.rounds * M + w
        /\ w % M \in Int /\ (m.rounds + (w \div M)) * M \in Int
    BY <1>1, <1>3, <2>3, Rounds
  <2>5. w = m.nwrite + y
    BY DEF w
  <2> DEFINE A == (m.rounds + (w \div M)) * M
             B == m.rounds * M
  <2>6. /\ w % M \in Int /\ A + (w % M) = B + w /\ A \in Int /\ B \in Int 
        /\ written(b) = B + (m.nwrite - m.nread)
        /\ written(b)' = A + ((w % M) - m.nread)
    BY <1>3, <1>4, <2>2, <2>4
  <2> HIDE DEF A, B
  <2> QED
    BY <1>2, <1>3, <1>5, <2>3, <2>5, <2>6
<1>6. CASE ~ (y > 0)
  <2> DEFINE r == m.nread - 2 * y
  <2>1. /\ mailboxes'[b].nwrite = m.nwrite /\ mailboxes'[b].nread = r % M
        /\ mailboxes'[b].rounds = m.rounds - (r \div M)
    BY <1>1, <1>6 DEF Copied
  <2>2. written(b)' = (m.rounds - (r \div M)) * M + (m.nwrite - (r % M))
    BY <2>1 DEF written
  <2>3. r \in Int
    BY <1>3
  <2> HIDE DEF M, m, r
  <2>4. /\ (m.rounds - (r \div M)) * M - (r % M) = m.rounds * M - r
        /\ r % M \in Int /\ (m.rounds - (r \div M)) * M \in Int
    BY <1>1, <1>3, <2>3, Rounds
  <2>5. r = m.nread - 2 * y
    BY DEF r
  <2> DEFINE A == (m.rounds - (r \div M)) * M
             B == m.rounds * M
  <2>6. /\ r % M \in Int /\ A - (r % M) = B - r /\ A \in Int /\ B \in Int 
        /\ written(b) = B + (m.nwrite - m.nread)
        /\ written(b)' = A + (m.nwrite - (r % M))
    BY <1>3, <1>4, <2>2, <2>4
  <2> HIDE DEF A, B
  <2> QED
    BY <1>2, <1>3, <1>6, <2>3, <2>5, <2>6
<1> QED
  BY <1>5, <1>6

\* Who comes to a watched list is the task of a hart.
LEMMA Joins ==
  ASSUME KernelInv, Effect, NEW g \in Watched, NEW q \in Pcb,
         ~ On(list, g, q), On(list', g, q)
  PROVE  \E c \in Cpu :
           /\ Entered(c) /\ q = runnings[c] /\ Adds(c, g)
           /\ \/ \E p \in Pcb : g = wait_list(p) /\ Awaits(c, p)
              \/ \E b \in Barrier : g = block_list(b) /\ Arrives(c, b)
              \/ \E b \in Mbox, y \in Int : g = OwnList(b, y) /\ Lacks(c, b, y)
<1>1. list \in AllLists /\ LinkedOnce(list) /\ g \in ListHead
  BY WatchedHeads DEF KernelInv, TypeOK, StateTypeOK, TaskPlacement, AllLists
<1>2. ~ Keeps
  BY DEF Keeps, Kept, On
<1>3. ASSUME NEW h \in Watched, Empties(h)
      PROVE  FALSE
  <2>1. ~ On(list', h, q)
    BY <1>3 DEF Empties, Becomes, On, Contains
  <2> QED
    BY <1>3, <2>1 DEF Empties, Becomes, On
<1>4. ASSUME NEW c \in Cpu, Entered(c), NEW h \in Watched, Adds(c, h)
      PROVE  g = h /\ q = runnings[c] /\ Adds(c, g)
  <2>1. g = h
    BY <1>4 DEF Adds, Becomes, On
  <2>2. list'[g] = Append(list[g], runnings[c]) /\ list[g] \in Seq(Pcb)
    BY <1>1, <1>4, <2>1 DEF Adds, Becomes, AllLists
  <2>3. PICK i \in 1 .. Len(list'[g]) : list'[g][i] = q
    BY DEF On, Contains
  <2>4. i \notin 1 .. Len(list[g])
    BY <2>2, <2>3 DEF On, Contains
  <2> QED
    BY <1>4, <2>1, <2>2, <2>3, <2>4
<1>5. ASSUME NEW p \in Pcb, Dies(p)
      PROVE  FALSE
  <2>1. list \in [ListHead -> Seq(Pcb)]
    BY <1>1 DEF AllLists
  <2>2. \A h \in ListHead : \A r : On(list_delete_entry(list, p), h, r) <=> r # p /\ On(list, h, r)
    BY <1>1, <2>1, DeleteProperties
  <2> QED
    BY <1>1, <1>5, <2>2 DEF Dies
<1>6. PICK c \in Cpu : /\ Entered(c)
                       /\ \/ \E p \in Pcb : Awaits(c, p)
                          \/ \E b \in Barrier : Arrives(c, b)
                          \/ \E b \in Mbox, y \in Int : Lacks(c, b, y)
  BY <1>2, <1>3, <1>5, WatchedHeads
     DEF Effect, Passes, Destroys, Closes, Reports, Opens, Copies
<1>7. ASSUME NEW p \in Pcb, Awaits(c, p)
      PROVE  g = wait_list(p) /\ q = runnings[c] /\ Adds(c, g)
  BY <1>4, <1>6, <1>7, WatchedHeads DEF Awaits
<1>8. ASSUME NEW b \in Barrier, Arrives(c, b)
      PROVE  g = block_list(b) /\ q = runnings[c] /\ Adds(c, g)
  BY <1>4, <1>6, <1>8, WatchedHeads DEF Arrives
<1>9. ASSUME NEW b \in Mbox, NEW y \in Int, Lacks(c, b, y)
      PROVE  g = OwnList(b, y) /\ q = runnings[c] /\ Adds(c, g)
  BY <1>4, <1>6, <1>9, WatchedHeads DEF Lacks
<1> QED
  BY <1>6, <1>7, <1>8, <1>9

\* The steps that change a ring.
LEMMA RingSteps ==
  ASSUME MailTypeOK, Effect, NEW b \in Mbox
  PROVE  \/ written(b)' = written(b)
         \/ \E y \in Int : Copies(b, y)
         \/ Closes(b)
<1>1. CASE SameRings
  BY <1>1 DEF SameRings
<1>2. ASSUME NEW d \in Mbox, NEW y \in Int, Copies(d, y), d # b
      PROVE  written(b)' = written(b)
  BY <1>2, RingChange
<1>3. ASSUME NEW d \in Mbox, Closes(d), d # b
      PROVE  written(b)' = written(b)
  BY <1>3 DEF Closes, written, MailTypeOK
<1> QED
  BY <1>1, <1>2, <1>3
     DEF Effect, Passes, Awaits, Arrives, Lacks, Reports, Dies, Opens, Destroys

LEMMA MailWaitersStep ==
  ASSUME KernelInv, KernelInv', Effect, Carried, MailWaiters
  PROVE  MailWaiters'
<1>1. MailTypeOK /\ cont \in [Task -> Cont] /\ MAX_MBOX_LENGTH \in Int
  BY MailAssumption DEF KernelInv, TypeOK, StateTypeOK
<1>2. ASSUME NEW b \in Mbox, NEW p \in Pcb, NEW h \in {send_list(b), recv_list(b)},
             On(list', h, p)
      PROVE  /\ Using(p, b)'
             /\ h = send_list(b) => ~ can_write_to_buffer(b, cont[p].y)'
             /\ h = recv_list(b) => ~ can_read_from_buffer(b, -cont[p].y)'
  <2>1. h \in Watched /\ h \in ListHead /\ send_list(b) # recv_list(b)
    BY WatchedHeads, WatchedDiffer
  <2>2. pid'[p] # 0
    BY <1>2, <2>1 DEF KernelInv, TaskPlacement
  <2>3. CASE On(list, h, p)
    <3>1. /\ cont'[p] = cont[p] /\ cont[p].y \in Int /\ Using(p, b) /\ Using(p, b)'
          /\ h = send_list(b) => ~ can_write_to_buffer(b, cont[p].y)
          /\ h = recv_list(b) => ~ can_read_from_buffer(b, -cont[p].y)
      <4>1. cont'[p] = cont[p] /\ cont[p].y \in Int
        BY <1>1, <2>1, <2>3, TaskFacts DEF Carried, Waits, Cont
      <4> QED
        BY <2>2, <2>3, <4>1 DEF MailWaiters, Using
    <3> DEFINE y == cont[p].y
    <3>2. ~ Closes(b)
      BY <3>1 DEF Closes
    <3>3. ASSUME NEW n \in Int, Copies(b, n)
          PROVE  /\ written(b) \in Int /\ written(b)' \in Int
                 /\ h = send_list(b) => written(b)' >= written(b)
                 /\ h = recv_list(b) => written(b)' <= written(b)
      <4>1. h # OwnList(b, -n)
        BY <1>2, <3>3 DEF Copies, Empties, Becomes, On, Contains
      <4>2. /\ h = send_list(b) => n >= 0
            /\ h = recv_list(b) => ~ (n > 0)
        BY <4>1 DEF OwnList
      <4>3. /\ written(b) \in Int
            /\ written(b)' = IF n > 0 THEN written(b) + n ELSE written(b) + 2 * n
        BY <1>1, <3>3, RingChange
      <4> QED
        BY <2>1, <4>2, <4>3
    <3>4. CASE written(b)' = written(b)
      BY <3>1, <3>4 DEF can_write_to_buffer, can_read_from_buffer
    <3>5. CASE \E n \in Int : Copies(b, n)
      <4>1. /\ written(b) \in Int /\ written(b)' \in Int
            /\ h = send_list(b) => written(b)' >= written(b)
            /\ h = recv_list(b) => written(b)' <= written(b)
        BY <3>3, <3>5
      <4> QED
        BY <1>1, <3>1, <4>1 DEF can_write_to_buffer, can_read_from_buffer
    <3> QED
      BY <1>1, <3>2, <3>4, <3>5, RingSteps
  <2>4. CASE ~ On(list, h, p)
    <3>1. PICK c \in Cpu :
            /\ p = runnings[c]
            /\ \/ \E q \in Pcb : h = wait_list(q)
               \/ \E d \in Barrier : h = block_list(d)
               \/ \E d \in Mbox, y \in Int : h = OwnList(d, y) /\ Lacks(c, d, y)
      BY <1>2, <2>1, <2>4, Joins
    <3>2. PICK d \in Mbox, y \in Int : h = OwnList(d, y) /\ Lacks(c, d, y)
      BY <3>1, WatchedDiffer
    <3>3. d = b /\ (h = send_list(b) <=> y > 0)
      BY <2>1, <3>2, WatchedDiffer DEF OwnList
    <3>4. /\ cont'[p] = [op |-> "mbox_acquire", x |-> b, y |-> y] /\ ~ Enough(b, y)
          /\ written(b)' = written(b)
      BY <3>1, <3>2, <3>3 DEF Lacks, SameRings
    <3>5. Using(p, b)' /\ cont'[p].y = y
      BY <2>2, <3>4 DEF Using
    <3> QED
      BY <2>1, <3>3, <3>4, <3>5 DEF Enough, can_write_to_buffer, can_read_from_buffer
  <2> QED
    BY <2>3, <2>4
<1> QED
  BY <1>2 DEF MailWaiters

\* Nobody waits to send or to receive what can_write_to_buffer or
\* can_read_from_buffer would now allow: the wakeups of the mailboxes lose nobody,
\* also when users are killed or the mailbox is closed and opened again.  It is
\* not said that these tests, over counters that drift, are right.
THEOREM MailboxesWake ==
  ASSUME Admitted
  PROVE  Spec => []MailWaiters
<1>1. Init => MailWaiters
  <2> SUFFICES ASSUME Init, NEW b \in Mbox, NEW p \in Pcb, NEW h \in {send_list(b), recv_list(b)}
               PROVE  ~ On(list, h, p)
    BY DEF MailWaiters
  <2>1. h \in ListHead /\ h # ready_queue
    BY WatchedHeads
  <2>2. list[h] = <<>>
    BY <2>1 DEF Init
  <2> QED
    BY <2>2 DEF On, Contains
<1>2. KernelInv /\ KernelInv' /\ MailWaiters /\ [Next]_vars => MailWaiters'
  BY StepEffect, MailWaitersStep
<1> QED
  BY <1>1, <1>2, KernelInvariant, PTL DEF Spec

-----------------------------------------------------------------------------
(* Barriers *)

\* The barrier counts the tasks on its list.  A kill of one of them would break
\* this, for release_pcb unlinks the task and leaves the count as it is.
BarrierCount == \A b \in Barrier : barriers[b].current = Len(list[block_list(b)])

LEMMA BarrierCountStep ==
  ASSUME KernelInv, Effect, BarrierCount, "kill_at_barrier" \notin Unsafe
  PROVE  BarrierCount'
<1> SUFFICES ASSUME NEW b \in Barrier
             PROVE  barriers'[b].current = Len(list'[block_list(b)])
  BY DEF BarrierCount
<1> DEFINE h == block_list(b)
<1>1. /\ h \in Watched /\ h \in ListHead /\ list \in AllLists /\ list[h] \in Seq(Pcb)
      /\ barriers[b].current = Len(list[h])
  BY WatchedHeads DEF KernelInv, TypeOK, StateTypeOK, AllLists, BarrierCount
<1>2. /\ \A p : h # wait_list(p) /\ \A d \in Mbox : \A y : h # OwnList(d, y)
      /\ \A d : h = block_list(d) => d = b
  BY WatchedDiffer DEF OwnList
<1> HIDE DEF h
<1> SUFFICES barriers'[b].current = Len(list'[h])
  BY DEF h
<1>3. ASSUME barriers'[b].current = barriers[b].current, list'[h] = list[h]
      PROVE  barriers'[b].current = Len(list'[h])
  BY <1>1, <1>3
<1>4. CASE Passes \/ \E d \in Mbox : Closes(d)
  BY <1>1, <1>3, <1>4 DEF Passes, Closes, Keeps, Kept, SameCounts
<1>5. ASSUME NEW c \in Cpu, NEW p \in Pcb, Awaits(c, p)
      PROVE  barriers'[b].current = Len(list'[h])
  BY <1>1, <1>2, <1>3, <1>5 DEF Awaits, Adds, Becomes, SameCounts
<1>6. ASSUME NEW c \in Cpu, NEW d \in Mbox, NEW y \in Int, Lacks(c, d, y)
      PROVE  barriers'[b].current = Len(list'[h])
  BY <1>1, <1>2, <1>3, <1>6 DEF Lacks, Adds, Becomes, SameCounts
<1>7. ASSUME NEW c \in Cpu, Entered(c), NEW d \in Barrier, Arrives(c, d)
      PROVE  barriers'[b].current = Len(list'[h])
  <2>1. CASE d = b
    <3>1. /\ list'[h] = Append(list[h], runnings[c]) /\ barriers'[b].current = barriers[b].current + 1
          /\ runnings[c] \in Pcb
      BY <1>7, <2>1 DEF Arrives, Adds, Becomes, Counts, h, Entered
    <3> QED
      BY <1>1, <3>1
  <2>2. CASE d # b
    BY <1>1, <1>2, <1>3, <1>7, <2>2 DEF Arrives, Adds, Becomes, Counts
  <2> QED
    BY <2>1, <2>2
<1>8. ASSUME NEW p \in Pcb, Reports(p)
      PROVE  barriers'[b].current = Len(list'[h])
  BY <1>1, <1>2, <1>3, <1>8 DEF Reports, Empties, Becomes, SameCounts
<1>9. ASSUME NEW p \in Pcb, Dies(p)
      PROVE  barriers'[b].current = Len(list'[h])
  <2>1. ~ On(list, h, p) /\ list' = list_delete_entry(list, p)
    BY <1>9 DEF Dies, h
  <2>2. list'[h] = list[h]
    BY <1>1, <2>1, DeleteElsewhere
  <2> QED
    BY <1>3, <1>9, <2>2 DEF Dies, SameCounts
<1>10. ASSUME NEW d \in Barrier, Opens(d)
       PROVE  barriers'[b].current = Len(list'[h])
  <2>1. CASE d = b
    BY <1>10, <2>1 DEF Opens, Empties, Becomes, Counts, h
  <2>2. CASE d # b
    BY <1>1, <1>2, <1>3, <1>10, <2>2 DEF Opens, Empties, Becomes, Counts
  <2> QED
    BY <2>1, <2>2
<1>11. ASSUME NEW d \in Barrier, Destroys(d)
       PROVE  barriers'[b].current = Len(list'[h])
  <2>1. list'[h] = list[h]
    BY <1>1, <1>11 DEF Destroys, Keeps, Kept
  <2>2. CASE d = b
    BY <1>11, <2>1, <2>2 DEF Destroys, Counts, h
  <2>3. CASE d # b
    BY <1>3, <1>11, <2>1, <2>3 DEF Destroys, Counts
  <2> QED
    BY <2>2, <2>3
<1>12. ASSUME NEW d \in Mbox, NEW y \in Int, Copies(d, y)
       PROVE  barriers'[b].current = Len(list'[h])
  BY <1>1, <1>2, <1>3, <1>12 DEF Copies, Empties, Becomes, SameCounts
<1> QED
  BY <1>4, <1>5, <1>6, <1>7, <1>8, <1>9, <1>10, <1>11, <1>12 DEF Effect

\* Tasks leave a barrier together, when as many as its goal have come, as long
\* as none of them is killed there.
THEOREM BarriersOpen ==
  ASSUME Admitted, "kill_at_barrier" \notin Unsafe
  PROVE  Spec => BarrierOpens
<1>1. Init => BarrierCount
  <2> SUFFICES ASSUME Init, NEW b \in Barrier
               PROVE  barriers[b].current = Len(list[block_list(b)])
    BY DEF BarrierCount
  <2>1. block_list(b) \in ListHead /\ block_list(b) # ready_queue
    BY WatchedHeads
  <2> QED
    BY <2>1 DEF Init
<1>2. KernelInv /\ BarrierCount /\ [Next]_vars => BarrierCount'
  BY StepEffect, BarrierCountStep
<1>3. KernelInv /\ BarrierCount /\ [Next]_vars =>
        [\A b \in Barrier :
           LET q == list[block_list(b)]
           IN  \A i \in DOMAIN q :
                 On(list', block_list(b), q[i]) \/ status'[q[i]] = "EXITED"
                 \/ /\ Len(q) + 1 >= barriers[b].goal
                    /\ list'[block_list(b)] = <<>>
                    /\ barriers'[b].current = 0]_vars
  <2> SUFFICES ASSUME KernelInv, BarrierCount, [Next]_vars, NEW b \in Barrier,
                      NEW i \in DOMAIN list[block_list(b)],
                      ~ On(list', block_list(b), list[block_list(b)][i])
               PROVE  \/ status'[list[block_list(b)][i]] = "EXITED"
                      \/ /\ Len(list[block_list(b)]) + 1 >= barriers[b].goal
                         /\ list'[block_list(b)] = <<>>
                         /\ barriers'[b].current = 0
    OBVIOUS
  <2> DEFINE h == block_list(b)
             q == list[h][i]
  <2>1. /\ h \in Watched /\ Effect /\ list[h] \in Seq(Pcb)
        /\ barriers[b].current = Len(list[h])
    BY StepEffect, WatchedHeads DEF KernelInv, TypeOK, StateTypeOK, BarrierCount
  <2>2. q \in Pcb /\ On(list, h, q)
    BY <2>1 DEF On, Contains
  <2> HIDE DEF q
  <2>3. \/ Dies(q)
        \/ \E p \in Pcb : h = wait_list(p)
        \/ \E d \in Barrier : h = block_list(d) /\ Opens(d)
        \/ \E d \in Mbox, y \in Int : h = OwnList(d, -y)
    BY <2>1, <2>2, Leaves DEF q
  <2>4. Dies(q) \/ Opens(b)
    BY <2>3, WatchedDiffer DEF OwnList
  <2> QED
    BY <2>1, <2>4 DEF Dies, Opens, Empties, Becomes, Counts, q
<1> QED
  BY <1>1, <1>2, <1>3, KernelInvariant, PTL DEF Spec, BarrierOpens
=============================================================================
