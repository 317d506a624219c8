# A verification project for ucas-os-kernel

The repository is a small RISC-V kernel for two harts: preemptive scheduling,
processes and threads, sleep, mutexes, barriers, condition variables, mailboxes,
paging with swap, an e1000 network driver and a file system. This directory holds
TLA+ models of it, the TLC runs that check them on small instances, and
proofs that TLAPS checks for every instance. `PROJECT.json` lists components, runs,
mutants, the map from definitions to source lines, findings, hazards and theorems.

Run a model with `tlc -config MCProcess.cfg MCKernel`, check proofs with
`tlapm KernelProofs.tla` (and likewise for the other modules named `*Proofs` and
`FoldTheorems`; `MemoryProofs` and `FsProofs` take about ten minutes each).

## 1. Inventory

| component | state | operations | interacts with |
|---|---|---|---|
| kernel entry, lock and boot (`irq.c`, `entry.S`, `smp.c`, `head.S`, `main.c`) | `kernel_spin_lock`, `current_running`, `runnings[]`, `tp` and `sp` of each hart | trap, `lock_kernel`, `ret_from_kernel`, `switch_to`, `slave_wait_for_task` | everything: all kernel code runs under the lock |
| scheduler, sleeping (`sched.c`, `time.c`) | `ready_queue`, `sleep_queue`, `status`, `wakeup_time` | `do_scheduler`, `do_block`, `do_unblock`, `find_idle_task`, `do_sleep`, `check_sleeping` | called by every blocking operation; polls the network card; swaps pages in |
| processes and threads (`sched.c`) | `pcb[]`, `pid`, `tid`, `threads[]`, `process_id`, `wait_list` of each task | `do_exec`, `do_exit`, `do_kill`, `do_waitpid`, `do_thread_create`, `do_thread_join` | unlink tasks from any list, release mutexes, wake waiters, free memory |
| mutexes, barriers, conditions (`lock.c`) | `mlocks[]`, `barriers[]`, `conditions[]` | acquire, release, wait, signal, broadcast, destroy | block and unblock tasks; `release_pcb` releases mutexes |
| network (`net.c`, `e1000.c`) | two block queues, the descriptor rings | `do_net_send`, `do_net_recv`, `check_net_*`, `e1000_transmit`, `e1000_poll` | the card consumes and fills descriptors without the lock; `do_scheduler` wakes tasks |
| mailboxes (`lock.c`) | name, users and ring counters of each mailbox, its send and receive lists | open, close, send, recv | use the mutex of the same number; block and unblock tasks |
| memory (`mm.c`, `irq.c`) | `freemem_list`, page tables, `pages[]`, the present and the swapped queue, `share_pages[]`, the swap area | `kalloc`, `kfree`, `alloc_page_helper`, `swap_out`, `swap_in`, `free_pagetable`, `shm_page_get`, `shm_page_dt`, `handle_page_fault` | exec, exit, kill and the scheduler; the SD card |
| loader and image builder (`loader.c`, `main.c`, `createimage.c`) | the disk image, the task table | lay programs out in sectors; read a program into its pages | memory; the swap area begins behind the image |
| file system (`fs.c`) | superblock, maps, inodes and blocks on disk; `fdesc_array`, `cwd_inum` in memory | mkfs, statfs, cd, mkdir, rmdir, ls, touch, cat, ln, rm, fopen, fread, fwrite, lseek, fclose | the SD card; exec passes the working directory on |
| screen, printk, string library, BIOS calls, user library, tests | - | formatting, copying, start-up | not modelled (section 6) |

What makes each part correct: the kernel runs on one hart at a time and acts on its
own task; no task is lost, linked twice or run twice; locks exclude, are handed on in
order and die with their holder; nobody waits for what will not come; no frame has
two uses and a page keeps its contents; a program starts with the bytes it was linked
with; names lead to live files, blocks and inodes have one owner, and all that also
after the power failed.

What is hard here. Two harts trap at any moment and share one pointer
(`current_running`). Contexts are saved before the lock and restored after it. A
task has a single list node that ten kinds of lists share, and `list_delete_entry`
is not told which of them it edits. Running tasks stay on `ready_queue`. Tasks are
torn down in any state: asleep, queued, waited for, holding locks, running. The
spin lock is not fair. The card works in parallel. Pages of a process are swapped out
by what another process does. Descriptors and working directories keep inode numbers
across calls. The power may fail between two writes to the disk. The full list, line by line, is
under `hazards` in `PROJECT.json`.

## 2. Modules

- **KernelEntry**: the trap and lock protocol at the level of single assignments and
  assembly macros, for any number of harts. `pc[c]` is where a hart is, from
  `_start` through `exception_handler_entry`, `interrupt_helper`, `switch_to` and
  `ret_from_kernel` back to user mode; `sp[c]` and `tp[c]` are abstracted to the
  task whose kernel stack they point into. Which task a handler picks is left open.
  `do_kill` takes a task out of those that run: of a task on another hart, or of the
  caller, only with a flag of `Unsafe`; the run and the theorem on kernel stacks leave
  that out, since the slot may then be executed, and its stack used, by another hart.
- **Lists**: `list.h`. All lists together are a function from list heads to sequences,
  because one node per task means that an operation on "the" node may concern any of them.
- **KernelState**: tasks, lists, scheduler, sleep, the start of the slave hart. A step
  is a stretch of kernel code with the lock held (KernelEntry shows that nobody
  else is in the kernel meanwhile). `cont[t]` says what task `t` does when it next
  runs: return to user mode, or the rest of a function that blocked (the reacquiring
  half of a condition wait, the loop of `do_net_send`, the scan of `thread_join`...).
  When `switch_to` resumes such a task, the lock stays with the hart.
- **Net**, **Sync**, **Process**: one action per system call, and one per continuation.
  Each extends the one before and adds its variables.
- **Mailbox**: mailboxes on top of Sync. Send and receive share their code but for the
  direction; each is a chain of steps (take the mutex, test, copy or wait, release).
- **Kernel**: composes them: `Init`, `Next`, fairness and the properties.
- **Image**: `createimage.c`, `init_task_info` and `load_task_img` as functions: from the
  segments of programs to the image, and from the image to the bytes of a page. A byte
  is named by file, segment and position, so that a wrong byte shows.
- **Memory**: `mm.c` with the calls that use it. The state is one record; the functions of
  `mm.c` map states to states and keep their names, and a system call, a page fault or a
  reschedule composes them into one step, since all run under the kernel lock. A failed
  assertion sets `halted`. Programs are loaded with the bytes that Image computes.
- **Fs**: the file system. A call under the kernel lock is seen half done only by a power
  failure, so a call is the sequence of disks that its writes leave (`todo`), one per
  `bios_sdwrite`; `PowerFail` drops the rest and the memory, `init_superblock` starts
  again. `do_fwrite` goes block by block, with its copy of the inode in `doing`.
- **FileStore**: what the file system promises: a tree of names, files and directories in
  which names come and go in one step. `MCFs` maps the disk to a store (`StoreOf`) and
  states that Fs implements it (`StoreSpec`).
- **MCKernel**, **MCKernelEntry**, **MCMemory**, **MCFs**: the TLC instances.
- **KernelEntryProofs**, **KernelProofs**, **SyncProofs**, **FoldTheorems**,
  **MemoryProofs**, **FsProofs**, **StoreProofs**, **FileStoreProofs**: proofs.

### What is abstracted

- Kernel and Memory meet only in the calls: Process models what exec, exit and kill do to
  tasks, Memory what they do to page tables, and `Schedule` is the part of
  `find_idle_task` that swaps pages in. No scheduling decision depends on memory.
- Time: `wakeup_time` counts the seconds left. The clock is not advanced inside a
  stretch of kernel code, so the several reads of one `check_sleeping` agree.
- A packet is a used descriptor. A ring with TDT = TDH is empty to the card.
- Keys of mutexes, barriers and conditions are stored and never read: left out.
- `mutex_lock_release` does not check its caller. The model lets a task release only
  what it holds, as the programs of the repository do; `holds` is a history variable
  that records who was granted a mutex.
- Some legal uses break the kernel. They are in the model, each behind a flag of the
  constant `Unsafe` (see Sync): passing runs leave them out and show what holds
  without them; violation runs admit one and show what it breaks. After the first
  such break the model is no longer exact: `list_delete_entry` on a node that is
  on no list writes through stale pointers, which the sequences do not show.
- Mailboxes: the bytes are left out, since only the counters decide who blocks. The
  receiver advances `nread` twice for each byte; the counters of the model do so too, and
  the number of unread bytes that the code computes becomes negative. `MailWaiters` says
  that no wakeup is lost with respect to the code's own test over these counters, and not
  that the test is right. It is not: after a send, a receive and a send of one byte into a
  buffer of two the count is 0, and a receiver blocks in the code and in the model though
  its byte is there. That later messages overwrite unread ones the model does not show.
- Network: `PktLens` are the lengths that programs send. Length 0 is a case of its own:
  the packet is put into the ring, but the 0 that `e1000_transmit` returns looks like a full
  ring, so that the sender blocks and sends it again when it wakes.
- Memory: a process is the frame of its page directory; contents of a page are a value
  that says whose page it is and what was loaded. The kernel half of the page tables,
  accessed and dirty bits and the TLB are left out, so are threads and their stacks. A
  swapped shared page stays mapped in the other processes that have it: `InScope` leaves
  that out unless `swap_shared` is admitted. `shm_page_dt` accepts any address: of a private
  page it clears the entry and leaves the descriptor queued, and an unmapped one makes it
  write through a null pointer. `ShmDt` does both with the flag `detach_any`; without it
  programs detach only pages of the share window that they attached. Frames of ended processes leak, as in the
  code (`reset_page_info` clears `kva` before `kfree` gets it).
- Files: a block holds entries, two bytes or block numbers; a path has one component,
  because `parse_path` compares an entry with the whole rest of the path; names, times and
  permissions are atoms. The bits that `1 << n` sets are those of a 32-bit shift whose
  result is extended to 64 bits (`ShiftOne`, with `H` for 32 and `W` for 64). Calls on a
  path that does not exist read inode 0, outside the table, in some calls (`do_rmdir`,
  `do_ls`, `do_cat`, `do_ln`): such calls are left out. A directory has `NDENTRIES` entries;
  the call that would add one more writes to block 0 and is left out (`Room`). So are,
  under every flag, reads and writes behind the direct blocks of a file without tables,
  for which the code uses block 0 as a table (`InReach`). A write outside of the inode
  table or of the data blocks would give the table of the model one entry more (`Put`),
  which `TypeOK` excludes. Names longer than the 15 characters that fit into `path_copy`
  of `parse_path` are left out with the characters of names. `init_superblock` and
  `do_statfs` copy 512 bytes into the superblock of 32; the model leaves the variables
  behind it unchanged.
- Image: the variant for QEMU, which keeps all programs in memory, is left out.
- `thread_join` sleeps inside `list_for_each_entry_safe`. If the saved successor has
  left `ready_queue` when the task resumes, the scan reads list heads as tasks or
  follows stale links: `JoinStray` gives it the outcomes this can have.

## 3. Runs

| run | checks | instance |
|---|---|---|
| entry | `KernelExclusion`, `CurrentIsRunning`, `TpIsRunning`, `StackExclusive`, `TypeOK`, `LockReleased` | 2 harts, 3 slots, no kill of a task that runs |
| process | `TaskPlacement`, `OneHart`, `KernelLock`, `WaitersLive`, `ThreadCount`, `WaitReturns` | 3 slots, pids up to 3, 2 threads per process, `thread_kill` admitted |
| sync | `MutexExclusion`, `MutexOwner`, `MailWaiters`, `NoBarging`, `BarrierOpens`, `TaskPlacement`, `TypeOK` | 3 slots, pids up to 4, one mutex, one condition and one barrier (goal 0, then 3); or pids up to 3, the mutex and a mailbox of 2 bytes with messages of 2 |
| live | `LockReturned`, `ReadyRuns`, `SleepersWake` | 3 slots, one mutex, sleeps of 1 s |
| net | `NetWakes` | 2 slots, 2 transmit and 3 receive descriptors, receive of 2 packets, lengths 0 and 1 |
| fs | `StoreSpec`, `DirectOwned`, `HandlesLive`, `LinksCounted`, `FwriteStores`, `LsAssert`, `TypeOK` | 2 processes, names a and b, 24 blocks, 8 inodes, one descriptor, 4 entries per directory, power failures in all calls but ln and mkfs |
| memory | `FramesExclusive`, `QueuesExact`, `PageKept`, `DescriptorsMapped`, `SharedKept`, `TypeOK` | 2 processes, two images, 3 present pages, 7 descriptors, one shared page, 18 frames, sectors up to 12 |
| kill_running | violates `ExitedGone` | 2 slots |
| thread_locks | violates `OneHolder` | 3 slots, a process with 2 threads |
| net_full | violates `SendersWake` | 2 slots, 2 transmit descriptors |
| fs_bigfile | violates `BlocksUnshared` | as fs |
| memory_full | violates `NoHalt` | 3 descriptors for 3 present pages, as 512 for 512 in `mm.h` |

Why the bounds suffice. Three slots are the least with which both harts run a task
while a third is ready, blocked or being killed, and with which a barrier of goal 3
or a mutex queue of length 2 exists. One pid more than there are slots makes a slot
be reused after a kill. Two threads distinguish a process from a task. Two transmit
descriptors are the smallest ring that can be neither empty nor full; the receive
ring of 3 holds two packets, as the card never fills the last one. A mailbox of two
bytes and messages of two make every send after the first and every receive before it
block; the constraint `MailOrBarriers` keeps a behaviour from using a mailbox and barriers
or conditions, which share no state but the tasks.

The file system's words have 8 bits and its shifts 4, so that inode 4 is the one
whose bit smears and 8 the number at which freeing misses the word; the test file has all
three kinds of blocks; a file and a directory more than that use up what the maps have.
Three present pages are the fewest with which a program, its stack and another process
compete, and a load swaps out pages of the program that is being loaded; the two images
cover programs that end inside a sector, inside a page and at its end, with and without
bss, and a kernel with a header that is not loaded. CHECK_DEADLOCK is off in these runs:
at a bound (frames, sectors), after a failed assertion or on a full disk nothing happens.

What the violations show (the findings):

- `do_kill` of a task that the other hart is running frees its slot and unlinks it
  while the hart goes on executing it.
- Mutexes are released by pid on exit and kill. Threads share the pid, so the death
  of one thread opens the mutexes of its siblings.
- `e1000_transmit` fills the last descriptor; head and tail are then equal, which the
  card reads as "nothing to send", and blocked senders never wake.
- `init_bigfile` counts the data blocks of `8MB.dat` but not its tables: the next file or
  directory gets a block that belongs to it.
- A page that is swapped out keeps its descriptor and there are no more descriptors than
  present pages: the first allocation that swaps stops the kernel.

What some of the passing runs say, with care: `entry` leaves out the kill of a task that a
hart runs; all of its properties but `StackExclusive` hold with it too. `fs` excludes
what `Unsafe` lists (removing a file that is open or a directory in use, linking a
directory or to a taken name, writes that cross a block or leave the direct blocks, mkfs
over files) and power failures in ln (a name without a count) and mkfs (a magic number
without a file system). `memory` excludes detaching what was not attached, and it says
nothing once an assertion has stopped the kernel; a process that exits with a shared page
that another one made stops it at `mm.c:283`.

## 4. Fairness

`FairSpec` of KernelEntry assumes weak fairness of each hart's kernel steps: traps
clear interrupts, so kernel code runs on. Nothing is assumed of the lock or of user
code. `FairSpec` of Kernel assumes that kernel code once begun is finished, that
time passes (strong, because the model's clock waits for the end of a stretch of
kernel code), that the card sends packets of a ring it takes to be non-empty, and
that the timer interrupt of *some* hart is served again and again: a pending timer
interrupt is taken before the next user instruction, so a program cannot keep the
harts in user mode or in its own system calls for ever. No hart is assumed ever to
win the spin lock, which is not fair, and `ReadyRuns` holds all the same. The scan of
`thread_join` that went astray (`JoinStray`) gets no fairness; the live run has no
second threads, and what it shows does not extend to programs that join threads.

## 5. Proofs

`KernelEntryProofs` proves, for any set of harts and of task slots, that
`Spec => []` of `TypeOK`, `KernelExclusion`, `CurrentIsRunning` and `TpIsRunning`, and of
`StackExclusive` when `Unsafe` is empty: no task gives up its slot while a hart runs it.
Assumptions: `EntryAssumption` (a master hart, one idle task per hart, distinct from
the slots). None of them is inductive alone. `ProtocolInv` adds what a hart has at each
place (`BootPart`, `StackPart`) and is preserved whatever is killed. `EntryInv` adds, for
the stacks, that `TASK_RUNNING` marks exactly the tasks on harts
(`RunningPart`: what lets `find_idle_task` choose without looking at the other harts, and
what the kill of a running task breaks),
and that an idle task belongs to its hart (`IdlePart`). One step per action shows that
they are preserved.

`KernelProofs` proves, for any number of tasks, mutexes, barriers, condition variables,
mailboxes and descriptors, that `Spec => []` of `TypeOK`, `TaskPlacement`, `OneHart`, `KernelLock`,
`WaitersLive`, `ThreadCount` and `ExitedGone`. Assumptions: those on the constants
(`KernelAssumption`, `NetAssumption`, `SyncAssumption`, `ProcessAssumption`,
`MailAssumption`) and
`Admitted`: of the uses in `Unsafe`, only `thread_kill` and `kill_at_barrier` may occur.
The others break the invariant (`kill_running` shows one).

The inductive invariant is `KernelInv`. Beside the properties it says that a hart runs
a slot or its own idle task and only a started hart has the lock (`HartPart`); that
an idle task idles or reschedules and does nothing else, and that a teardown is never
preempted (`ContPart`); what a task in the middle of `release_pcb` looks like
(`TearPart`: without it the second half of exit could not be shown to find the slot and
the thread count it left); and that until the slave hart starts the task of hart 0 is
first in `ready_queue` (`BootPart`: the reason why `slave_wait_for_task` may take the
second one unseen). The argument has two parts:

- The paths through the kernel: first what `list_delete_entry`, `list_add_tail`, moving an entry and
  emptying a list do to lists in which every node is linked at most once. Then `Sound` (lists, statuses and slots agree, except for the tasks being
  torn down) and `Runs` (they agree with what the harts run) are preserved by moving,
  waking, unlinking and freeing tasks, including on the intermediate lists inside one
  handler. A hart that enters the kernel finds them (`CoreElim`, `TearElim`), and each
  way out of the kernel turns them into the invariant again (`CoreSame`, `CoreSwitch`,
  `CoreBlock`, `TearIntro`). `CountAdd`, `CountRemove` and `CountFreed` follow the thread
  counts.
- The handlers: one lemma for each, then `InitInv`, `NextInv` and the theorems.

`SyncProofs` proves, for any number of tasks, mutexes and mailboxes, `Spec => []MutexOwner`
and `Spec => NoBarging` under `Admitted`, and `Spec => []MutexExclusion` when in addition
`thread_kill` is not in `Unsafe`: locks are recorded by pid, so a thread that is killed
gives back the locks of its siblings too (`thread_locks` shows it). What a step does to
the mutexes is one of nine kinds (`Kinds`), and `StepKinds` shows, handler by handler, that
there are no others; the invariants are preserved kind by kind, on top of `KernelInv`.
Each needs a strengthening:

- `Swept`, for `MutexOwner`: the loop of `release_pcb` is several steps, between which the
  dying task still owns some locks. Those that the loop has passed are no longer owned by
  its pid, unless another thread of the process is left, so that freeing the slot leaves no lock with a dead owner.
- `MailHolds`, for `MutexExclusion`: a task inside a mailbox call has the mutex of the
  mailbox or queues for it; else the release at the end of the call, which does not look
  at the owner, would open a lock of somebody else.
- `Alone`: a task that is torn down is the last of its process (by `ThreadCount`), so that a
  lock owned by its pid is held by that task.

`NoBarging` follows step by step from the kinds and from what
`do_mutex_lock_release` does to the queue (`ReleaseEffect`).

Its second part proves, for any number of tasks, barriers and mailboxes, `Spec => WaitReturns`
and `Spec => []MailWaiters` under `Admitted`, and `Spec => BarrierOpens` when in addition
`kill_at_barrier` is not in `Unsafe` (the count of a barrier is not taken back when a task
dies there). The lists on which somebody waits for the end of a task, at a barrier or for
a mailbox are the watched ones. A step leaves them alone, adds its own task to one,
empties one or takes a dying task out, and each of these goes with one change of
barriers and mailboxes (`Effect`); `StepEffect` shows it handler by handler.
`BarrierOpens` needs `BarrierCount`: the count of a barrier is the length of its list.
`MailWaiters` is itself inductive over these effects: a task joins a list only when the
counters of the ring deny it (`Joins`), and every change of them empties the list it might
serve. It says that the wakeups fit the code's test, not that the test counts the bytes.

`MemoryProofs` proves, for any images, any number of frames, descriptors, share slots
and processes, and with shared pages swapped out or not, `Spec => []` of `TypeOK`,
`FramesExclusive`, `QueuesExact` and `DescriptorsMapped`. Assumptions: `MemoryAssumption`,
that 0 is not in `Keys`: `shm_page_get` marks a free slot with key 0, so a program that
asks for key 0 gets the null page mapped; and that `detach_any` is not in `Unsafe`: a private
page that is detached leaves a descriptor without an entry. The invariant of a memory state `m`
is `Sane(m)`, the conjunction of

- `Good(m, X)`: the shape of the record; `Sorted`, which says of every frame that it has
  one use (`Takes`) or is free, once; and `Queued`, the two queues. A function of `mm.c` is
  entered with a frame that has been taken and has no use yet (`Loose`), and `TakeRule`
  and `DropRule` say when a frame may get or lose its use. `X` is the tables that
  `free_pagetable` has freed and is about to forget; between calls it is empty.
- `Described(m)`: a private page in use has an entry in its directory, and *one*
  descriptor. The second half is what makes it inductive: `free_pagetable` frees one
  descriptor for each entry, and a second one would be left behind.
- `Slots(m)`: a share slot is free, or has a key, a frame and users; so the last
  `shm_page_dt` does not count below 0.

One lemma per function of `mm.c` shows what it does to `Good` (`KallocGood`, `MapGood`,
`SwapOutGood`, `SwapInGood`, `AllocGood`, `ReleaseGood`...) and one per call what it does to
`Sane`. Three calls loop: `swap_in_all_pages` over a queue, `load_task_img` over pages,
`free_pagetable` over the entries of a directory. `FoldTheorems` proves, once and by
induction over a set of indexes, that a fold keeps what its steps keep; its operators are
constants of the module, and `MemoryProofs` has one instance of it for each loop. The
entries that `free_pagetable` visits are numbered by how many come before them:
`BeforeOrder` shows that this is a strict total order, and `OrderedSeq` that the sequence
holds each entry once, so that no table is freed twice. `InScope`, the bounds and the
restriction of shared pages, is not used.

`FsProofs` proves, for any sizes of the maps, of the disk, of a block and of a directory,
any number of processes and descriptors and any calls, `Spec => []` of `TypeOK`,
`DirectOwned`, `HandlesLive`, `LsAssert`, `LinksCounted` and `FwriteStores`. Assumptions:
`FsAssumption`; `LayoutAssumption`, that the root directory, the direct blocks of the test
file and the block after the last one that mkfs marks have their bits in the lower half of
a map word (in the code they have: `META` is 70, `BIGDATA` 2048 and `W` 64); and
`Careful`, which is what the run `fs` is restricted to: no use of `Unsafe`, and no power
failure inside mkfs and ln. Without the last one `LinksCounted` breaks, and then rm frees a
file that has a name, so that no other property of the names survives it.

The properties need one invariant for all: which inodes are in use depends on the names
that the root reaches, on every disk that a call leaves between two writes, and where a
free bit is depends on which bits a shift sets. `FsInv` says of the disk and of each disk
in `todo` that it is `Fine`, and `Linked` except between the two writes of ln:

- `Halves`: in each word of a map the upper half is set exactly when bit `H - 1` is, because
  the shift `1 << n` is one of an `int` and the conversion extends the sign. Hence the
  first clear bit is never in the upper half, `alloc_block` and `alloc_inode` never give
  out a number whose bit `free_block` and `free_inode` would look for in the wrong word
  (a multiple of `W`), and setting or freeing the bit of one number in use (`Usable`)
  changes that of no other. `DirectOwned` is not inductive without it.
- `Reach`: the set `I` of inodes in use is the least one that is closed under the names. A
  lemma for each kind of write says what becomes of it: `touch` and `mkdir` add one inode
  (`AddFine`), rm and rmdir take one out that has no other name (`RemoveFine`), the others
  leave it alone. For that a directory has to have one name, in the parent that its `..`
  names (`OneName`), entries 1 and 2 are `.` and `..` (`Dirs`), and a directory holds
  no name twice (`Distinct`: parse_path and `remove_dentry` take the first hit).
- `Own`: marks and owners of inodes and direct blocks, as in `DirectOwned`.
- `First`: the first name that mkfs made is that of the test file; with it, mkfs over an
  empty file system meets no handles but those of the root and of the test file.
- `Written`, for fwrite: the inode in `doing` has the references and the direct blocks of
  the one on the disk when the writes to come are done, and the bytes of the buffer are
  on that disk. `FwriteStores` is what is left of it at the end.

Each call that writes is shown to leave only such disks (`TouchWhole`, `MkdirWhole`,
`RmWhole`, `RmdirWhole`, `LnSound`, `MkfsFresh`, `NewPiece`, `OldPiece`); one lemma for each
action (`DoTouch`, `DoRm`, `DoWrite`, `DoPowerFail`...) lifts that to `FsInv`.

`FileStoreProofs` proves that the abstract store keeps its names a tree (`Tree`: names
lead from live directories to live files and directories, a directory has one name, a
file goes only with its last one) for any sets of identifiers, names, blocks and
contents. What makes it inductive is that a store that is ready has its root, so that a
fresh identifier is not the root.

`StoreProofs` proves that Fs implements FileStore, `MCSpec => StoreSpec`, under the same
assumptions as `FsProofs` and for the same parameters; `MCSpec` is `Spec` with the store
that the disk holds beside it. `StoreOf` reads names, directories and files off all that the
root reaches, so the theorem says of each single `bios_sdwrite` what becomes of the whole
tree. The argument:

- `FsProofs` shows more of each write than that it leaves a `Fine` disk: it is a `Move`. It
  changes no name and no file (`Quiet`), adds one name with what it leads to (`Gains`),
  takes one away (`Loses`) or changes one block of one file and does not make it shorter
  (`Puts`). `Runs` says this of all disks that a call leaves, one after the other: `TouchOf`,
  `MkdirOf`, `RmOf`, `RmdirOf`, `LnOf`, `PieceOf`. That a file does not become shorter in a
  later piece of an fwrite needs the size of the copy of the inode in `doing`, which
  `Written` therefore bounds.
- `Moving`, the invariant that StoreProofs adds to `FsInv`: outside of mkfs the disks to
  come are a run that starts at the disk; inside of mkfs there is no store before the last
  write. `StoreInv`: the variable `store` is `StoreOf` of the disk.
- A quiet move leaves the store as it is (`QuietStep`); the others are `Touch`, `Mkdir` or
  `Ln` (`GainStep`), `Rm` or `Rmdir` (`LoseStep`), and `Put` (`PutStep`). The last write of
  mkfs is `Mkfs` (`FreshStep`), and a second mkfs is first `Wipe`. A power failure drops
  disks that nobody has seen: it is no step of the store.

With `StoreTree` it follows that the names on the disk form a tree in every state with
a file system (`FsTree`).

Only model-checked: liveness (`LockReleased`, `LockReturned`, `ReadyRuns`, `SleepersWake`,
`NetWakes`), which the prover does not reach, and the contents of pages (`PageKept`,
`SharedKept`), for which the proof would have to follow every byte from the image through
the swap area, and which hold only within `InScope`.

## 6. Not modelled

- Screen and console (`screen.c`), `printk.c`, `printf.c`: output only; no state that another
  part reads.
- `string.c`: copies and comparisons, taken as primitives of the models.
- BIOS calls, `boot.c`, `bootblock.S`, `crt0.S`: firmware and straight-line start-up before the
  state that the models begin with.
- `tiny_libc/syscall.c`, the shell and the test programs: the models let tasks make any
  sequence of system calls.
- Register set-up, DMA addresses and packet bytes of the e1000 driver.
- `ioremap.c`, the kernel half of the page tables, thread stacks and their reuse after a
  thread has gone, and the TLB of the other hart when a page is swapped out.
- What `handle_other` prints before it halts, names and arguments of programs.
- Composition of Memory with the scheduler of Kernel in one model: the product is beyond
  what can be explored, and the parts share no state but the choice of the next task.
