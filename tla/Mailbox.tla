------------------------------ MODULE Mailbox ------------------------------
(***************************************************************************)
(* Mailboxes (kernel/locking/lock.c).                                      *)
(*                                                                         *)
(* A mailbox is its name, its number of users and the counters of its ring *)
(* buffer; the bytes are left out, since only the counters decide who      *)
(* blocks.  Of round_write and round_read the code reads the difference.   *)
(* Sending and receiving are one function with two directions: y is the    *)
(* number of bytes to send, or minus the number of bytes to receive.       *)
(***************************************************************************)
EXTENDS Sync

CONSTANTS MAX_MBOX_LENGTH,
          Names,        \* names of mailboxes
          MsgLengths,   \* lengths of messages
          MaxRef        \* bound: the most users of a mailbox

ASSUME MailAssumption ==
  /\ MAX_MBOX_LENGTH \in Nat \ {0, 1}
  /\ MsgLengths \subseteq Nat \ {0}
  /\ MaxRef \in Nat

VARIABLE mailboxes

NoName == 0
Free == [name |-> NoName, ref |-> 0, nread |-> 0, nwrite |-> 0, rounds |-> 0]
MailTypeOK ==
  mailboxes \in [Mbox -> [name : Names \cup {NoName}, ref : Int,
                          nread : Int, nwrite : Int, rounds : Int]]

do_mbox_open(c, s) ==
  LET named == {b \in Mbox : mailboxes[b].name = s}
      free == {b \in Mbox : mailboxes[b].ref = 0}
      First(S, b) == b \in S /\ \A d \in S : b <= d
  IN  /\ Syscall(c)
      /\ \E b \in Mbox :
           /\ First(named, b) \/ (named = {} /\ First(free, b))
           /\ mailboxes[b].ref < MaxRef
           /\ mailboxes' = [mailboxes EXCEPT ![b].name = s, ![b].ref = @ + 1]
      /\ UNCHANGED <<schedVars, mutexVars>>

\* Task p is inside send or recv of mailbox b.
Using(p, b) ==
  pid[p] # 0 /\ cont[p].op \in {"mbox_acquire", "mbox_loop"} /\ cont[p].x = b

\* The last user resets the mailbox and releases the mutex, whoever holds it;
\* the lists are left as they are.
do_mbox_close(c, b) ==
  LET r == do_mutex_lock_release(b, runnings[c])
      last == mailboxes[b].ref = 1
  IN  /\ Syscall(c)
      /\ mailboxes[b].ref > 0
      /\ last => \/ "close_busy" \in Unsafe
                 \/ \A p \in Pcb : ~ Using(p, b)
      /\ last => ~ mlocks[b].lock \/ "close_locked" \in Unsafe
      /\ IF last
         THEN /\ mailboxes' = [mailboxes EXCEPT ![b] = Free]
              /\ list' = r.lists /\ status' = r.statuses
              /\ mlocks' = r.mlocks /\ holds' = r.holds
         ELSE /\ mailboxes' = [mailboxes EXCEPT ![b].ref = @ - 1]
              /\ UNCHANGED <<list, status, mutexVars>>
      /\ ret_from_kernel(c)

-----------------------------------------------------------------------------

written(b) ==
  mailboxes[b].rounds * MAX_MBOX_LENGTH + (mailboxes[b].nwrite - mailboxes[b].nread)
can_write_to_buffer(b, n) == n + written(b) <= MAX_MBOX_LENGTH
can_read_from_buffer(b, n) == written(b) >= n

Enough(b, y) == IF y > 0 THEN can_write_to_buffer(b, y) ELSE can_read_from_buffer(b, -y)
OwnList(b, y) == IF y > 0 THEN send_list(b) ELSE recv_list(b)

\* The counters after y bytes are copied; nread goes up twice for a byte.
Copied(mbox, y) ==
  LET w == mbox.nwrite + y
      r == mbox.nread - 2 * y
  IN  IF y > 0
      THEN [mbox EXCEPT !.nwrite = w % MAX_MBOX_LENGTH,
                        !.rounds = @ + (w \div MAX_MBOX_LENGTH)]
      ELSE [mbox EXCEPT !.nread = r % MAX_MBOX_LENGTH,
                        !.rounds = @ - (r \div MAX_MBOX_LENGTH)]

\* do_mutex_lock_acquire(mutex_id), then the loop.
MboxAcquire(c, b, y) ==
  LET p == runnings[c]
      k == [op |-> "mbox_loop", x |-> b, y |-> y]
  IN  \/ /\ ~ mlocks[b].lock
         /\ mlocks' = [mlocks EXCEPT ![b] = [lock |-> TRUE, pid |-> pid[p]]]
         /\ holds' = [holds EXCEPT ![b] = @ \cup {p}]
         /\ cont' = [cont EXCEPT ![p] = k]
         /\ kernel_spin_lock' = c
         /\ UNCHANGED <<runnings, status, list, mailboxes>>
      \/ /\ mlocks[b].lock
         /\ do_block(c, list, status, block_queue(b), k)
         /\ UNCHANGED <<mutexVars, mailboxes>>

\* do_mbox_send and do_mbox_recv begin.
do_mbox_send(c, b, n) == Syscall(c) /\ mailboxes[b].ref > 0 /\ MboxAcquire(c, b, n)
do_mbox_recv(c, b, n) == Syscall(c) /\ mailboxes[b].ref > 0 /\ MboxAcquire(c, b, -n)

\* ... woken from send_list or recv_list, they take the mutex again.
MboxReacquire(c) ==
  LET k == cont[runnings[c]]
  IN  /\ InKernel(c, "mbox_acquire")
      /\ \E b \in Mbox : k.x = b /\ MboxAcquire(c, b, k.y)

\* Room, or bytes, enough: copy the message and wake all of the other side.
MboxCopy(c, b, y) ==
  /\ Enough(b, y)
  /\ mailboxes' = [mailboxes EXCEPT ![b] = Copied(@, y)]
  /\ UnblockAll(list, status, OwnList(b, -y))
  /\ cont' = [cont EXCEPT ![runnings[c]] = [op |-> "mbox_end", x |-> b, y |-> y]]
  /\ UNCHANGED <<kernel_spin_lock, runnings, mutexVars>>

\* Else release the mutex and block.
MboxWait(c, b, y) ==
  LET r == do_mutex_lock_release(b, runnings[c])
  IN  /\ ~ Enough(b, y)
      /\ mlocks' = r.mlocks /\ holds' = r.holds
      /\ do_block(c, r.lists, r.statuses, OwnList(b, y),
                  [op |-> "mbox_acquire", x |-> b, y |-> y])
      /\ UNCHANGED mailboxes

\* Mutant: the copy wakes the tasks of its own side.
MboxLoop_ownside(c) ==
  LET k == cont[runnings[c]]
  IN  /\ InKernel(c, "mbox_loop")
      /\ \E b \in Mbox :
           /\ k.x = b
           /\ \/ /\ Enough(b, k.y)
                 /\ mailboxes' = [mailboxes EXCEPT ![b] = Copied(@, k.y)]
                 /\ UnblockAll(list, status, OwnList(b, k.y))
                 /\ cont' = [cont EXCEPT ![runnings[c]].op = "mbox_end"]
                 /\ UNCHANGED <<kernel_spin_lock, runnings, mutexVars>>
              \/ MboxWait(c, b, k.y)

MboxLoop(c) ==
  LET k == cont[runnings[c]]
  IN  /\ InKernel(c, "mbox_loop")
      /\ \E b \in Mbox : k.x = b /\ (MboxCopy(c, b, k.y) \/ MboxWait(c, b, k.y))

\* Release the mutex and return.
MboxEnd(c) ==
  LET r == do_mutex_lock_release(cont[runnings[c]].x, runnings[c])
  IN  /\ InKernel(c, "mbox_end")
      /\ cont[runnings[c]].x \in Mbox
      /\ list' = r.lists /\ status' = r.statuses
      /\ mlocks' = r.mlocks /\ holds' = r.holds
      /\ ret_from_kernel(c)
      /\ UNCHANGED mailboxes

MailContinue(c) == MboxReacquire(c) \/ MboxLoop(c) \/ MboxEnd(c)

MailStep(c) ==
  \/ \E s \in Names : do_mbox_open(c, s)
  \/ \E b \in Mbox : do_mbox_close(c, b)
  \/ \E b \in Mbox, n \in MsgLengths : do_mbox_send(c, b, n) \/ do_mbox_recv(c, b, n)
  \/ MailContinue(c)
=============================================================================
