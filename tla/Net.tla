-------------------------------- MODULE Net --------------------------------
(***************************************************************************)
(* The network system calls (kernel/net/net.c) on the descriptor rings of  *)
(* the e1000 card (drivers/e1000.c).                                       *)
(*                                                                         *)
(* A ring is its number of used descriptors: the driver hands descriptors  *)
(* to the card at the tail and the card gives them back, in order, at the  *)
(* head.  The card runs beside the kernel and takes no lock.               *)
(***************************************************************************)
EXTENDS KernelState

CONSTANTS PktNums,  \* the numbers of packets user programs pass to net_recv
          PktLens   \* the lengths of packets they pass to net_send

ASSUME NetAssumption == PktNums \subseteq Nat /\ PktLens \subseteq Nat

\* One pass of do_net_send's loop for a packet of n bytes: e1000_transmit takes
\* the descriptor at the tail, if it is free, and returns the length; the task
\* blocks on a result of 0, also when it is the length of what was sent.
NetSend(c, n) ==
  LET sent == is_tx_desc_stat_dd /\ n # 0
  IN  /\ tx' = IF is_tx_desc_stat_dd THEN tx + 1 ELSE tx
      /\ rx' = rx
      /\ \/ sent /\ ret_from_kernel(c) /\ UNCHANGED <<status, list>>
         \/ ~ sent /\ do_block(c, list, status, send_block_queue,
                               [op |-> "net_send", x |-> n, y |-> 0])

do_net_send(c, n) == Syscall(c) /\ NetSend(c, n)

\* ... the loop goes on when the task is woken: another task may have taken the
\* descriptor in the meantime.
NetSendResume(c) == InKernel(c, "net_send") /\ NetSend(c, cont[runnings[c]].x)

\* do_net_recv(n) begins: x is the number of packets it still waits for.
do_net_recv(c, n) ==
  /\ Syscall(c)
  /\ kernel_spin_lock' = c
  /\ cont' = [cont EXCEPT ![runnings[c]] = [op |-> "net_recv", x |-> n, y |-> 0]]
  /\ UNCHANGED <<runnings, status, list, nicVars>>

\* One pass of its loops: e1000_poll reads a packet and returns its descriptor
\* to the card, or the task blocks until do_scheduler finds a packet.
NetRecv(c) ==
  LET n == cont[runnings[c]].x
  IN  /\ InKernel(c, "net_recv")
      /\ \/ /\ n = 0
            /\ ret_from_kernel(c)
            /\ UNCHANGED <<status, list, nicVars>>
         \/ /\ n > 0 /\ is_rx_desc_stat_dd
            /\ rx' = rx - 1
            /\ cont' = [cont EXCEPT ![runnings[c]].x = n - 1]
            /\ UNCHANGED <<kernel_spin_lock, runnings, status, list, tx>>
         \/ /\ n > 0 /\ ~ is_rx_desc_stat_dd
            /\ do_block(c, list, status, recv_block_queue, cont[runnings[c]])
            /\ UNCHANGED nicVars

\* The card has sent the packet at TDH and sets DD.  To the card, TDT = TDH
\* means an empty ring.
Transmitted ==
  /\ tx \in 1 .. (TXDESCS - 1)
  /\ tx' = tx - 1
  /\ UNCHANGED <<schedVars, rx>>

\* A packet arrives; with RDH = RDT the card has no descriptor for it.
Received ==
  /\ PktNums # {}
  /\ rx + 1 < RXDESCS
  /\ rx' = rx + 1
  /\ UNCHANGED <<schedVars, tx>>

NetStep(c) ==
  \/ \E n \in PktLens : do_net_send(c, n)
  \/ NetSendResume(c)
  \/ \E n \in PktNums : do_net_recv(c, n)
  \/ NetRecv(c)
=============================================================================
