------------------------------ MODULE MCKernel ------------------------------
EXTENDS Kernel

\* Bound of MCSync: a behaviour uses a mailbox, or else the barriers and the
\* condition variables; with a mailbox there is one process less.
MailOrBarriers ==
  \/ \A b \in Mbox : mailboxes[b] = Free
  \/ /\ process_id < MaxPid
     /\ \A b \in Barrier : barriers[b].current = 0
     /\ \A k \in Condition : list[cond_list(k)] = <<>>
     /\ \A t \in Task : cont[t].op # "acquire"
=============================================================================
