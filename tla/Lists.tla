------------------------------- MODULE Lists -------------------------------
(***************************************************************************)
(* The kernel's intrusive lists (list.h), seen as sequences.               *)
(*                                                                         *)
(* A pcb has ONE list node, so the state of all lists together is a        *)
(* function from list heads to sequences of pcbs.  An operation takes the  *)
(* lists Q and returns the lists after it.  list_delete_entry is not told  *)
(* which list the entry is on: it unlinks the node from whichever list     *)
(* holds it.                                                               *)
(***************************************************************************)
EXTENDS Integers, SequencesExt

\* p is linked into list h.
On(Q, h, p) == Contains(Q[h], p)

list_delete_entry(Q, p) == [h \in DOMAIN Q |-> RemoveFirst(Q[h], p)]

list_add_tail(Q, p, h) == [Q EXCEPT ![h] = Append(@, p)]

\* INIT_LIST_HEAD: the head points to itself, whatever was linked behind it.
INIT_LIST_HEAD(Q, h) == [Q EXCEPT ![h] = <<>>]

\* list_delete_entry followed by list_add_tail, as do_block, do_unblock and
\* do_scheduler do it.
Moved(Q, p, h) == list_add_tail(list_delete_entry(Q, p), p, h)

\* while (!is_queue_empty(h)) do_unblock(h->next): the entries of h, in order,
\* at the tail of g.
Drained(Q, h, g) == [Q EXCEPT ![g] = @ \o Q[h], ![h] = <<>>]

\* Every node is linked at one place at most.
LinkedOnce(Q) ==
  \A h \in DOMAIN Q : \A i \in DOMAIN Q[h] :
    \A g \in DOMAIN Q : \A j \in DOMAIN Q[g] :
      Q[h][i] = Q[g][j] => h = g /\ i = j
=============================================================================
