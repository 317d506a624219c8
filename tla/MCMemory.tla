----------------------------- MODULE MCMemory -----------------------------
(* Images and pages for the runs of Memory. *)
EXTENDS Memory

Seg(n, m) == [load |-> TRUE, filesz |-> n, memsz |-> m]
Note == [load |-> FALSE, filesz |-> 0, memsz |-> 0]

\* A boot block, a kernel that does not fill its sectors, and programs: one
\* that ends inside a page and has data behind its end, one that fills pages.
SmallImages == {
  <<<<Seg(2, 2)>>, <<Seg(3, 3)>>, <<Seg(3, 6)>>>>,
  <<<<Seg(2, 2)>>, <<Note, Seg(3, 4)>>, <<Seg(1, 1)>>, <<Seg(2, 2), Seg(1, 2)>>>>}
SmallHeap == {<<0, 1, 0>>}
=============================================================================
