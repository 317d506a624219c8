------------------------------- MODULE Memory -------------------------------
(***************************************************************************)
(* Memory management (mm.c): page frames, page tables, the descriptors of  *)
(* user pages, swapping and shared pages, with the calls of sched.c,       *)
(* loader.c and irq.c that use them.                                       *)
(*                                                                         *)
(* All of it runs under the kernel lock, so a call is one step.  The state *)
(* is one record mm and a function of mm.c maps a state to a state.  A     *)
(* frame is numbered from FREEMEM_KERNEL, 0 is the null pointer; a user    *)
(* page is named by its three indexes <<vpn2, vpn1, vpn0>>.  A process is  *)
(* named by the frame of its page directory, as in mm.c.  The kernel's own *)
(* half of a page table (share_pgtable) never changes and is left out.     *)
(* The hardware sets the accessed and dirty bits itself, and a translation *)
(* is never stale in a TLB.  Threads are left out.                         *)
(***************************************************************************)
EXTENDS Image

CONSTANTS
  NUM_MAX_TASK, MAX_PFN, MAX_PRESENT_PFN, MAX_SHARE_PAGE_NUM,
  Images,     \* the disk images that may have been built
  Heap,       \* pages that a program touches without having them
  Keys,       \* keys of shared pages
  Unsafe,     \* what the code lets happen: "swap_shared", a shared page may be
              \* swapped out; "detach_any", shm_page_dt of a page that
              \* shm_page_get has not returned
  MaxFrame, MaxSector, MaxAttach  \* bounds on frames, swap area, attached pages

Uva == Nat \X Nat \X Nat

\* A program has a size (it is a sum of sizes, which TLC computes).
ASSUME MemoryAssumption ==
  /\ NUM_MAX_TASK \in Nat \ {0} /\ MAX_SHARE_PAGE_NUM \in Nat /\ MaxAttach \in Nat
  /\ MAX_PFN \in Nat \ {0} /\ MAX_PRESENT_PFN \in Nat \ {0, 1}
  /\ Heap \subseteq Uva
  /\ \A files \in Images : /\ WellFormed(files)
                           /\ \A t \in DOMAIN taskinfo(files) : taskinfo(files)[t].memsz \in Nat

VARIABLES files, mm
vars == <<files, mm>>

Code(k) == <<0, 0, k>>           \* USER_VA_START
Window(j) == <<0, 0, 100 + j>>   \* SHARE_PAGE_UVA_START
Stack == <<60, 0, 15>>           \* USER_VA_SP_BASE

Zero == <<>>
Unused == [used |-> FALSE, uva |-> Zero, kva |-> 0, pgdir |-> 0, sector_id |-> 0]

Init ==
  /\ files \in Images
  /\ mm = [frontier |-> 3,             \* 1 and 2 are the idle tasks' stacks
           free |-> <<>>, kstacks |-> {1, 2},
           mem |-> [f \in {1, 2} |-> Zero],  \* contents of the frames
           pt |-> <<>>,                      \* pgdir -> tables, PTEs, program
           pages |-> [d \in 1 .. MAX_PFN |-> Unused],
           present |-> <<>>, swapped |-> <<>>, present_pages_num |-> 0,
           sector |-> disk_sectors_startid(files),
           swap |-> <<>>,                    \* contents of the swap area
           share |-> [i \in 1 .. MAX_SHARE_PAGE_NUM |-> [kva |-> 0, ref |-> 0, key |-> 0]],
           halted |-> ""]

halt(m, why) == [m EXCEPT !.halted = why]

\* f with value v at the points of S.
PutAll(f, S, v) == [y \in DOMAIN f \cup S |-> IF y \in S THEN v ELSE f[y]]
Put(f, x, v) == PutAll(f, {x}, v)

-----------------------------------------------------------------------------
(* Frames: the last page of freemem_list is always the first untouched one *)

NextFrame(m) == IF m.free = <<>> THEN m.frontier ELSE Head(m.free)

\* Mutant: the list is not advanced past the page that is handed out.
kalloc_keeps(m) ==
  LET f == NextFrame(m)
  IN  [m EXCEPT !.mem = Put(@, f, Zero),
                !.frontier = IF m.free = <<>> THEN @ + 1 ELSE @]

kalloc(m) ==
  LET f == NextFrame(m)
  IN  [m EXCEPT !.mem = Put(@, f, Zero),
                !.frontier = IF m.free = <<>> THEN @ + 1 ELSE @,
                !.free = IF m.free = <<>> THEN @ ELSE Tail(@)]

\* Mutant: the null pointer goes to the list too.
kfree_any(m, f) == [m EXCEPT !.free = <<f>> \o @, !.mem = Put(@, f, Zero)]

\* An address below FREEMEM_KERNEL is ignored.
kfree(m, f) ==
  IF f = 0 THEN m ELSE [m EXCEPT !.free = <<f>> \o @, !.mem[f] = Zero]

-----------------------------------------------------------------------------
(* Page tables *)

WithTable(m, g, node) ==
  IF node \in DOMAIN m.pt[g].tab THEN m
  ELSE [kalloc(m) EXCEPT !.pt[g].tab = Put(@, node, NextFrame(m))]

map_uva_to_kva(m, uva, f, g) ==
  LET m1 == WithTable(WithTable(m, g, <<uva[1]>>), g, <<uva[1], uva[2]>>)
  IN  [m1 EXCEPT !.pt[g].pte = Put(@, uva, [kva |-> f, present |-> TRUE])]

\* get_pte_of_uva: a page has an entry that is not 0.
Mapped(m, uva, g) == g \in DOMAIN m.pt /\ uva \in DOMAIN m.pt[g].pte
get_kva_of_uva(m, uva, g) == IF Mapped(m, uva, g) THEN m.pt[g].pte[uva].kva ELSE 0

-----------------------------------------------------------------------------
(* Descriptors and swapping *)

add_new_pre_page(m, uva, f, g) ==
  LET unused == {d \in 1 .. MAX_PFN : ~ m.pages[d].used}
      d == Min(unused)
  IN  IF unused = {} THEN halt(m, "no descriptor")
      ELSE [m EXCEPT !.pages[d] = [used |-> TRUE, uva |-> uva, kva |-> f,
                                   pgdir |-> g, sector_id |-> 0],
                     !.present = Append(@, d),
                     !.present_pages_num = @ + 1]

\* Mutant: the next page that is swapped out goes to the same sectors.
swap_out_here(m) ==
  LET d == Head(m.present)
      page == m.pages[d]
      out == [m EXCEPT !.present = Tail(@), !.swapped = Append(@, d),
                !.swap = PutAll(@, m.sector .. (m.sector + SECTORS_PER_PAGE - 1),
                                m.mem[page.kva]),
                !.pages[d].sector_id = m.sector,
                !.present_pages_num = @ - 1]
  IN  IF ~ Mapped(m, page.uva, page.pgdir) THEN halt(m, "null")
      ELSE kfree([out EXCEPT !.pt[page.pgdir].pte[page.uva].present = FALSE], page.kva)

\* FIFO; the owner of the oldest page may be running on the other hart.
swap_out(m) ==
  LET d == Head(m.present)
      page == m.pages[d]
      out == [m EXCEPT !.present = Tail(@), !.swapped = Append(@, d),
                !.swap = PutAll(@, m.sector .. (m.sector + SECTORS_PER_PAGE - 1),
                                m.mem[page.kva]),
                !.pages[d].sector_id = m.sector,
                !.sector = @ + SECTORS_PER_PAGE,
                !.present_pages_num = @ - 1]
  IN  IF ~ Mapped(m, page.uva, page.pgdir) THEN halt(m, "null")
      ELSE kfree([out EXCEPT !.pt[page.pgdir].pte[page.uva].present = FALSE], page.kva)

swap_in(m, d) ==
  LET page == m.pages[d]
      f == NextFrame(m)
      m1 == map_uva_to_kva(kalloc(m), page.uva, f, page.pgdir)
  IN  [m1 EXCEPT !.swapped = RemoveFirst(@, d),
                 !.present = Append(@, d),
                 !.pages[d].kva = f, !.pages[d].sector_id = 0,
                 !.mem[f] = m1.swap[page.sector_id],
                 !.present_pages_num = @ + 1]

\* Mutant: a process gets its pages back whatever number is present.
swap_in_all_pages_always(m, g) ==
  FoldLeft(LAMBDA n, d : IF n.pages[d].pgdir = g THEN swap_in(n, d) ELSE n, m, m.swapped)

swap_in_page(g, n, d) ==
  IF n.pages[d].pgdir = g /\ n.present_pages_num < MAX_PRESENT_PFN THEN swap_in(n, d) ELSE n
swap_in_all_pages(m, g) == FoldLeft(LAMBDA n, d : swap_in_page(g, n, d), m, m.swapped)

\* The caller fills the page with data.
alloc_page_helper(m, uva, g, data) ==
  LET f == NextFrame(m)
      m1 == map_uva_to_kva(kalloc(m), uva, f, g)
      m2 == IF m1.present_pages_num >= MAX_PRESENT_PFN THEN swap_out(m1) ELSE m1
  IN  [add_new_pre_page(m2, uva, f, g) EXCEPT !.mem[f] = data]

\* The frame number is gone when kfree gets it: the frame is never free again.
reset_page_info(m, d) == [m EXCEPT !.pages[d] = Unused]

\* The order in which the queues are searched.
Queues(m) == m.present \o m.swapped

Release(m, d) ==
  LET m1 == reset_page_info(m, d)
      m2 == [m1 EXCEPT !.present = RemoveFirst(@, d), !.swapped = RemoveFirst(@, d),
                       !.present_pages_num = @ - (IF d \in Range(m.present) THEN 1 ELSE 0)]
  IN  kfree(m2, m2.pages[d].kva)

\* Mutant: a page that is swapped out keeps its descriptor.
free_page_with_uva_present(m, uva, g) ==
  LET i == SelectInSeq(m.present, LAMBDA d : m.pages[d].uva = uva /\ m.pages[d].pgdir = g)
  IN  IF i = 0 THEN m ELSE Release(m, m.present[i])

free_page_with_uva(m, uva, g) ==
  LET i == SelectInSeq(Queues(m), LAMBDA d : m.pages[d].uva = uva /\ m.pages[d].pgdir = g)
  IN  IF i = 0 THEN halt(m, "no such page") ELSE Release(m, Queues(m)[i])

free_page_with_kva(m, f) ==
  LET i == SelectInSeq(Queues(m), LAMBDA d : m.pages[d].kva = f)
  IN  IF i = 0 THEN halt(m, "no such page") ELSE Release(m, Queues(m)[i])

\* A table is freed behind all that it holds.
Before(x, y) ==
  LET differ == {i \in DOMAIN x \cap DOMAIN y : x[i] # y[i]}
  IN  IF differ = {} THEN Len(x) > Len(y)
      ELSE x[Min(differ)] < y[Min(differ)]
Ordered(S) ==
  [i \in 1 .. Cardinality(S) |->
     CHOOSE x \in S : Cardinality({y \in S : Before(y, x)}) = i - 1]

free_entry(g, n, e) ==
  IF n.halted # "" THEN n
  ELSE IF e \in DOMAIN n.pt[g].tab THEN kfree(n, n.pt[g].tab[e])
  ELSE free_page_with_uva(n, e, g)
free_pagetable(m, g) ==
  LET entries == Ordered(DOMAIN m.pt[g].tab \cup DOMAIN m.pt[g].pte)
      freed == FoldLeft(LAMBDA n, e : free_entry(g, n, e), m, entries)
  IN  [freed EXCEPT !.pt[g].tab = <<>>, !.pt[g].pte = <<>>]

free_pgdir(m, g) ==
  kfree([m EXCEPT !.pt = [h \in DOMAIN @ \ {g} |-> @[h]]], g)

-----------------------------------------------------------------------------
(* Shared pages *)

share_with(m, key) == {i \in 1 .. MAX_SHARE_PAGE_NUM : m.share[i].key = key}
FreeWindow(m, g) ==
  Window(Min({j \in 0 .. MaxAttach : ~ Mapped(m, Window(j), g)}))

\* The first process to get a key allocates the page; key 0 marks a free slot.
shm_page_get(g, key) ==
  LET old == share_with(mm, key)
      new == share_with(mm, 0)
      uva == FreeWindow(mm, g)
      attach(i) == map_uva_to_kva([mm EXCEPT !.share[i].ref = @ + 1],
                                  uva, mm.share[i].kva, g)
      create(i) == alloc_page_helper(
                     [mm EXCEPT !.share[i].key = key, !.share[i].ref = @ + 1,
                                !.share[i].kva = NextFrame(mm)],
                     uva, g, <<"key", key>>)
  IN  IF old # {} THEN attach(Min(old))
      ELSE IF new # {} THEN create(Min(new))
      ELSE mm

\* Mutant: the page goes with the first process that detaches it.
shm_page_dt_first(g, uva) ==
  LET kva == get_kva_of_uva(mm, uva, g)
      slots == {i \in 1 .. MAX_SHARE_PAGE_NUM : mm.share[i].kva = kva}
      i == Min(slots)
      m1 == [mm EXCEPT !.pt[g].pte = [u \in DOMAIN @ \ {uva} |-> @[u]]]
  IN  [free_page_with_kva(m1, kva) EXCEPT !.share[i] = [kva |-> 0, ref |-> 0, key |-> 0]]

\* The page table entry is cleared whatever page it maps; that of no page at all
\* is a null pointer.
shm_page_dt(g, uva) ==
  LET kva == get_kva_of_uva(mm, uva, g)
      slots == {i \in 1 .. MAX_SHARE_PAGE_NUM : mm.share[i].kva = kva}
      i == Min(slots)
      m1 == [mm EXCEPT !.pt[g].pte = [u \in DOMAIN @ \ {uva} |-> @[u]]]
      m2 == [m1 EXCEPT !.share[i].ref = @ - 1]
  IN  IF ~ Mapped(mm, uva, g) THEN halt(mm, "null")
      ELSE IF slots = {} THEN m1
      ELSE IF m2.share[i].ref # 0 THEN m2
      ELSE [free_page_with_kva(m2, kva) EXCEPT !.share[i].key = 0, !.share[i].kva = 0]

-----------------------------------------------------------------------------
(* The calls.  A failed assertion or a null pointer stops the kernel. *)

Commit(m) ==
  /\ mm.halted = ""
  /\ mm' = IF m.halted # "" THEN halt(mm, m.halted) ELSE m
  /\ UNCHANGED files

PagesOfTask(file, t) == {sz \div PAGE_SIZE : sz \in PagesOf(taskinfo(file)[t])}
PageBytes(Byte(_, _, _), file, t) ==
  [k \in PagesOfTask(file, t) |->
     [o \in 0 .. (PAGE_SIZE - 1) |-> Byte(file, t, k * PAGE_SIZE + o)]]

\* The pages of every task of every image, as they are loaded and as linked.
LoadedPages ==
  [file \in Images |-> [t \in DOMAIN taskinfo(file) |-> PageBytes(load_task_img, file, t)]]
LinkedPages ==
  [file \in Images |-> [t \in DOMAIN taskinfo(file) |-> PageBytes(ProgramByte, file, t)]]

load_page(g, bytes, n, k) ==
  IF n.halted # "" THEN n ELSE alloc_page_helper(n, Code(k), g, <<g, Code(k), bytes[k]>>)

\* do_exec, create_pcb, load_task_img and init_pcb_context.
do_exec(t) ==
  LET g == NextFrame(mm)
      bytes == LoadedPages[files][t]
      m0 == [kalloc(mm) EXCEPT !.pt = Put(@, g, [tab |-> <<>>, pte |-> <<>>, task |-> t])]
      m1 == FoldLeft(LAMBDA n, k : load_page(g, bytes, n, k),
                     m0, [i \in 1 .. Cardinality(DOMAIN bytes) |-> i - 1])
      m2 == [kalloc(m1) EXCEPT !.kstacks = @ \cup {NextFrame(m1)}]
  IN  /\ Cardinality(DOMAIN mm.pt) < NUM_MAX_TASK
      /\ Commit(IF m1.halted # "" THEN m1
                ELSE alloc_page_helper(m2, Stack, g, <<g, Stack, Zero>>))

\* find_idle_task has picked g, or q once g is gone (0 is the idle task).
Schedule(g) == Commit(swap_in_all_pages(mm, g))

do_exit(g, q) ==
  /\ q # g
  /\ LET m1 == free_pagetable(mm, g)
     IN  Commit(IF m1.halted # "" THEN m1 ELSE free_pgdir(swap_in_all_pages(m1, q), g))

do_kill(g) ==
  LET m1 == free_pagetable(mm, g)
  IN  Commit(IF m1.halted # "" THEN m1 ELSE free_pgdir(m1, g))

handle_page_fault(g, uva) ==
  LET i == SelectInSeq(mm.swapped, LAMBDA d : mm.pages[d].uva = uva /\ mm.pages[d].pgdir = g)
      m1 == IF mm.present_pages_num >= MAX_PRESENT_PFN THEN swap_out(mm) ELSE mm
  IN  Commit(IF get_kva_of_uva(mm, uva, g) = 0
             THEN alloc_page_helper(mm, uva, g, <<g, uva, Zero>>)
             ELSE IF i = 0 THEN halt(mm, "null")
             ELSE IF m1.halted # "" THEN m1 ELSE swap_in(m1, mm.swapped[i]))

\* The processor faults on a page that has no entry or none that is present.
Fault(g, uva) ==
  /\ Mapped(mm, uva, g) => ~ mm.pt[g].pte[uva].present
  /\ handle_page_fault(g, uva)

InWindow(uva) == uva \in {Window(j) : j \in 0 .. MaxAttach}
Attached(m, g) == {uva \in DOMAIN m.pt[g].pte : InWindow(uva)}

ShmGet(g, key) ==
  /\ Cardinality(Attached(mm, g)) < MaxAttach
  /\ Commit(shm_page_get(g, key))

ShmDt(g, uva) ==
  /\ uva \in Attached(mm, g) \/ "detach_any" \in Unsafe
  /\ Commit(shm_page_dt(g, uva))

\* The bounds, and no shared page among the swapped ones: the other processes
\* that attached it would go on using its frame.
InScope(m) ==
  /\ m.frontier <= MaxFrame + 1 /\ m.sector <= MaxSector
  /\ "swap_shared" \in Unsafe \/ \A d \in Range(m.swapped) : ~ InWindow(m.pages[d].uva)

Next ==
  /\ \/ \E t \in DOMAIN taskinfo(files) : do_exec(t)
     \/ \E g \in DOMAIN mm.pt :
          \/ Schedule(g)
          \/ \E q \in DOMAIN mm.pt \cup {0} : do_exit(g, q)
          \/ do_kill(g)
          \/ \E uva \in Heap \cup DOMAIN mm.pt[g].pte : Fault(g, uva) \/ ShmDt(g, uva)
          \/ \E key \in Keys : ShmGet(g, key)
  /\ InScope(mm')

Spec == Init /\ [][Next]_vars

-----------------------------------------------------------------------------
(* Properties *)

Frames == 1 .. (mm.frontier - 1)
Pte(g, uva) == mm.pt[g].pte[uva]

\* Types of the descriptors, of the page tables and of the free list.
TypeOK ==
  /\ files \in Images
  /\ mm.kstacks \subseteq Frames /\ Range(mm.free) \subseteq Frames
  /\ DOMAIN mm.mem = Frames /\ DOMAIN mm.pt \subseteq Frames
  /\ \A d \in 1 .. MAX_PFN : mm.pages[d].kva \in Frames \cup {0}
  /\ \A g \in DOMAIN mm.pt :
       /\ Range(mm.pt[g].tab) \subseteq Frames
       /\ \A uva \in DOMAIN mm.pt[g].pte :
            /\ Pte(g, uva).kva \in Frames
            /\ {<<uva[1]>>, <<uva[1], uva[2]>>} \subseteq DOMAIN mm.pt[g].tab
  /\ \A i \in DOMAIN mm.share : mm.share[i].ref \in Nat

\* No frame has two uses: freemem_list never holds a frame twice, nor one that
\* is a page table, a page directory, a kernel stack or a present user page.
Uses(f) ==
  {<<"free", i>> : i \in {j \in DOMAIN mm.free : mm.free[j] = f}}
  \cup {<<"stack", f>> : x \in mm.kstacks \cap {f}}
  \cup {<<"pgdir", f>> : x \in DOMAIN mm.pt \cap {f}}
  \cup (UNION {{<<"table", g, n>> : n \in {e \in DOMAIN mm.pt[g].tab : mm.pt[g].tab[e] = f}} :
               g \in DOMAIN mm.pt})
  \cup {<<"page", d>> : d \in {e \in Range(mm.present) : mm.pages[e].kva = f}}
FramesExclusive == \A f \in Frames : Cardinality(Uses(f)) <= 1

\* present_pages_num counts the present queue and keeps to its limit, and the
\* two queues hold every descriptor in use exactly once.
QueuesExact ==
  /\ mm.present_pages_num = Len(mm.present) /\ Len(mm.present) <= MAX_PRESENT_PFN
  /\ IsInjective(Queues(mm))
  /\ Range(Queues(mm)) = {d \in 1 .. MAX_PFN : mm.pages[d].used}

\* A process finds in its pages what was put there, in memory or after a swap:
\* each of its pages has one descriptor, which agrees with the page table; and
\* its program is in memory as it was linked.
Expected(g, uva) ==
  LET pages == LinkedPages[files][mm.pt[g].task]
  IN  <<g, uva, IF uva # Stack /\ uva \notin Heap THEN pages[uva[3]] ELSE Zero>>
PageKept ==
  \A g \in DOMAIN mm.pt : \A uva \in DOMAIN mm.pt[g].pte \ Attached(mm, g) :
    \E d \in 1 .. MAX_PFN :
      /\ {e \in 1 .. MAX_PFN : mm.pages[e].uva = uva /\ mm.pages[e].pgdir = g} = {d}
      /\ IF Pte(g, uva).present
         THEN /\ d \in Range(mm.present) /\ mm.pages[d].kva = Pte(g, uva).kva
              /\ mm.mem[Pte(g, uva).kva] = Expected(g, uva)
         ELSE /\ d \in Range(mm.swapped)
              /\ mm.swap[mm.pages[d].sector_id] = Expected(g, uva)

\* swap_out always finds the page table entry of the page it takes: a private
\* page's descriptor goes when its process goes.  This holds while a process
\* detaches only what it attached: shm_page_dt of another page clears the entry
\* and leaves the descriptor ("detach_any").
DescriptorsMapped ==
  \A d \in Range(Queues(mm)) :
    InWindow(mm.pages[d].uva) \/ Mapped(mm, mm.pages[d].uva, mm.pages[d].pgdir)

\* A shared page stays, with its contents, while a process has it attached:
\* its slot counts at least the attached pages, and its frame is not free.
SharedKept ==
  \A g \in DOMAIN mm.pt : \A uva \in Attached(mm, g) :
    \E i \in DOMAIN mm.share :
      LET f == mm.share[i].kva
          users == UNION {{<<h, u>> : u \in {v \in Attached(mm, h) : Pte(h, v).kva = f}} :
                          h \in DOMAIN mm.pt}
      IN  /\ Pte(g, uva).kva = f /\ f \notin Range(mm.free)
          /\ mm.mem[f] = <<"key", mm.share[i].key>>
          /\ Cardinality(users) <= mm.share[i].ref

\* The kernel never stops at an assertion: there is a descriptor for every
\* page that alloc_page_helper adds.
NoHalt == mm.halted = ""
=============================================================================
