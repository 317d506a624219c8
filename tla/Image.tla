------------------------------- MODULE Image -------------------------------
(***************************************************************************)
(* How a program gets from its ELF file into memory: createimage.c lays    *)
(* boot block, kernel and programs out in sectors, main.c reads the table  *)
(* of programs, loader.c reads a program's sectors into its pages.         *)
(*                                                                         *)
(* A file is a sequence of segments (program headers).  A byte of a file   *)
(* is named by the file, the segment and its place there; 0 is padding.    *)
(***************************************************************************)
EXTENDS Integers, Sequences, SequencesExt, FiniteSetsExt

CONSTANTS SECTOR_SIZE, SECTORS_PER_PAGE

ASSUME ImageAssumption ==
  SECTOR_SIZE \in Nat \ {0} /\ SECTORS_PER_PAGE \in Nat \ {0}

PAGE_SIZE == SECTOR_SIZE * SECTORS_PER_PAGE
Segment == [load : BOOLEAN, filesz : Nat, memsz : Nat]

NBYTES2SEC(n) == (n \div SECTOR_SIZE) + (IF n % SECTOR_SIZE # 0 THEN 1 ELSE 0)

Zeros(n) == [k \in 1 .. n |-> 0]
Bytes(f, s, n) == [k \in 1 .. n |-> <<f, s, k>>]

-----------------------------------------------------------------------------
(* createimage.c *)

\* write_segment writes loadable segments only.
write_segment(f, s, seg) ==
  IF seg.memsz # 0 /\ seg.load THEN Bytes(f, s, seg.filesz) ELSE <<>>

write_padding(img) ==
  img \o Zeros(NBYTES2SEC(Len(img)) * SECTOR_SIZE - Len(img))

\* Files 1 and 2 are the boot block and the kernel.
create_image(files) ==
  LET segments(f) == FlattenSeq([s \in DOMAIN files[f] |-> write_segment(f, s, files[f][s])])
  IN  FoldLeftDomain(LAMBDA img, f : write_padding(img \o segments(f)), <<>>, files)

\* The sizes that are recorded are those of all segments.
FileSize(file) == SumFunction([s \in DOMAIN file |-> file[s].filesz])
MemSize(file) == SumFunction([s \in DOMAIN file |-> file[s].memsz])

taskinfo(files) ==
  [t \in 1 .. (Len(files) - 2) |->
     [sectors_num |-> NBYTES2SEC(FileSize(files[t + 2])),
      filesz |-> FileSize(files[t + 2]), memsz |-> MemSize(files[t + 2])]]

-----------------------------------------------------------------------------
(* main.c and loader.c *)

\* init_task_info: the swap area starts behind the image and the task table.
kernel_sectors_num(files) == NBYTES2SEC(FileSize(files[2]))
disk_sectors_startid(files) == (Len(create_image(files)) \div SECTOR_SIZE) + 1

\* load_task_img: the pages of task t are at 0, PAGE_SIZE, ...
PagesOf(task) == {sz \in 0 .. (task.memsz - 1) : sz % PAGE_SIZE = 0}
BlocksRead(task, sz) ==
  IF sz >= task.filesz THEN 0
  ELSE Min({NBYTES2SEC(task.filesz - sz), SECTORS_PER_PAGE})

block_id(files, t, sz) ==
  LET tasks == taskinfo(files)
  IN  kernel_sectors_num(files) + 1
      + SumFunction([i \in 1 .. (t - 1) |-> tasks[i].sectors_num])
      + MapThenSumSet(LAMBDA z : BlocksRead(tasks[t], z),
                      {z \in PagesOf(tasks[t]) : z < sz})

\* Where the rest of the page at sz is cleared.
bss_start(task, sz) ==
  IF sz + PAGE_SIZE <= task.filesz THEN PAGE_SIZE
  ELSE IF (task.filesz \div PAGE_SIZE) * PAGE_SIZE = sz THEN task.filesz % PAGE_SIZE
  ELSE 0

\* The byte that is then at address a of the program; kalloc cleared the page.
load_task_img(files, t, a) ==
  LET task == taskinfo(files)[t]
      sz == (a \div PAGE_SIZE) * PAGE_SIZE
      o == a % PAGE_SIZE
      from == block_id(files, t, sz) * SECTOR_SIZE + o + 1
      img == create_image(files)
  IN  IF o >= bss_start(task, sz) \/ o >= BlocksRead(task, sz) * SECTOR_SIZE THEN 0
      ELSE IF from \in DOMAIN img THEN img[from] ELSE -1

-----------------------------------------------------------------------------

\* Files the builder handles: segments that are not loaded are empty, and only
\* the last segment has uninitialised data; the boot block fills one sector.
WellFormed(files) ==
  /\ Len(files) >= 2 /\ FileSize(files[1]) \in 1 .. SECTOR_SIZE
  /\ \A f \in DOMAIN files : \A s \in DOMAIN files[f] :
       LET seg == files[f][s]
       IN  /\ seg.filesz <= seg.memsz
           /\ ~ seg.load => seg.memsz = 0
           /\ s < Len(files[f]) => seg.filesz = seg.memsz

\* What the linker laid out: the segments one behind the other, the
\* uninitialised data zero.
ProgramByte(files, t, a) ==
  LET all == FlattenSeq([s \in DOMAIN files[t + 2] |->
               Bytes(t + 2, s, files[t + 2][s].filesz)])
  IN  IF a < Len(all) THEN all[a + 1] ELSE 0
=============================================================================
