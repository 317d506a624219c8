--------------------------------- MODULE Fs ---------------------------------
(***************************************************************************)
(* The file system (kernel/fs/fs.c): block map, inode map, inodes,         *)
(* directories and file descriptors, over a disk that may lose power       *)
(* between any two writes.                                                 *)
(*                                                                         *)
(* A system call runs with the kernel lock held, so no other call sees the *)
(* disk half written; only a power failure does.  A call is therefore the  *)
(* sequence of disks its writes (bios_sdwrite) leave, one per write.       *)
(* `todo' holds the part of that sequence still to come.                   *)
(*                                                                         *)
(* Bits and blocks are numbered as in the code: bit b of a map stands for  *)
(* inode or block b + 1; 0 is no inode and no block.                       *)
(***************************************************************************)
EXTENDS Integers, Sequences, SequencesExt

CONSTANTS W,                 \* bits of a map word (uint64_t)
          H,                 \* bits of an int, in which 1 << n is computed
          BWORDS, IWORDS,    \* words of the block map and of the inode map
          META,              \* blocks of the superblock, the maps and the inodes
          NDIRECT_BLOCKS, NINDIRECT_BLOCKS,
          BIGDATA,           \* data blocks of 8MB.dat
          NDENTRIES,         \* directory entries that fit into a block
          NBYTES_PER_BLOCK,
          NUM_FDESCS,
          Proc,              \* the processes
          Names, BigName,    \* names for new files; that of the test file
          Targets,           \* the paths that the other calls name
          Modes, Buffers,    \* how they open files and what they write
          Lengths, Offsets,  \* lengths for fread, offsets for lseek
          CrashIn,           \* the calls in which the power may fail
          Unsafe             \* uses that break the file system and a run admits

\* Legal calls that the code does not handle.  Each is in the model behind a
\* flag: a run with an empty Unsafe shows what holds without them.
\* "rm_open"     remove a file that a descriptor has open
\* "rmdir_used"  remove a directory that has entries or is a working directory
\* "link_dup"    link to a name that exists, or link a directory
\* "open_dir"    open a directory as a file
\* "cross_block" read or write across the end of a block
\* "indirect"    read or write behind the direct blocks
\* "mkfs_used"   make a file system again after files were created in it
ASSUME FsAssumption ==
  /\ H \in Nat \ {0, 1} /\ W = 2 * H
  /\ BWORDS \in Nat \ {0} /\ IWORDS \in Nat \ {0}
  /\ META \in Nat \ {0} /\ META + BIGDATA + 4 <= BWORDS * W
  /\ NDIRECT_BLOCKS \in Nat \ {0} /\ NINDIRECT_BLOCKS \in Nat \ {0}
  /\ BIGDATA \in Nat /\ BIGDATA - NDIRECT_BLOCKS - NINDIRECT_BLOCKS \in 0 .. NINDIRECT_BLOCKS
  /\ NDENTRIES \in Nat /\ NDENTRIES > 2
  /\ NBYTES_PER_BLOCK \in Nat \ {0} /\ NUM_FDESCS \in Nat
  /\ BigName \notin {".", ".."} /\ Names \cap {".", ".."} = {}
  /\ Targets \subseteq Names \cup {BigName, ".", ".."}
  /\ Modes \subseteq {"O_RDONLY", "O_WRONLY", "O_RDWR"}
  /\ \A b \in Buffers : b \in Seq(Nat) /\ b # <<>>
  /\ Lengths \subseteq Nat \ {0} /\ Offsets \subseteq Int

\* The blocks that mkfs places end in the lower half of a map word: the root
\* directory and the direct blocks of 8MB.dat have their bits there, and the
\* bits of the whole file end there or with a word (2119 = 33 * 64 + 7).
ASSUME LayoutAssumption ==
  /\ \A k \in 0 .. NDIRECT_BLOCKS : (META + 1 + k) % W \in 1 .. H
  /\ (META + BIGDATA + 1) % W < H

Inum == 1 .. (IWORDS * W)
Blk == (META + 1) .. (BWORDS * W)
Direct == 1 .. NDIRECT_BLOCKS
Fd == 1 .. NUM_FDESCS
Path == Names \cup {BigName, ".", ".."}
ROOT_DIR_INUM == 1
TEST_BIG_FILE_INUM == 2

Dentry == [valid : BOOLEAN, inum : Nat, name : Path]
Inode == [type : {"NONE", "FILE", "DIRECTORY"}, size : Nat, ref : Nat,
          direct : [Direct -> Nat], indirect : Nat, double_indirect : Nat]

\* What a block holds: directory entries, the bytes of a file, or the numbers
\* of other blocks.  A write replaces all of it.
Content == [dentries : Seq(Dentry), bytes : [1 .. NBYTES_PER_BLOCK -> Int],
            ptrs : [1 .. NINDIRECT_BLOCKS -> Nat]]

ZeroBytes == [j \in 1 .. NBYTES_PER_BLOCK |-> 0]
ZeroBlock == [dentries |-> <<>>, bytes |-> ZeroBytes,
              ptrs |-> [j \in 1 .. NINDIRECT_BLOCKS |-> 0]]
ZeroInode == [type |-> "NONE", size |-> 0, ref |-> 0, direct |-> [k \in Direct |-> 0],
              indirect |-> 0, double_indirect |-> 0]
NoFile == [inum |-> 0, read |-> FALSE, write |-> FALSE, offset |-> 0]

VARIABLES disk,    \* the SD card: magic, bmap, imap, inodes and blocks
          todo,    \* the disks that the writes of the running call will leave
          doing,   \* the running call, and the inode a write began with
          fdesc,   \* fdesc_array
          cwd      \* cwd_inum of each process; 0 before the file system is up

memory == <<fdesc, cwd>>
vars == <<disk, todo, doing, fdesc, cwd>>

-----------------------------------------------------------------------------
(* The bitmaps *)

\* The bits that (uint64_t)(1 << n) sets: the shift is one of an int, takes n
\* modulo its width, and bit H - 1 is the sign, which the conversion extends.
ShiftOne(n) ==
  LET k == n % H IN IF k = H - 1 THEN k .. (W - 1) ELSE {k}

\* Those bits in the word that holds bit b.
BitsAt(word, n) == {word * W + k : k \in ShiftOne(n)}

\* Its first clear bit, for maps that have one.
FirstZero(map, size) ==
  CHOOSE b \in 0 .. (size - 1) : b \notin map /\ 0 .. (b - 1) \subseteq map

\* s is the sequence of disks so far; the last one is the current one.
Write(s, field, value) == Append(s, [Last(s) EXCEPT ![field] = value])

\* alloc_inode and alloc_block set the first clear bit; the number follows.
alloc_inode(s) ==
  LET b == FirstZero(Last(s).imap, IWORDS * W)
  IN  [s |-> Write(s, "imap", Last(s).imap \cup BitsAt(b \div W, b % W)), num |-> b + 1]

\* Mutant: the number of the bit, which is that of the block before.
alloc_block_bit(s) ==
  LET b == FirstZero(Last(s).bmap, BWORDS * W)
  IN  [s |-> Write(s, "bmap", Last(s).bmap \cup BitsAt(b \div W, b % W)), num |-> b]

alloc_block(s) ==
  LET b == FirstZero(Last(s).bmap, BWORDS * W)
  IN  [s |-> Write(s, "bmap", Last(s).bmap \cup BitsAt(b \div W, b % W)), num |-> b + 1]

\* Mutant: the bit of the number, not of the number less one.
FreedBits_next(n) == BitsAt(n \div W, n % W)

\* free_inode and free_block find the word from the number and the bit from
\* the number less one.
FreedBits(n) == BitsAt(n \div W, (n % W) - 1)
free_inode(s, n) == Write(s, "imap", Last(s).imap \ FreedBits(n))

\* f with value v at x.  A number outside the table writes outside of it: the
\* disk then has an inode, or a block, that its type does not have.
Put(f, x, v) == [y \in DOMAIN f \cup {x} |-> IF y = x THEN v ELSE f[y]]
write_inode(s, i, inode) == Write(s, "inodes", Put(Last(s).inodes, i, inode))
write_block(s, b, c) == Write(s, "blocks", Put(Last(s).blocks, b, c))

\* The loops that free the direct blocks of an inode, in order.
free_blocks(s, inode) ==
  LET bits(k) == IF inode.direct[k] = 0 THEN {} ELSE FreedBits(inode.direct[k])
  IN  s \o [k \in Direct |->
              [Last(s) EXCEPT !.bmap = @ \ UNION {bits(l) : l \in 1 .. k}]]

-----------------------------------------------------------------------------
(* Directories.  The code never gives a directory a second block. *)

DirBlock(d, i) == d.inodes[i].direct[1]
Dentries(d, i) == d.blocks[DirBlock(d, i)].dentries

\* Mutant: removed entries are found too.
Hits_removed(d, i, n) ==
  {j \in DOMAIN Dentries(d, i) : Dentries(d, i)[j].name = n}

\* The positions of the valid entries called n.
Hits(d, i, n) ==
  {j \in DOMAIN Dentries(d, i) : Dentries(d, i)[j].valid /\ Dentries(d, i)[j].name = n}
FirstHit(d, i, n) == CHOOSE j \in Hits(d, i, n) : \A k \in Hits(d, i, n) : j <= k

\* parse_path: the inode named n in directory i, 0 if none.  Paths have one
\* component: the code compares an entry with the whole rest of the path.
parse_path(d, i, n) ==
  IF Hits(d, i, n) = {} THEN 0 ELSE Dentries(d, i)[FirstHit(d, i, n)].inum

\* Entries are appended, also after removed ones.
append_dentry(s, i, n, inum) ==
  LET d == Last(s)
  IN  write_block(s, DirBlock(d, i),
        [ZeroBlock EXCEPT !.dentries =
           Append(Dentries(d, i), [valid |-> TRUE, inum |-> inum, name |-> n])])

\* The first valid entry called n becomes invalid; it keeps its inode number.
remove_dentry(s, i, n) ==
  LET d == Last(s)
  IN  write_block(s, DirBlock(d, i),
        [ZeroBlock EXCEPT !.dentries =
           [Dentries(d, i) EXCEPT ![FirstHit(d, i, n)].valid = FALSE]])

\* init_dir_inode: a directory that holds "." and "..".
init_dir_inode(s, parent) ==
  LET a == alloc_inode(s)
      b == alloc_block(a.s)
      inode == [ZeroInode EXCEPT !.type = "DIRECTORY", !.ref = 1, !.direct[1] = b.num]
  IN  [num |-> a.num,
       s |-> write_block(write_inode(b.s, a.num, inode), b.num,
               [ZeroBlock EXCEPT !.dentries =
                  <<[valid |-> TRUE, inum |-> a.num, name |-> "."],
                    [valid |-> TRUE, inum |-> parent, name |-> ".."]>>])]

\* The writes of each call that changes the disk, after its checks: i is the
\* working directory.
\* Mutant: the name is written before the directory.
mkdir_name_first(s, i, n) ==
  init_dir_inode(append_dentry(s, i, n, alloc_inode(s).num), i).s

mkdir(s, i, n) ==
  LET new == init_dir_inode(s, i) IN append_dentry(new.s, i, n, new.num)

\* Mutant: the name is written before the inode that it leads to.
touch_name_first(s, i, n) ==
  LET a == alloc_inode(s)
      inode == [ZeroInode EXCEPT !.type = "FILE", !.ref = 1]
  IN  write_inode(append_dentry(a.s, i, n, a.num), a.num, inode)

touch(s, i, n) ==
  LET a == alloc_inode(s)
      inode == [ZeroInode EXCEPT !.type = "FILE", !.ref = 1]
  IN  append_dentry(write_inode(a.s, a.num, inode), i, n, a.num)

rmdir(s, i, n) ==
  LET x == parse_path(Last(s), i, n)
  IN  free_blocks(free_inode(remove_dentry(s, i, n), x), Last(s).inodes[x])

\* Mutant: the new name is not counted.
ln_uncounted(s, i, src, dst) ==
  append_dentry(s, i, dst, parse_path(Last(s), i, src))

ln(s, i, src, dst) ==
  LET x == parse_path(Last(s), i, src)
      inode == [Last(s).inodes[x] EXCEPT !.ref = @ + 1]
  IN  write_inode(append_dentry(s, i, dst, x), x, inode)

rm(s, i, n) ==
  LET x == parse_path(Last(s), i, n)
      inode == [Last(s).inodes[x] EXCEPT !.ref = @ - 1]
      gone == remove_dentry(s, i, n)
  IN  IF inode.ref > 0
      THEN write_inode(gone, x, inode)
      ELSE free_blocks(free_inode(gone, x), inode)

\* init_bigfile fills in 8MB.dat: its direct blocks, a block of block numbers,
\* and a block that names one more such block.
init_bigfile(s) ==
  LET at == META + 2 + NDIRECT_BLOCKS
      double == at + NINDIRECT_BLOCKS + 1
      inode == [Last(s).inodes[TEST_BIG_FILE_INUM] EXCEPT
                  !.direct = [k \in Direct |-> META + 1 + k], !.indirect = at,
                  !.double_indirect = double, !.size = BIGDATA * NBYTES_PER_BLOCK]
      table(n) == [ZeroBlock EXCEPT !.ptrs = n]
      Ptr == 1 .. NINDIRECT_BLOCKS
      rest == BIGDATA - NDIRECT_BLOCKS - NINDIRECT_BLOCKS
      b == Write(s, "bmap", 0 .. (META + BIGDATA))
      t == write_block(b, at, table([j \in Ptr |-> at + j]))
      u == write_block(t, double, table([j \in Ptr |-> IF j = 1 THEN double + 1 ELSE 0]))
      v == write_block(u, double + 1,
             table([j \in Ptr |-> IF j <= rest THEN double + 1 + j ELSE 0]))
  IN  write_inode(v, TEST_BIG_FILE_INUM, inode)

\* do_mkfs: superblock, maps, root directory, test file.
mkfs(s) ==
  LET maps == Write(Write(Write(s, "magic", TRUE), "bmap", 0 .. (META - 1)), "imap", {})
      root == init_dir_inode(maps, ROOT_DIR_INUM)
  IN  init_bigfile(touch(root.s, ROOT_DIR_INUM, BigName))

-----------------------------------------------------------------------------
(* The blocks of a file *)

\* offset_to_blk: the block that holds byte `off' of the file, 0 if none.
offset_to_blk(d, off, inode) ==
  LET k == off \div NBYTES_PER_BLOCK
      k2 == k - NDIRECT_BLOCKS - NINDIRECT_BLOCKS
      ptr(b, j) == d.blocks[b].ptrs[j + 1]
  IN  IF k < NDIRECT_BLOCKS THEN inode.direct[k + 1]
      ELSE IF k2 < 0 THEN ptr(inode.indirect, k - NDIRECT_BLOCKS)
      ELSE ptr(ptr(inode.double_indirect, k2 \div NINDIRECT_BLOCKS),
               k2 % NINDIRECT_BLOCKS)

\* set_inode_blk_num: the inode, or the table, that names the new block.
set_inode_blk_num(s, off, new, inode, i) ==
  LET k == off \div NBYTES_PER_BLOCK
      k2 == k - NDIRECT_BLOCKS - NINDIRECT_BLOCKS
      d == Last(s)
      set(b, j) == write_block(s, b, [d.blocks[b] EXCEPT !.ptrs[j + 1] = new])
  IN  IF k < NDIRECT_BLOCKS THEN write_inode(s, i, [inode EXCEPT !.direct[k + 1] = new])
      ELSE IF k2 < 0 THEN set(inode.indirect, k - NDIRECT_BLOCKS)
      ELSE set(d.blocks[inode.double_indirect].ptrs[(k2 \div NINDIRECT_BLOCKS) + 1],
               k2 % NINDIRECT_BLOCKS)

\* The bytes of a block; directory entries and block numbers are not text.
Junk == [j \in 1 .. NBYTES_PER_BLOCK |-> -1]
Bytes(c) == IF c.dentries = <<>> /\ c.ptrs = ZeroBlock.ptrs THEN c.bytes ELSE Junk

\* Of `length' bytes at `off', those in the first block.
PieceLen(off, length) ==
  LET room == NBYTES_PER_BLOCK - (off % NBYTES_PER_BLOCK)
  IN  IF length > room THEN room ELSE length

-----------------------------------------------------------------------------
(* System calls *)

Task0 == CHOOSE p \in Proc : TRUE   \* the shell, which main() starts

State(op) == [op |-> op, fd |-> 0, inode |-> ZeroInode, off |-> 0, buf |-> <<>>, done |-> 0]
Off == State("off")
Idle == State("idle")

\* Process p makes a call: the file system is up and no other call runs.
Call(p) == doing = Idle /\ cwd[p] # 0

\* A call `op' starts to write; the disks of s, after the first, are to come.
Start(op, s) ==
  /\ doing' = State(op)
  /\ todo' = Tail(s)
  /\ UNCHANGED disk

\* A call that only changes memory.
Silent == UNCHANGED <<disk, todo, doing>>

\* A free inode, and a free block, are left; a directory has room.
InodeLeft == ~ 0 .. (IWORDS * W - 1) \subseteq disk.imap
BlockLeft == ~ 0 .. (BWORDS * W - 1) \subseteq disk.bmap
Room(i) == Len(Dentries(disk, i)) < NDENTRIES

IsOpen(i) == \E fd \in Fd : fdesc[fd].inum = i

do_mkfs(p) ==
  /\ Call(p)
  /\ \/ "mkfs_used" \in Unsafe
     \/ Len(Dentries(disk, ROOT_DIR_INUM)) = 3
  /\ Start("mkfs", mkfs(<<disk>>))
  /\ cwd' = [cwd EXCEPT ![p] = ROOT_DIR_INUM]
  /\ UNCHANGED fdesc

do_cd(p, n) ==
  LET i == parse_path(disk, cwd[p], n)
  IN  /\ Call(p)
      /\ i # 0 /\ disk.inodes[i].type # "FILE"
      /\ cwd' = [cwd EXCEPT ![p] = i]
      /\ Silent
      /\ UNCHANGED fdesc

do_mkdir(p, n) ==
  /\ Call(p)
  /\ parse_path(disk, cwd[p], n) = 0
  /\ InodeLeft /\ BlockLeft /\ Room(cwd[p])
  /\ Start("mkdir", mkdir(<<disk>>, cwd[p], n))
  /\ UNCHANGED memory

\* Nothing keeps a directory that is in use.
do_rmdir(p, n) ==
  LET i == parse_path(disk, cwd[p], n)
  IN  /\ Call(p)
      /\ i # 0 /\ disk.inodes[i].type # "FILE"
      /\ \/ "rmdir_used" \in Unsafe
         \/ /\ n \notin {".", ".."}
            /\ \A j \in DOMAIN Dentries(disk, i) :
                 Dentries(disk, i)[j].valid => Dentries(disk, i)[j].name \in {".", ".."}
            /\ \A q \in Proc : cwd[q] # i
      /\ Start("rmdir", rmdir(<<disk>>, cwd[p], n))
      /\ UNCHANGED memory

do_touch(p, n) ==
  /\ Call(p)
  /\ parse_path(disk, cwd[p], n) = 0
  /\ InodeLeft /\ Room(cwd[p])
  /\ Start("touch", touch(<<disk>>, cwd[p], n))
  /\ UNCHANGED memory

do_ln(p, src, dst) ==
  LET i == parse_path(disk, cwd[p], src)
  IN  /\ Call(p)
      /\ src # dst /\ i # 0
      /\ \/ "link_dup" \in Unsafe
         \/ disk.inodes[i].type = "FILE" /\ parse_path(disk, cwd[p], dst) = 0
      /\ Room(cwd[p])
      /\ Start("ln", ln(<<disk>>, cwd[p], src, dst))
      /\ UNCHANGED memory

do_rm(p, n) ==
  LET i == parse_path(disk, cwd[p], n)
  IN  /\ Call(p)
      /\ i # 0 /\ disk.inodes[i].type = "FILE"
      /\ "rm_open" \in Unsafe \/ ~ IsOpen(i)
      /\ Start("rm", rm(<<disk>>, cwd[p], n))
      /\ UNCHANGED memory

-----------------------------------------------------------------------------
(* Calls that only read and print *)

\* do_ls prints the valid entries; in long mode it also reads their inodes.
ls(d, i) == {e \in Range(Dentries(d, i)) : e.valid}

do_ls(p, n) ==
  LET i == IF n = "" THEN cwd[p] ELSE parse_path(disk, cwd[p], n)
  IN  /\ Call(p)
      /\ i # 0 /\ disk.inodes[i].type # "FILE"
      /\ UNCHANGED vars

\* do_cat prints the direct blocks up to the first zero; a block that is not
\* allocated is read too, as block 0, which holds the superblock (Junk).
cat(d, i) ==
  LET Cells == 0 .. (NDIRECT_BLOCKS * NBYTES_PER_BLOCK - 1)
      blk(c) == d.inodes[i].direct[(c \div NBYTES_PER_BLOCK) + 1]
      cell(c) == (IF blk(c) = 0 THEN Junk ELSE Bytes(d.blocks[blk(c)]))
                   [(c % NBYTES_PER_BLOCK) + 1]
      shown == {c \in Cells : \A l \in 0 .. c : cell(l) # 0}
  IN  [c \in shown |-> cell(c)]

do_cat(p, n) ==
  LET i == parse_path(disk, cwd[p], n)
  IN  /\ Call(p)
      /\ i # 0 /\ disk.inodes[i].type # "DIRECTORY"
      /\ UNCHANGED vars

\* do_statfs counts the set bits of the maps: blocks up to the first empty
\* word, inodes up to the first word that is less than half full.
popcnt(map, w) == Cardinality({b \in map : b \div W = w})
Counted(map, few) ==
  {b \in map : \A w \in 0 .. ((b \div W) - 1) : popcnt(map, w) >= few}

statfs(d) == [blocks_used |-> Cardinality(Counted(d.bmap, 1)),
              inodes_used |-> Cardinality(Counted(d.imap, H))]

do_statfs(p) == Call(p) /\ UNCHANGED vars

-----------------------------------------------------------------------------
(* Descriptors *)

\* do_fopen takes the first free descriptor; it keeps no note of the process.
do_fopen(p, n, mode) ==
  LET i == parse_path(disk, cwd[p], n)
  IN  /\ Call(p)
      /\ i # 0
      /\ "open_dir" \in Unsafe \/ disk.inodes[i].type = "FILE"
      /\ \E fd \in Fd :
           /\ fdesc[fd].inum = 0 /\ \A e \in 1 .. (fd - 1) : fdesc[e].inum # 0
           /\ fdesc' = [fdesc EXCEPT ![fd].inum = i,
                          ![fd].read = mode \in {"O_RDONLY", "O_RDWR"},
                          ![fd].write = mode \in {"O_WRONLY", "O_RDWR"}]
      /\ Silent
      /\ UNCHANGED cwd

do_fclose(p, fd) ==
  /\ Call(p)
  /\ fdesc[fd].inum # 0
  /\ fdesc' = [fdesc EXCEPT ![fd] = NoFile]
  /\ Silent
  /\ UNCHANGED cwd

\* do_lseek: the offset stays between 0 and the size of the file.
Seek(whence, offset, cur, size) ==
  LET base == CASE whence = "SEEK_SET" -> 0 [] whence = "SEEK_CUR" -> cur
                [] whence = "SEEK_END" -> size
      to == base + offset
  IN  IF offset >= 0 THEN (IF to > size THEN size ELSE to)
      ELSE (IF to >= 0 /\ whence # "SEEK_SET" THEN to ELSE 0)

do_lseek(p, fd, offset, whence) ==
  /\ Call(p)
  /\ fdesc[fd].inum # 0
  /\ fdesc' = [fdesc EXCEPT ![fd].offset =
                 Seek(whence, offset, @, disk.inodes[fdesc[fd].inum].size)]
  /\ Silent
  /\ UNCHANGED cwd

\* The bytes off .. off + length - 1 of a file that a call may touch.  Behind the
\* direct blocks only those of 8MB.dat: in a file without an indirect block the
\* code takes block 0 for the table, which is left out under every flag.
InReach(off, length, inode) ==
  /\ "cross_block" \in Unsafe \/ PieceLen(off, length) = length
  /\ \/ off + length <= NDIRECT_BLOCKS * NBYTES_PER_BLOCK
     \/ /\ "indirect" \in Unsafe /\ inode.indirect # 0
        /\ off + length <= (NDIRECT_BLOCKS + 2 * NINDIRECT_BLOCKS) * NBYTES_PER_BLOCK

\* do_fread reads block by block, each to the start of the caller's buffer,
\* and stops at a block that is not allocated.
fread(d, i, off, length) ==
  {n \in 0 .. length :
     \A o \in off .. (off + n - 1) : offset_to_blk(d, o, d.inodes[i]) # 0}

do_fread(p, fd, length) ==
  LET off == fdesc[fd].offset
      i == fdesc[fd].inum
  IN  /\ Call(p)
      /\ fdesc[fd].read
      /\ InReach(off, length, disk.inodes[i])
      /\ fdesc' = [fdesc EXCEPT ![fd].offset = off + Max(fread(disk, i, off, length))]
      /\ Silent
      /\ UNCHANGED cwd

do_fwrite(p, fd, buf) ==
  LET inode == disk.inodes[fdesc[fd].inum]
      off == fdesc[fd].offset
      end == off + Len(buf)
  IN  /\ Call(p)
      /\ fdesc[fd].write
      /\ InReach(off, Len(buf), inode)
      /\ fdesc' = [fdesc EXCEPT ![fd].offset = end]
      /\ doing' = [op |-> "fwrite", fd |-> fd, off |-> off, buf |-> buf, done |-> 0,
                   inode |-> [inode EXCEPT !.size = IF end > @ THEN end ELSE @]]
      /\ UNCHANGED <<disk, todo, cwd>>

\* Mutant: the position in the block is forgotten.
Copied_front(bytes, at, buf, n) ==
  [j \in DOMAIN bytes |-> IF j \in 1 .. n THEN buf[j] ELSE bytes[j]]

\* The bytes of a block after n bytes of buf were copied to position at.
Copied(bytes, at, buf, n) ==
  [j \in DOMAIN bytes |-> IF j \in (at + 1) .. (at + n) THEN buf[j - at] ELSE bytes[j]]

\* A pass of its loop, for one block.  Every pass copies from the start of the
\* caller's buffer.
FwritePiece ==
  LET i == fdesc[doing.fd].inum
      off == doing.off + doing.done
      blk == offset_to_blk(disk, off, doing.inode)
      n == PieceLen(off, Len(doing.buf) - doing.done)
      at == off % NBYTES_PER_BLOCK
      new == alloc_block(<<disk>>)
      named == set_inode_blk_num(new.s, off, new.num, doing.inode, i)
      filled(bytes) == [ZeroBlock EXCEPT !.bytes = Copied(bytes, at, doing.buf, n)]
      k == (off \div NBYTES_PER_BLOCK) + 1
      next == [doing EXCEPT !.done = @ + n]
  IN  /\ doing.op = "fwrite" /\ todo = <<>> /\ doing.done < Len(doing.buf)
      /\ \/ /\ blk = 0 /\ BlockLeft
            /\ todo' = Tail(write_block(named, new.num, filled(ZeroBytes)))
            /\ doing' = [next EXCEPT !.inode.direct =
                           IF k \in Direct THEN [@ EXCEPT ![k] = new.num] ELSE @]
         \/ /\ blk # 0
            /\ todo' = Tail(write_block(<<disk>>, blk, filled(Bytes(disk.blocks[blk]))))
            /\ doing' = next
      /\ UNCHANGED <<disk, memory>>

FwriteEnd ==
  /\ doing.op = "fwrite" /\ todo = <<>> /\ doing.done = Len(doing.buf)
  /\ todo' = Tail(write_inode(<<disk>>, fdesc[doing.fd].inum, doing.inode))
  /\ doing' = [doing EXCEPT !.op = "fwrite_end"]
  /\ UNCHANGED <<disk, memory>>

-----------------------------------------------------------------------------
(* Processes, the disk and the power *)

\* do_exec: the new process starts in its creator's directory.
do_exec(p, q) ==
  /\ Call(p) /\ cwd[q] = 0
  /\ cwd' = [cwd EXCEPT ![q] = cwd[p]]
  /\ Silent
  /\ UNCHANGED fdesc

\* do_exit: the descriptors of a process stay open.
do_exit(p) ==
  /\ Call(p) /\ p # Task0
  /\ cwd' = [cwd EXCEPT ![p] = 0]
  /\ Silent
  /\ UNCHANGED fdesc

\* The next write of the running call; after the last one the call returns.
bios_sdwrite ==
  /\ todo # <<>>
  /\ disk' = Head(todo)
  /\ todo' = Tail(todo)
  /\ doing' = IF Len(todo) > 1 \/ doing.op = "fwrite" THEN doing ELSE Idle
  /\ UNCHANGED memory

\* The power fails: what was not written is lost, and so is the memory.
PowerFail ==
  /\ doing.op \in CrashIn
  /\ doing' = Off
  /\ todo' = <<>>
  /\ fdesc' = [fd \in Fd |-> NoFile]
  /\ cwd' = [p \in Proc |-> 0]
  /\ UNCHANGED disk

\* init_superblock, called by main(): a disk without the magic number is made
\* into a file system.
init_superblock ==
  /\ doing = Off
  /\ cwd' = [cwd EXCEPT ![Task0] = ROOT_DIR_INUM]
  /\ \/ disk.magic /\ doing' = Idle /\ UNCHANGED <<disk, todo>>
     \/ ~ disk.magic /\ Start("mkfs", mkfs(<<disk>>))
  /\ UNCHANGED fdesc

Init ==
  /\ disk = [magic |-> FALSE, bmap |-> {}, imap |-> {},
             inodes |-> [i \in Inum |-> ZeroInode], blocks |-> [b \in Blk |-> ZeroBlock]]
  /\ todo = <<>>
  /\ doing = Off
  /\ fdesc = [fd \in Fd |-> NoFile]
  /\ cwd = [p \in Proc |-> 0]

SysCall(p) ==
  \/ do_mkfs(p) \/ do_statfs(p) \/ do_ls(p, "")
  \/ \E n \in Names : do_mkdir(p, n) \/ do_touch(p, n)
  \/ \E n \in Targets : do_cd(p, n) \/ do_rmdir(p, n) \/ do_rm(p, n) \/ do_cat(p, n) \/ do_ls(p, n)
  \/ \E n \in Targets, m \in Names : do_ln(p, n, m)
  \/ \E n \in Targets, mode \in Modes : do_fopen(p, n, mode)
  \/ \E fd \in Fd :
       \/ do_fclose(p, fd)
       \/ \E offset \in Offsets, whence \in {"SEEK_SET", "SEEK_CUR", "SEEK_END"} :
            do_lseek(p, fd, offset, whence)
       \/ \E length \in Lengths : do_fread(p, fd, length)
       \/ \E buf \in Buffers : do_fwrite(p, fd, buf)
  \/ \E q \in Proc : do_exec(p, q)
  \/ do_exit(p)

Next ==
  \/ \E p \in Proc : SysCall(p)
  \/ FwritePiece \/ FwriteEnd \/ bios_sdwrite \/ PowerFail \/ init_superblock

Spec == Init /\ [][Next]_vars

-----------------------------------------------------------------------------
(* Properties *)

TypeOK ==
  /\ disk.magic \in BOOLEAN
  /\ disk.bmap \subseteq 0 .. (BWORDS * W - 1)
  /\ disk.imap \subseteq 0 .. (IWORDS * W - 1)
  /\ disk.inodes \in [Inum -> Inode]
  /\ DOMAIN disk.blocks = Blk /\ \A b \in Blk : disk.blocks[b] \in Content
  /\ fdesc \in [Fd -> [inum : Nat, read : BOOLEAN, write : BOOLEAN, offset : Nat]]
  /\ cwd \in [Proc -> Nat]

\* The valid entries of directory i.
Valid(d, i) == {Dentries(d, i)[j] : j \in {j \in DOMAIN Dentries(d, i) : Dentries(d, i)[j].valid}}

\* A set of inodes that holds the root and all that its directories name.
Closed(d, U) ==
  /\ ROOT_DIR_INUM \in U
  /\ \A i \in U : d.inodes[i].type = "DIRECTORY" => \A e \in Valid(d, i) : e.inum \in U

\* The inodes that can be reached from the root, of those ever written.
Made(d) == {i \in Inum : d.inodes[i] # ZeroInode}
InUse(d) ==
  LET closed == {U \in SUBSET Made(d) : Closed(d, U)}
  IN  {i \in Made(d) : \A U \in closed : i \in U}

\* While mkfs runs, or after it was interrupted, there is no file system.
Mounted == doing.op \notin {"mkfs", "off"}

\* Every direct block of a reachable inode is marked in the block map and
\* belongs to it alone, and the inode is marked in the inode map: alloc_block
\* and alloc_inode give nothing away twice, also after power failures.
Owned(d, i, j) ==
  /\ i - 1 \in d.imap
  /\ \A k \in Direct : d.inodes[i].direct[k] # 0 =>
       /\ d.inodes[i].direct[k] - 1 \in d.bmap
       /\ \A l \in Direct : d.inodes[i].direct[k] = d.inodes[j].direct[l] => i = j /\ k = l

DirectOwned == Mounted => \A i, j \in InUse(disk) : Owned(disk, i, j)

\* The working directories and the open descriptors lead to reachable inodes.
HandlesLive ==
  Mounted =>
    /\ \A p \in Proc : cwd[p] # 0 => cwd[p] \in InUse(disk)
    /\ \A fd \in Fd : fdesc[fd].inum # 0 => fdesc[fd].inum \in InUse(disk)

\* The entries of the directories among U that are names of x.
NamesOf(d, U, x) ==
  {e \in U \X (1 .. NDENTRIES) :
     /\ d.inodes[e[1]].type = "DIRECTORY"
     /\ e[2] \in DOMAIN Dentries(d, e[1])
     /\ LET n == Dentries(d, e[1])[e[2]]
        IN  n.valid /\ n.inum = x /\ n.name \notin {".", ".."}}

\* A file has at least as many references as names, so that rm frees no file
\* that a name still leads to.
LinksCounted ==
  Mounted /\ doing.op # "ln" =>
    LET in == InUse(disk)
    IN  \A x \in in : disk.inodes[x].type = "FILE" =>
          Cardinality(NamesOf(disk, in, x)) <= disk.inodes[x].ref

\* A write that has ended is in the file: each byte of the buffer is in the
\* block that do_fread will look up for its offset.
FwriteStores ==
  doing.op = "fwrite_end" =>
    \A j \in DOMAIN doing.buf :
      LET off == doing.off + j - 1
          blk == offset_to_blk(disk, off, disk.inodes[fdesc[doing.fd].inum])
      IN  blk # 0 /\ Bytes(disk.blocks[blk])[(off % NBYTES_PER_BLOCK) + 1] = doing.buf[j]

\* The assertion of print_dentry (ls -l): what a name leads to is a file or a
\* directory, never an inode that was not written yet.
LsAssert ==
  Mounted => \A i \in InUse(disk) : disk.inodes[i].type = "DIRECTORY" =>
    \A e \in ls(disk, i) : disk.inodes[e.inum].type \in {"FILE", "DIRECTORY"}

\* No block belongs to two files or directories, nor twice to one, counting
\* what the block tables name.
Tables(d, i) ==
  LET x == d.inodes[i]
      ptrs(b) == IF b = 0 THEN {} ELSE Range(d.blocks[b].ptrs) \ {0}
  IN  UNION ({{x.indirect}, {x.double_indirect}, ptrs(x.indirect), ptrs(x.double_indirect)}
             \cup {ptrs(b) : b \in ptrs(x.double_indirect)})
BlocksOf(d, i) == (Range(d.inodes[i].direct) \cup Tables(d, i)) \ {0}

BlocksUnshared ==
  Mounted => \A i, j \in InUse(disk) : i # j => BlocksOf(disk, i) \cap BlocksOf(disk, j) = {}

-----------------------------------------------------------------------------
(* The store that a disk holds *)

Ready == disk.magic /\ doing.op # "mkfs"
NoStore == [ready |-> FALSE, ents |-> {}, dirs |-> {}, files |-> <<>>]

StoreOf(d) ==
  LET in == InUse(d)
      is(type) == {i \in in : d.inodes[i].type = type}
      entries(i) == {e \in Valid(d, i) : e.name \notin {".", ".."}}
      seen(b) == IF b = 0 THEN <<>> ELSE Bytes(d.blocks[b])
  IN  [ready |-> TRUE,
       ents  |-> UNION {{<<i, e.name, e.inum>> : e \in entries(i)} : i \in is("DIRECTORY")},
       dirs  |-> is("DIRECTORY"),
       files |-> [x \in is("FILE") |->
                    [size |-> d.inodes[x].size,
                     blocks |-> [k \in Direct |-> seen(d.inodes[x].direct[k])]]]]
=============================================================================
