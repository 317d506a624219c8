---------------------------- MODULE StoreProofs ----------------------------
(***************************************************************************)
(* The file system implements the store (FileStore), for all sizes of the  *)
(* maps, of the disk and of a directory.                                   *)
(*                                                                         *)
(* On a disk that is Fine the store is read off the inodes that the root   *)
(* reaches (StoreIs).  FsProofs shows that one write of a call is a Move:  *)
(* it changes no name and no file, adds a name, removes one, or changes a  *)
(* block of one file.  Each kind is a step of the store or none (the       *)
(* lemmas named ...Step), and the last write of mkfs makes the store.      *)
(***************************************************************************)
EXTENDS FsProofs, MCFs

-----------------------------------------------------------------------------
(* The store of a disk *)

FileAt(d, x) ==
  [size |-> d.inodes[x].size,
   blocks |-> [k \in Direct |-> IF d.inodes[x].direct[k] = 0 THEN <<>>
                                ELSE Bytes(d.blocks[d.inodes[x].direct[k]])]]

DirsOf(d, I) == {i \in I : IsDir(d, i)}
FileIds(d, I) == {x \in I : IsFile(d, x)}
FilesOf(d, I) == [x \in FileIds(d, I) |-> FileAt(d, x)]

\* t is the triple of a name.
Ent(d, I, t) ==
  \E i \in I, j \in Nat : \E x : Leads(d, i, j, x) /\ t = <<i, Dentries(d, i)[j].name, x>>

LEMMA StoreIs ==
  ASSUME NEW d \in Disk, NEW I, Fine(d, I)
  PROVE  /\ StoreOf(d) = [ready |-> TRUE, ents |-> StoreOf(d).ents, dirs |-> DirsOf(d, I),
                          files |-> FilesOf(d, I)]
         /\ \A t : t \in StoreOf(d).ents <=> Ent(d, I, t)
<1> DEFINE is(type) == {i \in I : d.inodes[i].type = type}
           entries(i) == {e \in Valid(d, i) : e.name \notin {".", ".."}}
           ents == UNION {{<<i, e.name, e.inum>> : e \in entries(i)} : i \in is("DIRECTORY")}
           seen(b) == IF b = 0 THEN <<>> ELSE Bytes(d.blocks[b])
           files == [x \in is("FILE") |->
                      [size |-> d.inodes[x].size,
                       blocks |-> [k \in Direct |-> seen(d.inodes[x].direct[k])]]]
<1>1. InUse(d) = I
  BY ReachIs DEF Fine
<1>2. StoreOf(d) = [ready |-> TRUE, ents |-> ents, dirs |-> is("DIRECTORY"), files |-> files]
  BY <1>1 DEF StoreOf
<1>3. is("DIRECTORY") = DirsOf(d, I) /\ is("FILE") = FileIds(d, I)
  BY DEF DirsOf, FileIds, IsDir, IsFile
<1>4. files = FilesOf(d, I)
  BY <1>3 DEF FilesOf, FileAt
<1>5. \A t : t \in ents <=> \E i \in is("DIRECTORY") : \E e \in entries(i) : t = <<i, e.name, e.inum>>
  <2> DEFINE of(i) == {<<i, e.name, e.inum>> : e \in entries(i)}
             S == is("DIRECTORY")
  <2> SUFFICES ASSUME NEW t PROVE t \in ents <=> \E i \in S : \E e \in entries(i) : t = <<i, e.name, e.inum>>
    OBVIOUS
  <2>1. t \in ents <=> \E i \in S : t \in of(i)
    <3>1. ents = UNION {of(i) : i \in S}
      OBVIOUS
    <3> HIDE DEF of, ents, S
    <3> QED
      BY <3>1
  <2>2. \A i : t \in of(i) <=> \E e \in entries(i) : t = <<i, e.name, e.inum>>
    <3> HIDE DEF entries
    <3> QED
      OBVIOUS
  <2> HIDE DEF of, ents, S, entries
  <2> QED
    BY <2>1, <2>2
<1> HIDE DEF ents, files, is
<1>6. ASSUME NEW i \in I, IsDir(d, i)
      PROVE  \A t : (\E e \in entries(i) : t = <<i, e.name, e.inum>>) <=>
                    (\E j \in Nat : \E x : Leads(d, i, j, x) /\ t = <<i, Dentries(d, i)[j].name, x>>)
  <2> DEFINE n == Len(Dentries(d, i))
  <2>1. Dirs(d, I)
    BY DEF Fine
  <2>2. n \in Nat /\ n >= 2 /\ DOMAIN Dentries(d, i) = 1 .. n
    BY <1>6, <2>1, EntriesOf
  <2>3. Dentries(d, i)[1].name = "." /\ Dentries(d, i)[2].name = ".."
    <3>1. Dentries(d, i)[1] = [valid |-> TRUE, inum |-> i, name |-> "."] /\ Dentries(d, i)[2].name = ".."
      BY <1>6, <2>1 DEF Dirs
    <3> QED
      BY <3>1
  <2>4. \A j \in 3 .. n : Dentries(d, i)[j].name \notin {".", ".."}
    BY <1>6, <2>1 DEF Dirs
  <2>5. \A j, x : Leads(d, i, j, x) <=>
          j \in 3 .. n /\ Dentries(d, i)[j].valid /\ x = Dentries(d, i)[j].inum
    BY <1>6 DEF Leads
  <2>6. \A e : e \in entries(i) <=>
          \E j \in 1 .. n : Dentries(d, i)[j].valid /\ e = Dentries(d, i)[j] /\ e.name \notin {".", ".."}
    BY <2>2 DEF Valid
  <2> HIDE DEF n, entries
  <2>7. \A j : j \in 3 .. n <=> j \in 1 .. n /\ j # 1 /\ j # 2
    BY <2>2
  <2>8. \A e : e \in entries(i) <=>
          \E j \in 3 .. n : Dentries(d, i)[j].valid /\ e = Dentries(d, i)[j]
    BY <2>3, <2>4, <2>6, <2>7
  <2>9. \A j \in 3 .. n : j \in Nat
    BY <2>2
  <2> QED
    BY <2>5, <2>8, <2>9
<1>7. \A t : t \in ents <=> Ent(d, I, t)
  <2> SUFFICES ASSUME NEW t PROVE t \in ents <=> Ent(d, I, t)
    OBVIOUS
  <2>1. t \in ents <=> \E i \in is("DIRECTORY") : \E e \in entries(i) : t = <<i, e.name, e.inum>>
    BY <1>5, Zenon
  <2>2. \A i : i \in is("DIRECTORY") <=> i \in I /\ IsDir(d, i)
    BY <1>3 DEF DirsOf
  <2>3. \A i, j, x : Leads(d, i, j, x) => IsDir(d, i)
    BY DEF Leads
  <2> HIDE DEF entries
  <2>4. \A i \in I : IsDir(d, i) =>
          ((\E e \in entries(i) : t = <<i, e.name, e.inum>>) <=>
           (\E j \in Nat : \E x : Leads(d, i, j, x) /\ t = <<i, Dentries(d, i)[j].name, x>>))
    BY <1>6
  <2>5. Ent(d, I, t) <=> \E i \in I : IsDir(d, i) /\
          \E j \in Nat : \E x : Leads(d, i, j, x) /\ t = <<i, Dentries(d, i)[j].name, x>>
    BY <2>3 DEF Ent
  <2> QED
    BY <2>1, <2>2, <2>4, <2>5
<1>8. StoreOf(d) = [ready |-> TRUE, ents |-> ents, dirs |-> DirsOf(d, I), files |-> FilesOf(d, I)]
  BY <1>2, <1>3, <1>4, Zenon
<1>9. StoreOf(d).ents = ents
  BY <1>8
<1> QED
  BY <1>7, <1>8, <1>9

\* Two disks with the same names and files hold the same store.
LEMMA SameStore ==
  ASSUME NEW d \in Disk, NEW e \in Disk, NEW I, NEW J, Fine(d, I), Fine(e, J),
         \A t : Ent(e, J, t) <=> Ent(d, I, t),
         DirsOf(e, J) = DirsOf(d, I), FilesOf(e, J) = FilesOf(d, I)
  PROVE  StoreOf(e) = StoreOf(d)
<1>1. \A t : t \in StoreOf(d).ents <=> t \in StoreOf(e).ents
  BY StoreIs
<1>2. StoreOf(d).ents = StoreOf(e).ents
  BY <1>1
<1> QED
  BY <1>2, StoreIs

\* Files and directories are apart.
LEMMA Apart ==
  ASSUME NEW d, NEW I, Fine(d, I)
  PROVE  /\ \A i : ~ (IsDir(d, i) /\ IsFile(d, i))
         /\ \A i \in I : IsDir(d, i) \/ IsFile(d, i)
         /\ I \subseteq Inum
BY FineOf DEF IsDir, IsFile, Fine, Kinds

LEMMA FileSame ==
  ASSUME NEW d, NEW e, NEW x, SameFile(d, e, x)
  PROVE  FileAt(e, x) = FileAt(d, x)
BY DEF SameFile, FileAt

\* What a file holds.
LEMMA FileType ==
  ASSUME NEW d \in Disk, NEW I, Fine(d, I), NEW x \in I
  PROVE  /\ FileAt(d, x).size \in Nat /\ FileAt(d, x) \in Store!File
         /\ \A k \in Direct : d.inodes[x].direct[k] # 0 =>
              FileAt(d, x).blocks[k] \in [1 .. NBYTES_PER_BLOCK -> Int]
<1>1. x \in Inum /\ Own(d, I)
  BY FineOf DEF Fine
<1>2. d.inodes[x] \in Inode
  BY <1>1 DEF Disk
<1>3. d.inodes[x].size \in Nat
  BY <1>2 DEF Inode
<1>4. ASSUME NEW k \in Direct, d.inodes[x].direct[k] # 0
      PROVE  Bytes(d.blocks[d.inodes[x].direct[k]]) \in [1 .. NBYTES_PER_BLOCK -> Int]
  <2>1. d.inodes[x].direct[k] \in Blk
    BY <1>1, <1>4 DEF Own
  <2>2. d.blocks[d.inodes[x].direct[k]] \in Content
    BY <2>1 DEF Disk
  <2> QED
    BY <2>2, BytesIn
<1>5. FileAt(d, x).blocks \in [Direct -> [1 .. NBYTES_PER_BLOCK -> Int] \cup {<<>>}]
  BY <1>4 DEF FileAt
<1>6. FileAt(d, x) = [size |-> d.inodes[x].size, blocks |-> FileAt(d, x).blocks]
  BY DEF FileAt
<1>7. FileAt(d, x) \in Store!File
  BY <1>3, <1>5, <1>6 DEF Store!File
<1> QED
  BY <1>3, <1>4, <1>7 DEF FileAt

-----------------------------------------------------------------------------
(* Writes that change no name *)

LEMMA AlikeNames ==
  ASSUME NEW d, NEW e, NEW I, Fine(d, I), Alike(d, e, I)
  PROVE  /\ \A t : Ent(e, I, t) <=> Ent(d, I, t)
         /\ DirsOf(e, I) = DirsOf(d, I) /\ FileIds(e, I) = FileIds(d, I)
<1>1. \A i \in I : (IsDir(e, i) <=> IsDir(d, i)) /\ (IsFile(e, i) <=> IsFile(d, i))
  BY DEF Alike, IsDir, IsFile
<1>2. \A i \in I : IsDir(d, i) => Dentries(e, i) = Dentries(d, i)
  BY DEF Alike, IsDir
<1>3. \A i \in I : \A j, x : Leads(e, i, j, x) <=> Leads(d, i, j, x)
  BY <1>1, <1>2 DEF Leads
<1>4. \A i \in I : \A j, x : Leads(d, i, j, x) => Dentries(e, i)[j].name = Dentries(d, i)[j].name
  BY <1>2 DEF Leads
<1>5. \A t : Ent(e, I, t) <=> Ent(d, I, t)
  BY <1>3, <1>4 DEF Ent
<1> QED
  BY <1>1, <1>5 DEF DirsOf, FileIds

\* A write that changes no name and no file.
LEMMA QuietStep ==
  ASSUME NEW d \in Disk, NEW e \in Disk, NEW I, Fine(d, I), Quiet(d, e, I)
  PROVE  StoreOf(e) = StoreOf(d)
<1>1. Fine(e, I) /\ Alike(d, e, I)
  BY DEF Quiet
<1>2. \A x \in FileIds(d, I) : FileAt(e, x) = FileAt(d, x)
  BY FileSame DEF Quiet, FileIds
<1>3. FilesOf(e, I) = FilesOf(d, I)
  BY <1>1, <1>2, AlikeNames DEF FilesOf
<1> QED
  BY <1>1, <1>3, AlikeNames, SameStore

\* A write of one block of a file.
LEMMA PutStep ==
  ASSUME NEW d \in Disk, NEW e \in Disk, NEW I, Fine(d, I), Puts(d, e, I),
         store = StoreOf(d), store' = StoreOf(e)
  PROVE  Store!Next
<1>1. PICK x \in I, k \in Direct :
        /\ IsFile(d, x) /\ Fine(e, I) /\ Alike(d, e, I)
        /\ \A y \in I \ {x} : IsFile(d, y) => SameFile(d, e, y)
        /\ e.inodes[x].size >= d.inodes[x].size /\ e.inodes[x].direct[k] # 0
        /\ \A l \in Direct \ {k} :
             /\ e.inodes[x].direct[l] = d.inodes[x].direct[l]
             /\ d.inodes[x].direct[l] # 0 =>
                  e.blocks[d.inodes[x].direct[l]] = d.blocks[d.inodes[x].direct[l]]
  BY DEF Puts
<1>2. /\ store.ready = TRUE /\ store'.ready = TRUE
      /\ store.dirs = DirsOf(d, I) /\ store'.dirs = DirsOf(e, I)
      /\ store.files = FilesOf(d, I) /\ store'.files = FilesOf(e, I)
      /\ \A t : t \in store.ents <=> Ent(d, I, t)
      /\ \A t : t \in store'.ents <=> Ent(e, I, t)
  BY <1>1, StoreIs
<1>3. store'.dirs = store.dirs /\ FileIds(e, I) = FileIds(d, I)
      /\ \A t : t \in store'.ents <=> t \in store.ents
  BY <1>1, <1>2, AlikeNames
<1>4. DOMAIN store.files = FileIds(d, I) /\ x \in FileIds(d, I)
      /\ \A y \in FileIds(d, I) : store.files[y] = FileAt(d, y) /\ store'.files[y] = FileAt(e, y)
  BY <1>1, <1>2, <1>3 DEF FilesOf, FileIds
<1> DEFINE f == FileAt(d, x)
           g == FileAt(e, x)
<1>5. /\ f = [size |-> f.size, blocks |-> f.blocks] /\ g = [size |-> g.size, blocks |-> g.blocks]
      /\ f.size = d.inodes[x].size /\ g.size = e.inodes[x].size
      /\ f.blocks = [l \in Direct |-> f.blocks[l]] /\ g.blocks = [l \in Direct |-> g.blocks[l]]
      /\ \A l \in Direct \ {k} : g.blocks[l] = f.blocks[l]
  BY <1>1 DEF FileAt
<1>6. g.blocks[k] \in [1 .. NBYTES_PER_BLOCK -> Int] /\ g.size \in Nat /\ g.size >= f.size
  BY <1>1, <1>5, FileType
<1> HIDE DEF f, g
<1>7. g = [f EXCEPT !.blocks[k] = g.blocks[k], !.size = g.size]
  <2> DEFINE b == [f.blocks EXCEPT ![k] = g.blocks[k]]
  <2>1. b = g.blocks
    BY <1>5
  <2>2. [f EXCEPT !.blocks = b, !.size = g.size] = [size |-> g.size, blocks |-> b]
    <3>1. f = [size |-> f.size, blocks |-> f.blocks]
      BY <1>5
    <3> DEFINE h == [f EXCEPT !.blocks = b]
    <3> HIDE DEF b
    <3>2. h = [size |-> f.size, blocks |-> b]
      BY <3>1
    <3> HIDE DEF h
    <3>3. [h EXCEPT !.size = g.size] = [size |-> g.size, blocks |-> b]
      BY <3>2
    <3> QED
      BY <3>3 DEF h
  <2> QED
    BY <1>5, <2>1, <2>2
<1>8. \A y \in FileIds(d, I) \ {x} : FileAt(e, y) = FileAt(d, y)
  BY <1>1, FileSame DEF FileIds
<1>9. store'.files = [store.files EXCEPT ![x] = g]
  <2>1. store.files = [y \in FileIds(d, I) |-> FileAt(d, y)]
        /\ store'.files = [y \in FileIds(d, I) |-> FileAt(e, y)]
    BY <1>2, <1>3 DEF FilesOf
  <2> QED
    BY <1>4, <1>8, <2>1 DEF g
<1>10. store'.files[x] = g /\ store.files[x] = f /\ store'.ents = store.ents
  BY <1>3, <1>4 DEF f, g
<1>11. store'.files = [store.files EXCEPT ![x].blocks[k] = store'.files[x].blocks[k],
                                          ![x].size = store'.files[x].size]
  <2>1. [store.files EXCEPT ![x].blocks[k] = g.blocks[k], ![x].size = g.size]
          = [store.files EXCEPT ![x] = [f EXCEPT !.blocks[k] = g.blocks[k], !.size = g.size]]
    BY <1>4, <1>10
  <2> QED
    BY <1>7, <1>9, <1>10, <2>1
<1>12. Store!Put(x, k)
  BY <1>2, <1>3, <1>4, <1>6, <1>10, <1>11 DEF Store!Put
<1> QED
  BY <1>4, <1>12 DEF Store!Next

-----------------------------------------------------------------------------
(* Writes of a directory *)

\* The files keep what they hold.
LEMMA FilesStay ==
  ASSUME NEW d \in Disk, NEW e, NEW I, Fine(d, I), Rest(d, e, {"blocks"}), NEW p \in I, IsDir(d, p),
         \A b \in Blk \ {DirBlock(d, p)} : e.blocks[b] = d.blocks[b]
  PROVE  \A y \in FileIds(d, I) : FileAt(e, y) = FileAt(d, y)
<1> SUFFICES ASSUME NEW y \in FileIds(d, I) PROVE FileAt(e, y) = FileAt(d, y)
  OBVIOUS
<1>1. y \in I /\ IsFile(d, y) /\ y # p /\ 1 \in Direct
  BY FsAssumption DEF FileIds, IsFile, IsDir, Direct
<1>2. ASSUME NEW k \in Direct, d.inodes[y].direct[k] # 0
      PROVE  e.blocks[d.inodes[y].direct[k]] = d.blocks[d.inodes[y].direct[k]]
  <2>1. Own(d, I)
    BY DEF Fine
  <2>2. d.inodes[y].direct[k] \in Blk /\ d.inodes[y].direct[k] # d.inodes[p].direct[1]
    BY <1>1, <1>2, <2>1 DEF Own
  <2> QED
    BY <2>2 DEF DirBlock
<1>3. e.inodes = d.inodes
  BY DEF Rest
<1> QED
  BY <1>2, <1>3, FileSame DEF SameFile

\* A name is added.
LEMMA GainStep ==
  ASSUME NEW d \in Disk, NEW e \in Disk, NEW I, Fine(d, I), Gains(d, e, I),
         store = StoreOf(d), store' = StoreOf(e)
  PROVE  Store!Next
<1>1. PICK p \in I, n \in Path : \E x :
        /\ Nameable(d, I, p, x) /\ Fits(d, p, n) /\ Added(d, e, p, x, n)
        /\ x \notin I /\ IsFile(d, x) =>
             d.inodes[x].size = 0 /\ \A k \in Direct : d.inodes[x].direct[k] = 0
  BY DEF Gains
<1>2. PICK x :
        /\ Nameable(d, I, p, x) /\ Fits(d, p, n) /\ Added(d, e, p, x, n)
        /\ x \notin I /\ IsFile(d, x) =>
             d.inodes[x].size = 0 /\ \A k \in Direct : d.inodes[x].direct[k] = 0
  BY <1>1
<1> DEFINE J == I \cup {x}
           l == Len(Dentries(d, p)) + 1
           t0 == <<p, n, x>>
<1>3. /\ Fine(e, J)
      /\ \A i \in J : \A j, y : Leads(e, i, j, y) <=> Leads(d, i, j, y) \/ (i = p /\ j = l /\ y = x)
  BY <1>2, AddFine
<1>4. /\ p # x /\ (x \notin I \/ ~ IsDir(d, x))
      /\ \A i : (IsDir(e, i) <=> IsDir(d, i)) /\ (IsFile(e, i) <=> IsFile(d, i))
      /\ \A i \in J : IsDir(d, i) /\ i # p => Dentries(e, i) = Dentries(d, i)
      /\ l \in Nat /\ DOMAIN Dentries(d, p) = 1 .. (l - 1)
      /\ \A j \in DOMAIN Dentries(d, p) : Dentries(e, p)[j] = Dentries(d, p)[j]
      /\ Dentries(e, p)[l] = [valid |-> TRUE, inum |-> x, name |-> n]
  <2>1. /\ p # x /\ (x \notin I \/ ~ IsDir(d, x))
        /\ \A i : (IsDir(e, i) <=> IsDir(d, i)) /\ (IsFile(e, i) <=> IsFile(d, i))
        /\ \A i \in I \cup {x} : IsDir(d, i) /\ i # p => Dentries(e, i) = Dentries(d, i)
    BY <1>2, AddedEntries
  <2>2. /\ Len(Dentries(d, p)) \in Nat
        /\ DOMAIN Dentries(d, p) = 1 .. Len(Dentries(d, p))
        /\ \A j \in DOMAIN Dentries(d, p) : Dentries(e, p)[j] = Dentries(d, p)[j]
        /\ Dentries(e, p)[Len(Dentries(d, p)) + 1] = [valid |-> TRUE, inum |-> x, name |-> n]
    BY <1>2, AddedEntries
  <2>3. Len(Dentries(d, p)) = l - 1 /\ l \in Nat
    BY <2>2
  <2> QED
    BY <2>1, <2>2, <2>3
<1>5. Dentries(e, p)[l].name = n
  BY <1>4
<1>6. /\ x \in Inum /\ IsDir(d, p) /\ n \in Path \ {".", ".."} /\ Rest(d, e, {"blocks"})
      /\ \A b \in Blk \ {DirBlock(d, p)} : e.blocks[b] = d.blocks[b]
      /\ \A j \in DOMAIN Dentries(d, p) : Dentries(d, p)[j].valid => Dentries(d, p)[j].name # n
      /\ IsDir(d, x) \/ IsFile(d, x)
  BY <1>2 DEF Nameable, Fits, Added
<1>7. \A j, y : ~ Leads(d, x, j, y) \/ x \in I
  <2>1. x \notin I /\ IsDir(d, x) => Len(Dentries(d, x)) = 2
    BY <1>2 DEF Nameable, IsDir, IsFile
  <2>2. 3 .. 2 = {}
    OBVIOUS
  <2> QED
    BY <2>1, <2>2 DEF Leads
<1> HIDE DEF l
<1>8. \A i \in I : \A j, y : Leads(d, i, j, y) =>
        Dentries(e, i)[j].name = Dentries(d, i)[j].name /\ (i = p => Dentries(d, i)[j].name # n)
  <2> SUFFICES ASSUME NEW i \in I, NEW j, NEW y, Leads(d, i, j, y)
               PROVE  /\ Dentries(e, i)[j].name = Dentries(d, i)[j].name
                      /\ i = p => Dentries(d, i)[j].name # n
    OBVIOUS
  <2>1. IsDir(d, i) /\ Dentries(d, i)[j].valid /\ j \in 3 .. Len(Dentries(d, i))
    BY DEF Leads
  <2>2. Dirs(d, I)
    BY DEF Fine
  <2>3. j \in DOMAIN Dentries(d, i)
    BY <2>1, <2>2, EntriesOf
  <2> QED
    BY <1>4, <1>6, <2>1, <2>3
<1>9. \A t : Ent(e, J, t) <=> Ent(d, I, t) \/ t = t0
  <2> SUFFICES ASSUME NEW t PROVE Ent(e, J, t) <=> Ent(d, I, t) \/ t = t0
    OBVIOUS
  <2>1. ASSUME Ent(e, J, t)
        PROVE  Ent(d, I, t) \/ t = t0
    <3>1. PICK i \in J, j \in Nat : \E y : Leads(e, i, j, y) /\ t = <<i, Dentries(e, i)[j].name, y>>
      BY <2>1 DEF Ent
    <3>2. PICK y : Leads(e, i, j, y) /\ t = <<i, Dentries(e, i)[j].name, y>>
      BY <3>1
    <3>3. CASE i = p /\ j = l /\ y = x
      BY <1>5, <3>2, <3>3
    <3>4. CASE Leads(d, i, j, y)
      <4>1. i \in I
        BY <1>7, <3>4
      <4>2. t = <<i, Dentries(d, i)[j].name, y>>
        BY <1>8, <3>2, <3>4, <4>1
      <4> QED
        BY <3>4, <4>1, <4>2 DEF Ent
    <3> QED
      BY <1>3, <3>2, <3>3, <3>4
  <2>2. ASSUME Ent(d, I, t)
        PROVE  Ent(e, J, t)
    <3>1. PICK i \in I, j \in Nat : \E y : Leads(d, i, j, y) /\ t = <<i, Dentries(d, i)[j].name, y>>
      BY <2>2 DEF Ent
    <3>2. PICK y : Leads(d, i, j, y) /\ t = <<i, Dentries(d, i)[j].name, y>>
      BY <3>1
    <3>3. i \in J /\ Leads(e, i, j, y) /\ t = <<i, Dentries(e, i)[j].name, y>>
      BY <1>3, <1>8, <3>2
    <3> QED
      BY <3>3 DEF Ent
  <2>3. ASSUME t = t0
        PROVE  Ent(e, J, t)
    <3>1. p \in J /\ Leads(e, p, l, x) /\ t = <<p, Dentries(e, p)[l].name, x>>
      BY <1>3, <1>5, <2>3
    <3> QED
      BY <1>4, <3>1 DEF Ent
  <2> QED
    BY <2>1, <2>2, <2>3
<1>10. ~ Ent(d, I, t0) /\ \A t : Ent(d, I, t) => p # t[1] \/ n # t[2]
  <2> SUFFICES ASSUME NEW t, Ent(d, I, t) PROVE p # t[1] \/ n # t[2]
    OBVIOUS
  <2>1. PICK i \in I, j \in Nat : \E y : Leads(d, i, j, y) /\ t = <<i, Dentries(d, i)[j].name, y>>
    BY DEF Ent
  <2> QED
    BY <1>8, <2>1
<1>11. /\ store.ready = TRUE /\ store'.ready = TRUE
       /\ store.dirs = DirsOf(d, I) /\ store'.dirs = DirsOf(e, J)
       /\ store.files = FilesOf(d, I) /\ store'.files = FilesOf(e, J)
       /\ \A t : t \in store.ents <=> Ent(d, I, t)
       /\ \A t : t \in store'.ents <=> Ent(e, J, t)
  BY <1>3, StoreIs
<1>12. /\ store'.ents = store.ents \cup {t0} /\ t0 \in store'.ents \ store.ents
       /\ \A t \in store.ents : t0[1] # t[1] \/ t0[2] # t[2]
  BY <1>9, <1>10, <1>11
<1>13. t0[1] = p /\ t0[2] = n /\ t0[3] = x
  OBVIOUS
<1>14. Store!New(t0)
  BY <1>6, <1>11, <1>12, <1>13 DEF Store!New, DirsOf
<1>15. \A y \in FileIds(d, I) : FileAt(e, y) = FileAt(d, y)
  BY <1>6, FilesStay
<1>16. DOMAIN store.files = FileIds(d, I) /\ \A y \in FileIds(d, I) : store.files[y] = FileAt(d, y)
  BY <1>11 DEF FilesOf
<1>17. \A i \in I : ~ (IsDir(d, i) /\ IsFile(d, i))
  BY Apart
<1> HIDE DEF t0
<1>18. CASE x \in I
  <2>1. IsFile(d, x) /\ J = I
    BY <1>4, <1>6, <1>18
  <2>2. store'.dirs = store.dirs
    BY <1>4, <1>11, <2>1 DEF DirsOf
  <2>3. FileIds(e, J) = FileIds(d, I)
    BY <1>4, <2>1 DEF FileIds
  <2>4. store'.files = store.files
    BY <1>11, <1>15, <2>3 DEF FilesOf
  <2>5. x \in DOMAIN store.files
    BY <1>16, <1>18, <2>1 DEF FileIds
  <2>6. Store!Ln(t0)
    BY <1>11, <1>12, <1>13, <1>14, <2>2, <2>4, <2>5 DEF Store!Ln
  <2> QED
    BY <1>12, <2>6 DEF Store!Next
<1>19. CASE x \notin I
  <2>1. x \notin store.dirs /\ x \notin DOMAIN store.files /\ x \in Store!Fresh
    BY <1>6, <1>11, <1>16, <1>19 DEF Store!Fresh, DirsOf, FileIds
  <2>2. CASE IsFile(d, x)
    <3>1. ~ IsDir(d, x)
      BY <2>2 DEF IsFile, IsDir
    <3>2. store'.dirs = store.dirs
      BY <1>4, <1>11, <3>1 DEF DirsOf
    <3>3. FileIds(e, J) = FileIds(d, I) \cup {x}
      BY <1>4, <2>2 DEF FileIds
    <3>4. FileAt(e, x) = Store!Empty
      <4>1. e.inodes = d.inodes
        BY <1>6 DEF Rest
      <4> QED
        BY <1>2, <1>19, <2>2, <4>1 DEF FileAt, Store!Empty
    <3>5. store'.files = [y \in DOMAIN store.files \cup {t0[3]} |->
                            IF y = t0[3] THEN Store!Empty ELSE store.files[y]]
      BY <1>11, <1>13, <1>15, <1>16, <3>3, <3>4 DEF FilesOf
    <3>6. Store!Touch(t0)
      BY <1>11, <1>12, <1>13, <1>14, <2>1, <3>2, <3>5 DEF Store!Touch
    <3> QED
      BY <1>12, <3>6 DEF Store!Next
  <2>3. CASE IsDir(d, x)
    <3>1. ~ IsFile(d, x)
      BY <2>3 DEF IsFile, IsDir
    <3>2. store'.dirs = store.dirs \cup {x}
      BY <1>4, <1>11, <2>3 DEF DirsOf
    <3>3. FileIds(e, J) = FileIds(d, I)
      BY <1>4, <3>1 DEF FileIds
    <3>4. store'.files = store.files
      BY <1>11, <1>15, <3>3 DEF FilesOf
    <3>5. Store!Mkdir(t0)
      BY <1>11, <1>12, <1>13, <1>14, <2>1, <3>2, <3>4 DEF Store!Mkdir
    <3> QED
      BY <1>12, <3>5 DEF Store!Next
  <2> QED
    BY <1>6, <2>2, <2>3
<1> QED
  BY <1>18, <1>19

\* Every file in use has a name: without it, the rest would be closed.
LEMMA FileNamed ==
  ASSUME NEW d \in Disk, NEW I, Fine(d, I), NEW x \in I, IsFile(d, x)
  PROVE  \E i \in I, j \in Nat : Leads(d, i, j, x)
<1> SUFFICES ASSUME \A i \in I, j \in Nat : ~ Leads(d, i, j, x) PROVE FALSE
  OBVIOUS
<1> DEFINE V == I \ {x}
<1>1. /\ I \subseteq Inum /\ ROOT_DIR_INUM \in I
      /\ \A i \in I : \A y : Kid(d, i, y) => y \in I
      /\ \A U \in SUBSET Inum :
           ROOT_DIR_INUM \in U /\ (\A i \in U : \A y : Kid(d, i, y) => y \in U) => I \subseteq U
  BY ReachOf DEF Fine
<1>2. x # ROOT_DIR_INUM /\ ~ IsDir(d, x)
  BY DEF Fine, Kinds, IsDir, IsFile
<1>3. ASSUME NEW i \in V, NEW y, Kid(d, i, y)
      PROVE  y \in V
  <2>1. IsDir(d, i) /\ i \in I /\ i # x
    BY <1>3 DEF Kid
  <2>2. y = i \/ y = Dentries(d, i)[2].inum \/ \E j \in Nat : Leads(d, i, j, y)
    BY <1>3, <2>1, KidIs
  <2>3. IsDir(d, Dentries(d, i)[2].inum)
    BY <2>1, KidIs
  <2>4. y # x
    BY <1>2, <2>1, <2>2, <2>3
  <2> QED
    BY <1>1, <1>3, <2>4
<1>4. V \in SUBSET Inum /\ ROOT_DIR_INUM \in V
  BY <1>1, <1>2
<1>5. I \subseteq V
  <2> HIDE DEF V
  <2> QED
    BY <1>1, <1>3, <1>4
<1> QED
  BY <1>5

\* A name is removed; a file goes with its last name.
LEMMA LoseStep ==
  ASSUME NEW d \in Disk, NEW e \in Disk, NEW I, Fine(d, I), Loses(d, e, I),
         store = StoreOf(d), store' = StoreOf(e)
  PROVE  Store!Next
<1>1. PICK p \in I : \E x, j0 : Leads(d, p, j0, x) /\ Removable(d, x) /\ Removed(d, e, p, j0)
  BY DEF Loses
<1>2. PICK x, j0 : Leads(d, p, j0, x) /\ Removable(d, x) /\ Removed(d, e, p, j0)
  BY <1>1
<1> DEFINE J == LeftOf(d, I, p, j0, x)
           n == Dentries(d, p)[j0].name
           t0 == <<p, n, x>>
<1>3. Fine(e, J)
  BY <1>2, RemoveFine
<1>4. x \in I /\ x # ROOT_DIR_INUM /\ x # p /\ (IsDir(d, x) => J = I \ {x})
  BY <1>2, RemoveReach
<1>5. J \subseteq I /\ I \ {x} \subseteq J
      /\ (x \in J <=> \E i \in I, j \in Nat : Leads(d, i, j, x) /\ ~ (i = p /\ j = j0))
  BY <1>4 DEF LeftOf
<1>6. /\ \A i : (IsDir(e, i) <=> IsDir(d, i)) /\ (IsFile(e, i) <=> IsFile(d, i))
      /\ \A i \in I : \A j, y : Leads(e, i, j, y) <=> Leads(d, i, j, y) /\ ~ (i = p /\ j = j0)
  BY <1>2, RemovedEntries
<1>7. \A i \in I : IsDir(d, i) =>
        \A j \in DOMAIN Dentries(d, i) : Dentries(e, i)[j].name = Dentries(d, i)[j].name
  BY <1>2, RemovedEntries
<1> HIDE DEF J
<1>8. /\ IsDir(d, p) /\ Rest(d, e, {"blocks"}) /\ j0 \in Nat
      /\ \A b \in Blk \ {DirBlock(d, p)} : e.blocks[b] = d.blocks[b]
      /\ IsFile(d, x) \/ \A j, y : ~ Leads(d, x, j, y)
      /\ \A i, j, y : Leads(d, i, j, y) => IsDir(d, i)
  <2>1. j0 \in 3 .. Len(Dentries(d, p)) /\ IsDir(d, p)
    BY <1>2 DEF Leads
  <2>2. Len(Dentries(d, p)) \in Nat
    BY <2>1, EntriesOf DEF Fine
  <2> QED
    BY <1>2, <2>1, <2>2 DEF Removed, Removable, Leads
<1>9. \A i \in I : \A j, y : Leads(d, i, j, y) =>
        /\ j \in DOMAIN Dentries(d, i) /\ Dentries(d, i)[j].valid
        /\ Dentries(e, i)[j].name = Dentries(d, i)[j].name
  <2> SUFFICES ASSUME NEW i \in I, NEW j, NEW y, Leads(d, i, j, y)
               PROVE  /\ j \in DOMAIN Dentries(d, i) /\ Dentries(d, i)[j].valid
                      /\ Dentries(e, i)[j].name = Dentries(d, i)[j].name
    OBVIOUS
  <2>1. IsDir(d, i) /\ Dentries(d, i)[j].valid /\ j \in 3 .. Len(Dentries(d, i))
    BY DEF Leads
  <2>2. Dirs(d, I)
    BY DEF Fine
  <2>3. j \in DOMAIN Dentries(d, i)
    BY <2>1, <2>2, EntriesOf
  <2> QED
    BY <1>7, <2>1, <2>3
<1>10. \A j, y : Leads(d, p, j, y) /\ Dentries(d, p)[j].name = n => j = j0
  <2> SUFFICES ASSUME NEW j, NEW y, Leads(d, p, j, y), Dentries(d, p)[j].name = n
               PROVE  j = j0
    OBVIOUS
  <2>1. Distinct(d, I)
    BY DEF Fine
  <2>2. /\ j \in DOMAIN Dentries(d, p) /\ Dentries(d, p)[j].valid
        /\ j0 \in DOMAIN Dentries(d, p) /\ Dentries(d, p)[j0].valid
    BY <1>2, <1>9
  <2> QED
    BY <1>8, <2>1, <2>2 DEF Distinct
<1>11. ASSUME NEW i \in I, NEW j, NEW y, Leads(d, i, j, y)
       PROVE  i \in J
  <2>1. CASE i # x
    BY <1>5, <2>1
  <2>2. CASE i = x
    BY <1>8, <1>11, <2>2 DEF IsDir, IsFile
  <2> QED
    BY <2>1, <2>2
<1>12. \A t : Ent(e, J, t) <=> Ent(d, I, t) /\ t # t0
  <2> SUFFICES ASSUME NEW t PROVE Ent(e, J, t) <=> Ent(d, I, t) /\ t # t0
    OBVIOUS
  <2>1. ASSUME Ent(e, J, t)
        PROVE  Ent(d, I, t) /\ t # t0
    <3>1. PICK i \in J, j \in Nat : \E y : Leads(e, i, j, y) /\ t = <<i, Dentries(e, i)[j].name, y>>
      BY <2>1 DEF Ent
    <3>2. PICK y : Leads(e, i, j, y) /\ t = <<i, Dentries(e, i)[j].name, y>>
      BY <3>1
    <3>3. i \in I /\ Leads(d, i, j, y) /\ ~ (i = p /\ j = j0)
      BY <1>5, <1>6, <3>2
    <3>4. t = <<i, Dentries(d, i)[j].name, y>>
      BY <1>9, <3>2, <3>3
    <3> QED
      BY <1>10, <3>3, <3>4 DEF Ent
  <2>2. ASSUME Ent(d, I, t), t # t0
        PROVE  Ent(e, J, t)
    <3>1. PICK i \in I, j \in Nat : \E y : Leads(d, i, j, y) /\ t = <<i, Dentries(d, i)[j].name, y>>
      BY <2>2 DEF Ent
    <3>2. PICK y : Leads(d, i, j, y) /\ t = <<i, Dentries(d, i)[j].name, y>>
      BY <3>1
    <3>3. ~ (i = p /\ j = j0)
      <4> SUFFICES ASSUME i = p, j = j0 PROVE FALSE
        OBVIOUS
      <4>1. y = x
        BY <1>2, <3>2 DEF Leads
      <4> QED
        BY <2>2, <3>2, <4>1
    <3>4. i \in J /\ Leads(e, i, j, y) /\ t = <<i, Dentries(e, i)[j].name, y>>
      BY <1>6, <1>9, <1>11, <3>2, <3>3
    <3> QED
      BY <3>4 DEF Ent
  <2> QED
    BY <2>1, <2>2
<1>13. Ent(d, I, t0)
  BY <1>2, <1>8 DEF Ent
<1>14. /\ store.ready = TRUE /\ store'.ready = TRUE
       /\ store.dirs = DirsOf(d, I) /\ store'.dirs = DirsOf(e, J)
       /\ store.files = FilesOf(d, I) /\ store'.files = FilesOf(e, J)
       /\ \A t : t \in store.ents <=> Ent(d, I, t)
       /\ \A t : t \in store'.ents <=> Ent(e, J, t)
  BY <1>3, StoreIs
<1>15. store'.ents = store.ents \ {t0} /\ t0 \in store.ents \ store'.ents
  BY <1>12, <1>13, <1>14
<1>16. t0[1] = p /\ t0[2] = n /\ t0[3] = x
  OBVIOUS
<1>17. \A y \in FileIds(d, I) : FileAt(e, y) = FileAt(d, y)
  BY <1>8, FilesStay
<1>18. DOMAIN store.files = FileIds(d, I) /\ \A y \in FileIds(d, I) : store.files[y] = FileAt(d, y)
  BY <1>14 DEF FilesOf
<1>19. \A i : ~ (IsDir(d, i) /\ IsFile(d, i))
  BY Apart
<1> HIDE DEF t0, n
<1>20. CASE IsFile(d, x)
  <2>1. store'.dirs = store.dirs
    BY <1>5, <1>6, <1>14, <1>19, <1>20 DEF DirsOf
  <2>2. \A y : y \in Store!Named(store'.ents) <=> \E t : Ent(e, J, t) /\ t[3] = y
    BY <1>14 DEF Store!Named
  <2>3. ASSUME NEW y \in FileIds(d, I)
        PROVE  y \in J <=> \E t : Ent(e, J, t) /\ t[3] = y
    <3>1. y \in I /\ IsFile(d, y)
      BY <2>3 DEF FileIds
    <3>2. ASSUME NEW t, Ent(e, J, t), t[3] = y
          PROVE  y \in J
      <4>1. PICK i \in J, j \in Nat : \E z : Leads(e, i, j, z) /\ t = <<i, Dentries(e, i)[j].name, z>>
        BY <3>2 DEF Ent
      <4>2. Leads(e, i, j, y)
        BY <3>2, <4>1
      <4>3. i \in I /\ Leads(d, i, j, y) /\ ~ (i = p /\ j = j0)
        BY <1>5, <1>6, <4>2
      <4> QED
        BY <1>5, <3>1, <4>3
    <3>3. ASSUME y \in J
          PROVE  \E t : Ent(e, J, t) /\ t[3] = y
      <4>1. PICK i \in I, j \in Nat : Leads(d, i, j, y) /\ ~ (i = p /\ j = j0)
        <5>1. CASE y = x
          BY <1>5, <3>3, <5>1
        <5>2. CASE y # x
          <6>1. PICK i \in I, j \in Nat : Leads(d, i, j, y)
            BY <3>1, FileNamed
          <6>2. ~ (i = p /\ j = j0)
            BY <1>2, <5>2, <6>1 DEF Leads
          <6> QED
            BY <6>1, <6>2
        <5> QED
          BY <5>1, <5>2
      <4>2. i \in J /\ Leads(e, i, j, y)
        BY <1>6, <1>11, <4>1
      <4>3. Ent(e, J, <<i, Dentries(e, i)[j].name, y>>)
        BY <4>2 DEF Ent
      <4> QED
        BY <4>3
    <3> QED
      BY <3>2, <3>3
  <2>4. FileIds(e, J) = FileIds(d, I) \cap Store!Named(store'.ents)
    <3>1. \A y : y \in FileIds(e, J) <=> y \in FileIds(d, I) /\ y \in J
      BY <1>5, <1>6 DEF FileIds
    <3> QED
      BY <2>2, <2>3, <3>1
  <2>5. store'.files = Store!Keep(store.files, Store!Named(store'.ents))
    <3>1. \A y \in FileIds(e, J) : FileAt(e, y) = store.files[y]
      BY <1>17, <1>18, <2>4
    <3> QED
      BY <1>14, <1>18, <2>4, <3>1 DEF Store!Keep, FilesOf
  <2>6. x \in DOMAIN store.files
    BY <1>4, <1>18, <1>20 DEF FileIds
  <2>7. Store!Rm(t0)
    BY <1>14, <1>15, <1>16, <2>1, <2>5, <2>6 DEF Store!Rm
  <2> QED
    BY <1>15, <2>7 DEF Store!Next
<1>21. CASE ~ IsFile(d, x)
  <2>1. IsDir(d, x) /\ J = I \ {x} /\ \A j, y : ~ Leads(d, x, j, y)
    BY <1>4, <1>8, <1>21, Apart
  <2>2. store'.dirs = store.dirs \ {x} /\ x \in store.dirs
    BY <1>4, <1>6, <1>14, <2>1 DEF DirsOf
  <2>3. FileIds(e, J) = FileIds(d, I)
    BY <1>6, <1>21, <2>1 DEF FileIds
  <2>4. store'.files = store.files
    BY <1>14, <1>17, <2>3 DEF FilesOf
  <2>5. \A t \in store.ents : t[1] # x
    <3> SUFFICES ASSUME NEW t, Ent(d, I, t) PROVE t[1] # x
      BY <1>14
    <3>1. PICK i \in I, j \in Nat : \E y : Leads(d, i, j, y) /\ t = <<i, Dentries(d, i)[j].name, y>>
      BY DEF Ent
    <3> QED
      BY <2>1, <3>1
  <2>6. Store!Rmdir(t0)
    BY <1>14, <1>15, <1>16, <2>2, <2>4, <2>5 DEF Store!Rmdir
  <2> QED
    BY <1>15, <2>6 DEF Store!Next
<1> QED
  BY <1>20, <1>21

\* One write of a call.
LEMMA MoveStep ==
  ASSUME NEW d, NEW e, Move(d, e), store = StoreOf(d), store' = StoreOf(e)
  PROVE  Store!Next \/ store' = store
<1>1. PICK I : Fine(d, I) /\ (Quiet(d, e, I) \/ Gains(d, e, I) \/ Loses(d, e, I) \/ Puts(d, e, I))
  BY DEF Move
<1>2. d \in Disk /\ e \in Disk
  BY DEF Move
<1>3. CASE Quiet(d, e, I)
  BY <1>1, <1>2, <1>3, QuietStep
<1>4. CASE Gains(d, e, I)
  BY <1>1, <1>2, <1>4, GainStep
<1>5. CASE Loses(d, e, I)
  BY <1>1, <1>2, <1>5, LoseStep
<1>6. CASE Puts(d, e, I)
  BY <1>1, <1>2, <1>6, PutStep
<1> QED
  BY <1>1, <1>3, <1>4, <1>5, <1>6

\* The last write of mkfs.
LEMMA FreshStep ==
  ASSUME NEW e, Fresh(e), store = NoStore, store' = StoreOf(e)
  PROVE  Store!Next
<1> DEFINE r == ROOT_DIR_INUM
           x == TEST_BIG_FILE_INUM
           I == {r, x}
           t0 == <<r, BigName, x>>
<1>1. /\ e \in Disk /\ Fine(e, I) /\ IsDir(e, r) /\ IsFile(e, x) /\ x # r /\ x \in Inum
      /\ Dentries(e, r) = FreshEntries
  BY FreshFine, Layout DEF Fresh, ROOT_DIR_INUM, TEST_BIG_FILE_INUM
<1>2. ~ IsDir(e, x) /\ ~ IsFile(e, r)
  BY <1>1 DEF IsDir, IsFile
<1>3. /\ Len(Dentries(e, r)) = 3
      /\ Dentries(e, r)[3] = [valid |-> TRUE, inum |-> x, name |-> BigName]
  BY <1>1, Entries3
<1>4. \A j, y : Leads(e, r, j, y) <=> j = 3 /\ y = x
  BY <1>1, <1>3 DEF Leads
<1>5. \A j, y : ~ Leads(e, x, j, y)
  BY <1>2 DEF Leads
<1>6. \A t : Ent(e, I, t) <=> t = t0
  <2> SUFFICES ASSUME NEW t PROVE Ent(e, I, t) <=> t = t0
    OBVIOUS
  <2>1. Dentries(e, r)[3].name = BigName
    BY <1>3
  <2>2. ASSUME Ent(e, I, t)
        PROVE  t = t0
    <3>1. PICK i \in I, j \in Nat : \E y : Leads(e, i, j, y) /\ t = <<i, Dentries(e, i)[j].name, y>>
      BY <2>2 DEF Ent
    <3> QED
      BY <1>4, <1>5, <2>1, <3>1
  <2>3. ASSUME t = t0
        PROVE  Ent(e, I, t)
    <3>1. r \in I /\ 3 \in Nat /\ Leads(e, r, 3, x) /\ t = <<r, Dentries(e, r)[3].name, x>>
      BY <1>4, <2>1, <2>3
    <3> QED
      BY <3>1 DEF Ent
  <2> QED
    BY <2>2, <2>3
<1>7. DirsOf(e, I) = {r} /\ FileIds(e, I) = {x}
  BY <1>1, <1>2 DEF DirsOf, FileIds
<1>8. FileAt(e, x) \in Store!File
  BY <1>1, FileType
<1>9. BigName \in Path \ {".", ".."}
  BY FsAssumption DEF Path
<1>10. /\ store'.ready = TRUE /\ store'.dirs = {r} /\ store'.files = FilesOf(e, I)
       /\ \A t : t \in store'.ents <=> t = t0
  BY <1>1, <1>6, <1>7, StoreIs
<1>11. store'.files \in [{x} -> Store!File]
  BY <1>7, <1>8, <1>10 DEF FilesOf
<1>12. store'.ents = {t0} /\ ~ store.ready
  BY <1>10 DEF NoStore
<1>13. Store!Mkfs
  BY <1>1, <1>9, <1>10, <1>11, <1>12 DEF Store!Mkfs
<1> QED
  BY <1>13 DEF Store!Next

-----------------------------------------------------------------------------
(* The steps of the file system *)

\* The disks to come are moves of a file system, or end with a new one.
Moving ==
  /\ Mounted => disk.magic /\ Runs(disk, <<disk>> \o todo)
  /\ doing.op = "mkfs" /\ todo # <<>> => Fresh(Last(todo))

LEMMA TailRuns ==
  ASSUME NEW d, NEW t, Runs(d, t)
  PROVE  <<d>> \o Tail(t) = t
<1>1. t \in Seq(Disk) /\ t # <<>> /\ t[1] = d
  BY DEF Runs
<1> QED
  BY <1>1

LEMMA RunsOn ==
  ASSUME NEW d, NEW s \in Seq(Disk), s # <<>>, Runs(d, <<d>> \o s)
  PROVE  Move(d, Head(s)) /\ Runs(Head(s), <<Head(s)>> \o Tail(s))
<1> DEFINE t == <<d>> \o s
<1>1. Len(s) \in Nat \ {0} /\ Head(s) = s[1] /\ <<Head(s)>> \o Tail(s) = s
  OBVIOUS
<1>2. d \in Disk
  BY DEF Runs
<1>3. Len(t) = Len(s) + 1 /\ t[1] = d /\ \A k \in 1 .. Len(s) : t[k + 1] = s[k]
  BY <1>1, <1>2
<1>4. \A k \in 1 .. (Len(t) - 1) : Move(t[k], t[k + 1])
  BY DEF Runs
<1> HIDE DEF t
<1>5. Move(d, s[1])
  BY <1>1, <1>3, <1>4
<1>6. ASSUME NEW k \in 1 .. (Len(s) - 1)
      PROVE  Move(s[k], s[k + 1])
  <2>1. k \in 1 .. Len(s) /\ k + 1 \in 1 .. Len(s) /\ k + 1 \in 1 .. (Len(t) - 1)
    BY <1>1, <1>3, <1>6
  <2>2. t[k + 1] = s[k] /\ t[(k + 1) + 1] = s[k + 1]
    BY <1>3, <2>1
  <2> QED
    BY <1>4, <2>1, <2>2
<1> QED
  BY <1>1, <1>5, <1>6 DEF Runs

\* A call begins to write, or goes on.
Work ==
  /\ Mounted /\ Mounted' /\ disk' = disk
  /\ \E t : Runs(disk, t) /\ todo' = Tail(t)

LEMMA CallWorks ==
  ASSUME FsInv, NEW p \in Proc, Call(p), NEW t, Runs(disk, t),
         NEW op \in {"touch", "mkdir", "ln", "rm", "rmdir"}, Start(op, t)
  PROVE  Work
<1>1. disk' = disk /\ todo' = Tail(t) /\ doing'.op = op
  BY StateIs DEF Start
<1>2. Mounted /\ Mounted'
  BY <1>1, InCall DEF Mounted
<1> QED
  BY <1>1, <1>2 DEF Work

LEMMA SysCallIs ==
  ASSUME FsInv, Careful, NEW p \in Proc, SysCall(p)
  PROVE  \/ UNCHANGED <<disk, todo, doing>>
         \/ Work
         \/ Start("mkfs", mkfs(<<disk>>)) /\ doing.op # "mkfs"
<1> DEFINE Same == UNCHANGED <<disk, todo, doing>>
<1>1. CASE do_mkfs(p)
  <2>1. Start("mkfs", mkfs(<<disk>>)) /\ Call(p)
    BY <1>1 DEF do_mkfs
  <2> QED
    BY <2>1, InCall
<1>2. CASE do_statfs(p) \/ do_ls(p, "")
  BY <1>2, Zenon DEF do_statfs, do_ls, vars
<1>3. ASSUME NEW n \in Names, do_mkdir(p, n) \/ do_touch(p, n)
      PROVE  Work
  <2>1. Call(p)
    BY <1>3 DEF do_mkdir, do_touch
  <2>2. CASE do_mkdir(p, n)
    <3>1. PICK t : Runs(disk, t) /\ Start("mkdir", t)
      BY <2>2, MkdirOf
    <3> QED
      BY <2>1, <3>1, CallWorks
  <2>3. CASE do_touch(p, n)
    <3>1. PICK t : Runs(disk, t) /\ Start("touch", t)
      BY <2>3, TouchOf
    <3> QED
      BY <2>1, <3>1, CallWorks
  <2> QED
    BY <1>3, <2>2, <2>3
<1>4. ASSUME NEW n \in Targets,
             do_cd(p, n) \/ do_rmdir(p, n) \/ do_rm(p, n) \/ do_cat(p, n) \/ do_ls(p, n)
      PROVE  Work \/ Same
  <2>1. CASE do_rmdir(p, n)
    <3>1. Call(p)
      BY <2>1 DEF do_rmdir
    <3>2. PICK t : Runs(disk, t) /\ Start("rmdir", t)
      BY <2>1, RmdirOf
    <3> QED
      BY <3>1, <3>2, CallWorks
  <2>2. CASE do_rm(p, n)
    <3>1. Call(p)
      BY <2>2 DEF do_rm
    <3>2. PICK t : Runs(disk, t) /\ Start("rm", t)
      BY <2>2, RmOf
    <3> QED
      BY <3>1, <3>2, CallWorks
  <2>3. CASE do_cd(p, n) \/ do_cat(p, n) \/ do_ls(p, n)
    BY <2>3, Zenon DEF do_cd, do_cat, do_ls, Silent, vars
  <2> QED
    BY <1>4, <2>1, <2>2, <2>3
<1>5. ASSUME NEW n \in Targets, NEW m \in Names, do_ln(p, n, m)
      PROVE  Work
  <2>1. Call(p)
    BY <1>5 DEF do_ln
  <2>2. PICK t : Runs(disk, t) /\ Start("ln", t)
    BY <1>5, LnOf
  <2> QED
    BY <2>1, <2>2, CallWorks
<1>6. ASSUME NEW n \in Targets, NEW mode \in Modes, do_fopen(p, n, mode)
      PROVE  Same
  BY <1>6, Zenon DEF do_fopen, Silent
<1>7. ASSUME NEW fd \in Fd,
             \/ do_fclose(p, fd)
             \/ \E offset \in Offsets, whence \in {"SEEK_SET", "SEEK_CUR", "SEEK_END"} :
                  do_lseek(p, fd, offset, whence)
             \/ \E length \in Lengths : do_fread(p, fd, length)
      PROVE  Same
  BY <1>7, Zenon DEF do_fclose, do_lseek, do_fread, Silent
<1>8. ASSUME NEW fd \in Fd, NEW buf \in Buffers, do_fwrite(p, fd, buf)
      PROVE  Work
  <2>1. Call(p) /\ disk' = disk /\ todo' = todo /\ doing'.op = "fwrite"
    BY <1>8 DEF do_fwrite
  <2>2. Mounted /\ Mounted' /\ todo = <<>> /\ disk \in Disk
    BY <2>1, InCall DEF Mounted
  <2>3. Runs(disk, <<disk>>) /\ todo' = Tail(<<disk>>)
    BY <2>1, <2>2, OneRuns
  <2> QED
    BY <2>1, <2>2, <2>3 DEF Work
<1>9. ASSUME NEW q \in Proc, do_exec(p, q)
      PROVE  Same
  BY <1>9, Zenon DEF do_exec, Silent
<1>10. CASE do_exit(p)
  BY <1>10, Zenon DEF do_exit, Silent
<1> QED
  BY <1>1, <1>2, <1>3, <1>4, <1>5, <1>6, <1>7, <1>8, <1>9, <1>10, Zenon DEF SysCall

\* What a step is to the store.
LEMMA StepIs ==
  ASSUME FsInv, Careful, [Next]_vars
  PROVE  \/ UNCHANGED <<disk, todo, doing>>
         \/ Work
         \/ Start("mkfs", mkfs(<<disk>>)) /\ doing.op # "mkfs"
         \/ bios_sdwrite
         \/ PowerFail
         \/ /\ doing.op = "off" /\ todo = <<>> /\ disk.magic
            /\ doing'.op = "idle" /\ UNCHANGED <<disk, todo>>
<1>1. ASSUME NEW p \in Proc, SysCall(p)
      PROVE  \/ UNCHANGED <<disk, todo, doing>>
             \/ Work
             \/ Start("mkfs", mkfs(<<disk>>)) /\ doing.op # "mkfs"
  BY <1>1, SysCallIs
<1>2. CASE FwritePiece
  <2>1. PICK t : Passes(t)
    BY <1>2, PieceOf
  <2>2. Mounted /\ Mounted' /\ disk' = disk
    BY <1>2, <2>1 DEF FwritePiece, Passes, Mounted
  <2> QED
    BY <2>1, <2>2 DEF Passes, Work
<1>3. CASE FwriteEnd
  <2>1. PICK t : Runs(disk, t) /\ todo' = Tail(t)
    BY <1>3, EndOf
  <2>2. doing.op = "fwrite" /\ doing' = [doing EXCEPT !.op = "fwrite_end"] /\ disk' = disk
    BY <1>3 DEF FwriteEnd
  <2>3. doing'.op = "fwrite_end"
    BY <2>2, CallSame DEF FsInv, Written
  <2>4. Mounted /\ Mounted'
    BY <2>2, <2>3 DEF Mounted
  <2> QED
    BY <2>1, <2>2, <2>4 DEF Work
<1>4. CASE init_superblock
  <2>1. doing = Off /\ doing.op = "off"
    BY <1>4, StateIs DEF init_superblock
  <2>2. todo = <<>>
    BY <2>1 DEF FsInv, Powered
  <2> QED
    BY <1>4, <2>1, <2>2, StateIs DEF init_superblock
<1>5. CASE UNCHANGED vars
  BY <1>5 DEF vars
<1> QED
  BY <1>1, <1>2, <1>3, <1>4, <1>5 DEF Next

LEMMA MovingStep ==
  ASSUME FsInv, Careful, Moving, [Next]_vars
  PROVE  Moving'
<1>1. disk \in Disk /\ todo \in Seq(Disk)
  BY DEF FsInv, Typed
<1>2. CASE UNCHANGED <<disk, todo, doing>>
  BY <1>2 DEF Moving, Mounted
<1>3. CASE Work
  <2>1. PICK t : Runs(disk, t) /\ todo' = Tail(t)
    BY <1>3 DEF Work
  <2>2. <<disk>> \o todo' = t
    BY <2>1, TailRuns
  <2>3. disk' = disk /\ disk.magic /\ doing'.op # "mkfs"
    BY <1>3 DEF Work, Moving, Mounted
  <2> QED
    BY <2>1, <2>2, <2>3 DEF Moving
<1>4. CASE Start("mkfs", mkfs(<<disk>>))
  <2> DEFINE t == mkfs(<<disk>>)
  <2>1. t \in Seq(Disk) /\ t # <<>> /\ Fresh(Last(t))
    BY <1>1, MkfsFresh
  <2>2. todo' = Tail(t) /\ doing'.op = "mkfs"
    BY <1>4, StateIs DEF Start
  <2> HIDE DEF t
  <2>3. todo' # <<>> => Fresh(Last(todo'))
    BY <2>1, <2>2, TailIs
  <2> QED
    BY <2>2, <2>3 DEF Moving, Mounted
<1>5. CASE bios_sdwrite
  <2>1. /\ todo # <<>> /\ disk' = Head(todo) /\ todo' = Tail(todo)
        /\ doing' = doing \/ doing' = Idle
    BY <1>5 DEF bios_sdwrite
  <2>2. todo' # <<>> => Last(todo') = Last(todo)
    BY <1>1, <2>1, TailIs
  <2>3. doing.op # "off"
    BY <2>1 DEF FsInv, Powered
  <2>4. CASE Mounted
    <3>1. disk.magic /\ Move(disk, disk') /\ Runs(disk', <<disk'>> \o todo')
      BY <1>1, <2>1, <2>4, RunsOn DEF Moving
    <3>2. disk'.magic
      BY <3>1 DEF Move
    <3>3. doing'.op # "mkfs"
      BY <2>1, <2>4, StateIs DEF Mounted
    <3> QED
      BY <3>1, <3>2, <3>3 DEF Moving
  <2>5. CASE doing.op = "mkfs"
    <3>1. Fresh(Last(todo))
      BY <2>1, <2>5 DEF Moving
    <3>2. CASE doing' = doing
      BY <2>2, <2>5, <3>1, <3>2 DEF Moving, Mounted
    <3>3. CASE doing' # doing
      <4>1. doing' = Idle /\ ~ (Len(todo) > 1)
        BY <1>5, <3>3 DEF bios_sdwrite
      <4>2. todo' = <<>>
        <5>1. Len(todo) \in Nat
          BY <1>1
        <5>2. Len(todo) <= 1
          BY <4>1, <5>1
        <5> QED
          BY <1>1, <2>1, <5>2, TailIs
      <4>3. disk' = Last(todo)
        BY <1>1, <2>1, <4>2, TailIs
      <4>4. disk' \in Disk /\ disk'.magic
        BY <3>1, <4>3 DEF Fresh
      <4>5. Runs(disk', <<disk'>> \o todo')
        <5>1. <<disk'>> \o todo' = <<disk'>>
          BY <4>2, <4>4
        <5> QED
          BY <4>4, <5>1, OneRuns
      <4> QED
        BY <4>2, <4>4, <4>5 DEF Moving
    <3> QED
      BY <3>2, <3>3
  <2> QED
    BY <2>3, <2>4, <2>5 DEF Mounted
<1>6. CASE PowerFail
  <2>1. doing'.op = "off"
    BY <1>6, StateIs DEF PowerFail
  <2> QED
    BY <2>1 DEF Moving, Mounted
<1>7. CASE /\ doing.op = "off" /\ todo = <<>> /\ disk.magic
           /\ doing'.op = "idle" /\ UNCHANGED <<disk, todo>>
  <2>1. <<disk'>> \o todo' = <<disk'>>
    BY <1>1, <1>7
  <2> QED
    BY <1>1, <1>7, <2>1, OneRuns DEF Moving
<1> QED
  BY <1>2, <1>3, <1>4, <1>5, <1>6, <1>7, StepIs

\* `store' is the store of the disk.
StoreInv == store = IF Ready THEN StoreOf(disk) ELSE NoStore

StoreStep == store' = IF ~ Ready' THEN NoStore
                      ELSE IF Ready /\ disk' = disk THEN store ELSE StoreOf(disk')

LEMMA StoreKept ==
  ASSUME StoreInv, StoreStep
  PROVE  StoreInv'
BY DEF StoreInv, StoreStep

LEMMA StepSteps ==
  ASSUME FsInv, Careful, Moving, Moving', [Next]_vars, StoreInv, StoreStep
  PROVE  Store!Next \/ store' = store
<1>1. CASE Ready /\ Ready' /\ disk' = disk
  BY <1>1 DEF StoreStep
<1>2. CASE ~ Ready /\ ~ Ready'
  BY <1>2 DEF StoreInv, StoreStep
<1>3. CASE UNCHANGED <<disk, todo, doing>>
  BY <1>1, <1>2, <1>3 DEF Ready
<1>4. CASE Work
  BY <1>1, <1>4 DEF Work, Ready, Mounted, Moving
<1>5. CASE Start("mkfs", mkfs(<<disk>>)) /\ doing.op # "mkfs"
  <2>1. ~ Ready'
    BY <1>5, StateIs DEF Start, Ready
  <2>2. CASE Ready
    <3>1. store.ready = TRUE /\ store' = NoStore
      BY <2>1, <2>2 DEF StoreInv, StoreStep, StoreOf
    <3>2. Store!Wipe
      BY <3>1 DEF Store!Wipe, NoStore
    <3> QED
      BY <3>2 DEF Store!Next
  <2> QED
    BY <1>2, <2>1, <2>2
<1>6. CASE bios_sdwrite
  <2>1. /\ todo # <<>> /\ disk' = Head(todo) /\ todo \in Seq(Disk)
        /\ doing' = doing \/ doing' = Idle
    BY <1>6 DEF bios_sdwrite, FsInv, Typed
  <2>2. doing.op # "off"
    BY <2>1 DEF FsInv, Powered
  <2>3. CASE Mounted
    <3>1. Move(disk, disk') /\ Ready
      BY <2>1, <2>3, RunsOn DEF Moving, Ready, Mounted
    <3>2. Ready'
      BY <2>1, <2>3, <3>1, StateIs DEF Move, Moving, Ready, Mounted
    <3>3. store = StoreOf(disk) /\ store' = StoreOf(disk')
      BY <3>1, <3>2 DEF StoreInv, StoreStep
    <3> QED
      BY <3>1, <3>3, MoveStep
  <2>4. CASE doing.op = "mkfs"
    <3>1. ~ Ready /\ store = NoStore
      BY <2>4 DEF Ready, StoreInv
    <3>2. CASE doing' = doing
      BY <1>2, <2>4, <3>1, <3>2 DEF Ready
    <3>3. CASE doing' # doing
      <4>1. ~ (Len(todo) > 1) /\ Len(todo) \in Nat /\ doing'.op = "idle"
        BY <1>6, <2>1, <3>3, StateIs DEF bios_sdwrite
      <4>2. Len(todo) <= 1
        BY <4>1
      <4>3. disk' = Last(todo)
        BY <2>1, <4>2, TailIs
      <4>4. Fresh(disk')
        BY <2>1, <2>4, <4>3 DEF Moving
      <4>5. Ready'
        BY <4>1, <4>4 DEF Ready, Fresh
      <4>6. store' = StoreOf(disk')
        BY <3>1, <4>5 DEF StoreStep
      <4> QED
        BY <3>1, <4>4, <4>6, FreshStep
    <3> QED
      BY <3>2, <3>3
  <2> QED
    BY <2>2, <2>3, <2>4 DEF Mounted
<1>7. CASE PowerFail
  <2>1. disk' = disk /\ doing.op # "mkfs" /\ doing'.op = "off"
    BY <1>7, StateIs DEF PowerFail, Careful
  <2> QED
    BY <1>1, <1>2, <2>1 DEF Ready
<1>8. CASE /\ doing.op = "off" /\ todo = <<>> /\ disk.magic
           /\ doing'.op = "idle" /\ UNCHANGED <<disk, todo>>
  BY <1>1, <1>8 DEF Ready
<1> QED
  BY <1>3, <1>4, <1>5, <1>6, <1>7, <1>8, StepIs

-----------------------------------------------------------------------------
(* The refinement *)

\* The file system implements the store: every write to the disk by
\* bios_sdwrite, and every power failure outside mkfs and ln, is one step of
\* FileStore or none, for all sizes and for any calls in any order.
THEOREM FsImplementsStore ==
  ASSUME Careful
  PROVE  MCSpec => StoreSpec
<1> DEFINE Inv == FsInv /\ Moving /\ StoreInv
<1>1. MCInit => Inv /\ Store!Init
  <2> SUFFICES ASSUME MCInit PROVE Inv /\ Store!Init
    OBVIOUS
  <2>1. Init /\ store = NoStore
    BY DEF MCInit
  <2>2. FsInv
    BY <2>1, InitInv
  <2>3. doing.op = "off" /\ ~ disk.magic
    BY <2>1, StateIs DEF Init
  <2>4. Moving
    BY <2>3 DEF Moving, Mounted
  <2>5. StoreInv
    BY <2>1, <2>3 DEF StoreInv, Ready
  <2>6. Store!Init
    BY <2>1 DEF Store!Init, NoStore
  <2> QED
    BY <2>2, <2>4, <2>5, <2>6
<1>2. Inv /\ [MCNext]_MCvars => Inv' /\ [Store!Next]_(Store!vars)
  <2> SUFFICES ASSUME FsInv, Moving, StoreInv, [MCNext]_MCvars
               PROVE  Inv' /\ [Store!Next]_(Store!vars)
    OBVIOUS
  <2>1. [Next]_vars
    BY DEF MCNext, MCvars
  <2>2. FsInv' /\ Moving'
    BY <2>1, FsStep, MovingStep
  <2>3. CASE MCNext
    <3>1. StoreStep
      BY <2>3 DEF MCNext, StoreStep
    <3>2. StoreInv'
      BY <3>1, StoreKept
    <3>3. Store!Next \/ store' = store
      BY <2>1, <2>2, <3>1, StepSteps
    <3> QED
      BY <2>2, <3>2, <3>3 DEF Store!vars
  <2>4. CASE UNCHANGED MCvars
    <3>1. store' = store /\ disk' = disk /\ doing' = doing
      BY <2>4 DEF MCvars, vars
    <3>2. StoreInv'
      BY <3>1 DEF StoreInv, Ready
    <3> QED
      BY <2>2, <3>1, <3>2 DEF Store!vars
  <2> QED
    BY <2>3, <2>4
<1> HIDE DEF Inv
<1> QED
  BY <1>1, <1>2, PTL DEF MCSpec, StoreSpec, Store!Spec

-----------------------------------------------------------------------------
(* What the store is proved to promise, the file system keeps *)

Promise == INSTANCE FileStoreProofs WITH
  Id <- Inum, Root <- ROOT_DIR_INUM, Name <- Path \ {".", ".."}, Block <- Direct,
  Size <- Nat, Content <- [1 .. NBYTES_PER_BLOCK -> Int], Hole <- <<>>,
  ready <- store.ready, ents <- store.ents, dirs <- store.dirs, files <- store.files

\* The names on the disk form a tree of live files and directories in every
\* state with a file system, also after a power failure between two writes:
\* what do_ls, do_cd and do_rm rely on when they follow a name.
THEOREM FsTree == ASSUME Careful PROVE MCSpec => []Store!Tree
<1>1. MCSpec => Store!Spec
  BY FsImplementsStore DEF StoreSpec
<1>2. Promise!Spec => []Promise!Tree
  BY Promise!StoreTree
<1>3. Store!Init => Promise!Init
  BY DEF Store!Init, Promise!Init
<1>4. [Store!Next]_(Store!vars) => [Promise!Next]_(Promise!vars)
  <2> SUFFICES ASSUME [Store!Next]_(Store!vars) PROVE [Promise!Next]_(Promise!vars)
    OBVIOUS
  <2> QED
    BY Zenon DEF Store!vars, Promise!vars, Store!Next, Promise!Next,
         Store!Mkfs, Promise!Mkfs, Store!Wipe, Promise!Wipe,
         Store!Touch, Promise!Touch, Store!Mkdir, Promise!Mkdir,
         Store!Ln, Promise!Ln, Store!Rm, Promise!Rm,
         Store!Rmdir, Promise!Rmdir, Store!Put, Promise!Put,
         Store!File, Promise!File, Store!Empty, Promise!Empty,
         Store!Named, Promise!Named, Store!Keep, Promise!Keep,
         Store!Fresh, Promise!Fresh, Store!New, Promise!New
<1>5. Promise!Tree => Store!Tree
  BY DEF Store!Tree, Promise!Tree
<1> QED
  BY <1>1, <1>2, <1>3, <1>4, <1>5, PTL DEF Store!Spec, Promise!Spec
=============================================================================
