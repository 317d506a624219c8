------------------------------ MODULE FsProofs ------------------------------
(***************************************************************************)
(* The file system keeps its names, inodes and blocks in order, for all    *)
(* sizes of the maps, of the disk and of a directory.                      *)
(*                                                                         *)
(* The proof follows the structure of the calls:                           *)
(*  - the maps: every number in use is in the lower half of a word         *)
(*    (Usable), where setting and freeing a bit touch no bit of another    *)
(*    number in use; the upper half is set exactly when bit H - 1 is       *)
(*    (Halves), so the first clear bit is Usable again;                    *)
(*  - Fine(d, I): disk d is a tree of names over I, the inodes that the    *)
(*    root reaches (Reach), and blocks and inodes have one owner;          *)
(*    Linked(d, I): files have as many references as names;                *)
(*  - one lemma per write, and one per call: each disk of the sequence     *)
(*    that mkdir, touch, rm, rmdir, ln, mkfs or fwrite leaves is Fine;     *)
(*  - each write is a Move: it changes no name and no file, adds a name,   *)
(*    removes one, or changes a block of one file; Runs says so of all     *)
(*    disks of a call (StoreProofs turns the moves into steps of a store); *)
(*  - FsInv: so is the disk now and each disk to come, and the bytes of    *)
(*    fwrite are in the last one; one lemma per action shows that it is    *)
(*    kept (the lemmas named Do...).                                       *)
(***************************************************************************)
EXTENDS Fs, FiniteSetTheorems, WellFoundedInduction, TLAPS

-----------------------------------------------------------------------------
(* The bit maps *)

\* A set of numbers has a least one.
LEMMA LeastOf ==
  ASSUME NEW T, T \subseteq Nat, T # {}
  PROVE  \E x \in T : \A y \in T : x <= y
<1> DEFINE R == OpToRel(<, Nat)
<1>1. IsWellFoundedOn(R, Nat)
  BY NatLessThanWellFounded
<1>2. \E x \in T : \A y \in T : ~ (<<y, x>> \in R)
  <2> HIDE DEF R
  <2> QED
    BY <1>1, WFMin
<1>3. PICK x \in T : \A y \in T : ~ (<<y, x>> \in R)
  BY <1>2
<1>4. \A y \in T : ~ (y < x)
  BY <1>3 DEF OpToRel
<1> QED
  BY <1>4

LEMMA Products ==
  /\ \A x, y \in Nat : x * y \in Nat
  /\ \A x, y, z \in Nat : x < y => y * z >= x * z + z
<1>1. \A x, y \in Nat : x * y \in Nat
  OBVIOUS
<1>2. ASSUME NEW x \in Nat, NEW y \in Nat, NEW z \in Nat, x < y
      PROVE  y * z >= x * z + z
  <2>1. y - x - 1 \in Nat
    BY <1>2
  <2>2. (y - x - 1) * z \in Nat /\ x * z \in Nat /\ y * z \in Nat
    BY <1>1, <2>1
  <2>3. (y - x - 1) * z = y * z - x * z - z
    OBVIOUS
  <2> QED
    BY <2>2, <2>3
<1> QED
  BY <1>1, <1>2

\* A number is found again by its quotient and its remainder.
LEMMA Division ==
  ASSUME NEW n \in Nat \ {0}
  PROVE
  /\ \A b \in Nat : /\ b \div n \in Nat /\ b % n \in 0 .. (n - 1)
                    /\ b = (b \div n) * n + (b % n)
  /\ \A w \in Nat, k \in 0 .. (n - 1) :
       /\ w * n + k \in Nat /\ (w * n + k) \div n = w /\ (w * n + k) % n = k
<1>1. n \in Nat /\ n > 0
  OBVIOUS
<1>2. \A b \in Nat : /\ b \div n \in Nat /\ b % n \in 0 .. (n - 1)
                     /\ b = (b \div n) * n + (b % n)
  BY <1>1
<1>4. ASSUME NEW w \in Nat, NEW k \in 0 .. (n - 1)
      PROVE  /\ w * n + k \in Nat /\ (w * n + k) \div n = w /\ (w * n + k) % n = k
  <2> DEFINE z == w * n + k
             q == z \div n
             r == z % n
  <2>1. w * n \in Nat /\ z \in Nat
    BY <1>1, Products
  <2>2. q \in Nat /\ r \in 0 .. (n - 1) /\ z = q * n + r
    BY <1>2, <2>1
  <2>3. q * n \in Nat
    BY <1>1, <2>2, Products
  <2>4. w * n + k = q * n + r
    BY <2>2
  <2> HIDE DEF q, r
  <2>5. ~ (w > q) /\ ~ (q > w)
    <3>1. w > q => w * n >= q * n + n
      BY <1>1, <2>2, Products
    <3>2. q > w => q * n >= w * n + n
      BY <1>1, <2>2, Products
    <3> QED
      BY <1>1, <2>1, <2>2, <2>3, <2>4, <3>1, <3>2
  <2>6. w = q
    BY <2>2, <2>5
  <2>7. k = r
    BY <1>1, <2>1, <2>2, <2>3, <2>4, <2>6
  <2> QED
    BY <2>1, <2>6, <2>7 DEF q, r
<1> QED
  BY <1>2, <1>4

\* A number is found again in the word and at the place that it has.
LEMMA WordOf ==
  /\ \A b \in Nat : /\ b \div W \in Nat /\ b % W \in 0 .. (W - 1)
                    /\ b = (b \div W) * W + (b % W)
  /\ \A w \in Nat, k \in 0 .. (W - 1) :
       /\ w * W + k \in Nat /\ (w * W + k) \div W = w /\ (w * W + k) % W = k
<1>1. W \in Nat \ {0}
  BY FsAssumption
<1> QED
  BY <1>1, Division

\* Word and place of a number, and the number at a place of a word.
Word(b) == b \div W
Place(b) == b % W
At(w, k) == w * W + k

LEMMA Places ==
  /\ H \in Nat /\ H > 1 /\ W = 2 * H
  /\ \A b \in Nat : /\ Word(b) \in Nat /\ Place(b) \in 0 .. (W - 1)
                    /\ b = At(Word(b), Place(b))
  /\ \A w \in Nat, k \in 0 .. (W - 1) :
       At(w, k) \in Nat /\ Word(At(w, k)) = w /\ Place(At(w, k)) = k
  /\ \A w \in Nat, k, l \in 0 .. (W - 1) : At(w, k) = At(w, l) + (k - l)
<1>1. H \in Nat /\ H > 1 /\ W = 2 * H
  BY FsAssumption
<1>2. \A b \in Nat : /\ Word(b) \in Nat /\ Place(b) \in 0 .. (W - 1)
                    /\ b = At(Word(b), Place(b))
  BY WordOf DEF Word, Place, At
<1>3. \A w \in Nat, k \in 0 .. (W - 1) :
        At(w, k) \in Nat /\ Word(At(w, k)) = w /\ Place(At(w, k)) = k
  BY WordOf DEF Word, Place, At
<1>4. ASSUME NEW w \in Nat, NEW k \in 0 .. (W - 1), NEW l \in 0 .. (W - 1)
      PROVE  At(w, k) = At(w, l) + (k - l)
  <2>1. w * W \in Nat
    BY <1>1, Products
  <2> QED
    BY <1>1, <2>1 DEF At
<1> QED
  BY <1>1, <1>2, <1>3, <1>4

\* The numbers below n words.
LEMMA WordBelow ==
  ASSUME NEW n \in Nat
  PROVE  n * W \in Nat /\ \A c \in Nat : (Word(c) < n <=> c < n * W)
<1>1. W \in Nat /\ W > 0
  BY FsAssumption
<1>2. n * W \in Nat
  BY <1>1, Products
<1>3. ASSUME NEW c \in Nat
      PROVE  Word(c) < n <=> c < n * W
  <2>1. Word(c) \in Nat /\ Place(c) \in 0 .. (W - 1) /\ c = Word(c) * W + Place(c)
    BY <1>3, Places DEF At
  <2>2. Word(c) * W \in Nat
    BY <1>1, <2>1, Products
  <2>3. Word(c) < n => n * W >= Word(c) * W + W
    BY <1>1, <2>1, Products
  <2>4. n < Word(c) => Word(c) * W >= n * W + W
    BY <1>1, <2>1, Products
  <2>5. n = Word(c) => n * W = Word(c) * W
    OBVIOUS
  <2> QED
    BY <1>1, <1>2, <2>1, <2>2, <2>3, <2>4, <2>5
<1> QED
  BY <1>2, <1>3

\* The numbers whose bits a map keeps apart: those of lower halves.
Usable(n) == Place(n) \in 1 .. H

\* The bits of the upper half of a word are those of its bit H - 1: the shift
\* of an int sets and clears them together.
Halves(map) ==
  \A b, c \in Nat : Word(b) = Word(c) /\ Place(b) >= H - 1 /\ Place(c) >= H - 1 =>
    (b \in map <=> c \in map)

\* The bits that go with bit b of a lower half.
Bits(b) ==
  {c \in Nat : c = b \/ (Place(b) = H - 1 /\ Word(c) = Word(b) /\ Place(c) >= H - 1)}

LEMMA BitsAtIs ==
  ASSUME NEW b \in Nat, Place(b) \in 0 .. (H - 1)
  PROVE  BitsAt(Word(b), Place(b)) = Bits(b)
<1> DEFINE w == Word(b)
           p == Place(b)
<1>1. H \in Nat /\ H > 1 /\ W = 2 * H
  BY Places
<1>2. w \in Nat /\ p \in 0 .. (H - 1) /\ b = At(w, p)
  BY Places
<1> HIDE DEF w, p
<1>3. ShiftOne(p) = IF p = H - 1 THEN (H - 1) .. (W - 1) ELSE {p}
  <2>1. p % H = p
    BY <1>1, <1>2
  <2> QED
    BY <2>1 DEF ShiftOne
<1>4. BitsAt(w, p) = {At(w, k) : k \in ShiftOne(p)}
  BY DEF BitsAt, At
<1>5. CASE p # H - 1
  <2>1. BitsAt(w, p) = {At(w, p)}
    BY <1>3, <1>4, <1>5
  <2>2. Bits(b) = {b}
    BY <1>5 DEF Bits, p
  <2> QED
    BY <1>2, <2>1, <2>2 DEF w, p
<1>6. CASE p = H - 1
  <2>1. BitsAt(w, p) = {At(w, k) : k \in (H - 1) .. (W - 1)}
    BY <1>3, <1>4, <1>6
  <2>2. \A c : c \in Bits(b) <=> c \in Nat /\ (c = b \/ (Word(c) = w /\ Place(c) >= H - 1))
    BY <1>6 DEF Bits, p, w
  <2>3. ASSUME NEW k \in (H - 1) .. (W - 1)
        PROVE  At(w, k) \in Bits(b)
    <3>1. k \in 0 .. (W - 1) /\ k >= H - 1
      BY <1>1
    <3>2. At(w, k) \in Nat /\ Word(At(w, k)) = w /\ Place(At(w, k)) = k
      BY <1>2, <3>1, Places
    <3> QED
      BY <2>2, <3>1, <3>2
  <2>4. ASSUME NEW c \in Bits(b)
        PROVE  \E k \in (H - 1) .. (W - 1) : c = At(w, k)
    <3>1. c = b => c = At(w, H - 1)
      BY <1>2, <1>6
    <3>2. c # b => c = At(w, Place(c)) /\ Place(c) \in (H - 1) .. (W - 1)
      BY <1>1, <2>2, Places
    <3>3. H - 1 \in (H - 1) .. (W - 1)
      BY <1>1
    <3> QED
      BY <3>1, <3>2, <3>3
  <2>5. {At(w, k) : k \in (H - 1) .. (W - 1)} = Bits(b)
    BY <2>3, <2>4
  <2> QED
    BY <2>1, <2>5 DEF w, p
<1> QED
  BY <1>5, <1>6

\* The bits of a map of n words, the first clear one, and the map with it set.
AllBits(n) == 0 .. (n * W - 1)
FirstOf(map, n) == FirstZero(map, n * W)
Taken(map, b) == map \cup BitsAt(b \div W, b % W)

\* A map whose first clear bit is taken is still made of halves, and the
\* number of that bit is one of a lower half.
LEMMA TakeBit ==
  ASSUME NEW n \in Nat, NEW map, map \subseteq AllBits(n), Halves(map), ~ AllBits(n) \subseteq map
  PROVE  /\ FirstOf(map, n) \in AllBits(n) /\ FirstOf(map, n) \notin map
         /\ 0 .. (FirstOf(map, n) - 1) \subseteq map
         /\ Usable(FirstOf(map, n) + 1)
         /\ FirstOf(map, n) \in Taken(map, FirstOf(map, n)) /\ map \subseteq Taken(map, FirstOf(map, n))
         /\ Taken(map, FirstOf(map, n)) \subseteq AllBits(n) /\ Halves(Taken(map, FirstOf(map, n)))
<1> DEFINE b == FirstOf(map, n)
           new == Taken(map, b)
           z == n * W
<1>1. H \in Nat /\ H > 1 /\ W = 2 * H
  BY Places
<1>2. z \in Nat /\ \A c \in Nat : Word(c) < n <=> c < z
  BY WordBelow
<1>3. /\ map \subseteq 0 .. (z - 1) /\ ~ 0 .. (z - 1) \subseteq map /\ b = FirstZero(map, z)
      /\ new = map \cup BitsAt(Word(b), Place(b))
  BY DEF AllBits, FirstOf, Taken, Word, Place
<1> SUFFICES /\ b \in 0 .. (z - 1) /\ b \notin map /\ 0 .. (b - 1) \subseteq map
             /\ Usable(b + 1) /\ b \in new /\ map \subseteq new
             /\ new \subseteq 0 .. (z - 1) /\ Halves(new)
  BY DEF AllBits
<1> HIDE DEF z, b, new
<1>4. b \in 0 .. (z - 1) /\ b \notin map /\ 0 .. (b - 1) \subseteq map
  <2> DEFINE T == {c \in 0 .. (z - 1) : c \notin map}
  <2>1. T \subseteq Nat /\ T # {}
    BY <1>2, <1>3
  <2>2. PICK c \in T : \A y \in T : c <= y
    BY <2>1, LeastOf
  <2>3. 0 .. (c - 1) \subseteq map
    BY <1>2, <2>2
  <2> QED
    BY <1>3, <2>2, <2>3 DEF FirstZero
<1>5. b \in Nat /\ Place(b) \in 0 .. (W - 1) /\ Word(b) \in Nat /\ b = At(Word(b), Place(b))
  <2>1. b \in Nat
    BY <1>2, <1>4
  <2> QED
    BY <2>1, Places
<1>6. Place(b) \in 0 .. (H - 1)
  <2> SUFFICES ASSUME Place(b) >= H PROVE FALSE
    BY <1>1, <1>5
  <2> DEFINE c == At(Word(b), H - 1)
  <2>1. c \in Nat /\ Word(c) = Word(b) /\ Place(c) = H - 1
    BY <1>1, <1>5, Places
  <2>2. b = c + (Place(b) - (H - 1))
    <3>1. PICK l \in 0 .. (W - 1) : l = H - 1
      BY <1>1
    <3>2. At(Word(b), Place(b)) = At(Word(b), l) + (Place(b) - l)
      BY <1>5, Places
    <3> QED
      BY <1>5, <3>1, <3>2
  <2> HIDE DEF c
  <2>3. c < b
    BY <1>1, <1>5, <2>1, <2>2
  <2>4. c \in map
    BY <1>4, <1>5, <2>1, <2>3
  <2>5. Place(b) >= H - 1 /\ Place(c) >= H - 1
    BY <1>1, <1>5, <2>1
  <2> QED
    BY <1>4, <1>5, <2>1, <2>4, <2>5 DEF Halves
<1>7. new = map \cup Bits(b)
  BY <1>3, <1>5, <1>6, BitsAtIs
<1>8. b \in new /\ map \subseteq new
  BY <1>5, <1>7 DEF Bits
<1>9. Usable(b + 1)
  <2>1. Place(b) + 1 \in 0 .. (W - 1) /\ (Place(b) + 1) - Place(b) = 1
    BY <1>1, <1>5, <1>6
  <2>2. b + 1 = At(Word(b), Place(b) + 1)
    <3>1. PICK l \in 0 .. (W - 1) : l = Place(b) + 1
      BY <2>1
    <3>2. At(Word(b), l) = At(Word(b), Place(b)) + (l - Place(b))
      BY <1>5, Places
    <3> QED
      BY <1>5, <2>1, <3>1, <3>2
  <2>3. Place(b + 1) = Place(b) + 1
    BY <1>5, <2>1, <2>2, Places
  <2> QED
    BY <1>1, <1>6, <2>3 DEF Usable
<1>10. new \subseteq 0 .. (z - 1)
  <2>1. \A c \in Bits(b) : c \in Nat /\ Word(c) = Word(b)
    BY DEF Bits
  <2>2. Word(b) < n
    BY <1>2, <1>4, <1>5
  <2>3. \A c \in Bits(b) : c \in 0 .. (z - 1)
    BY <1>2, <2>1, <2>2
  <2> QED
    BY <1>3, <1>7, <2>3
<1>11. Halves(new)
  <2> SUFFICES ASSUME NEW c \in Nat, NEW e \in Nat,
                      Word(c) = Word(e) /\ Place(c) >= H - 1 /\ Place(e) >= H - 1
               PROVE  c \in new => e \in new
    BY DEF Halves
  <2>1. c \in map => e \in map
    BY DEF Halves
  <2>2. c \in Bits(b) => e \in Bits(b)
    <3>1. c = b => Place(b) = H - 1
      BY <1>1, <1>6
    <3> QED
      BY <3>1 DEF Bits
  <2> QED
    BY <1>7, <2>1, <2>2
<1> QED
  BY <1>4, <1>8, <1>9, <1>10, <1>11

\* Clearing the bit of a number of a lower half clears that of no other such
\* number, and leaves a map made of halves.
LEMMA FreeBit ==
  ASSUME NEW n \in Nat \ {0}, Usable(n)
  PROVE  /\ \A m \in Nat \ {0} : Usable(m) /\ m # n => m - 1 \notin FreedBits(n)
         /\ \A c \in FreedBits(n) : c \in Nat /\ c >= n - 1
         /\ Halves(FreedBits(n))
<1>1. H \in Nat /\ H > 1 /\ W = 2 * H
  BY Places
<1>2. ASSUME NEW m \in Nat \ {0}, Usable(m)
      PROVE  /\ m - 1 \in Nat /\ Place(m - 1) = Place(m) - 1 /\ Word(m - 1) = Word(m)
             /\ Place(m - 1) \in 0 .. (H - 1)
  <2>1. Word(m) \in Nat /\ m = At(Word(m), Place(m)) /\ Place(m) \in 1 .. H
    BY <1>2, Places DEF Usable
  <2>2. Place(m) \in 0 .. (W - 1) /\ Place(m) - 1 \in 0 .. (W - 1)
    BY <1>1, <2>1
  <2>3. At(Word(m), Place(m) - 1) = At(Word(m), Place(m)) + ((Place(m) - 1) - Place(m))
    BY <2>1, <2>2, Places
  <2>4. (Place(m) - 1) - Place(m) = -1 /\ m \in Nat
    BY <2>2
  <2>5. m - 1 = At(Word(m), Place(m) - 1)
    BY <2>1, <2>3, <2>4
  <2>6. m - 1 \in Nat /\ Place(m - 1) = Place(m) - 1 /\ Word(m - 1) = Word(m)
    BY <2>1, <2>2, <2>5, Places
  <2> QED
    BY <1>1, <2>1, <2>6
<1> DEFINE p == n - 1
<1>3. p \in Nat /\ Place(p) \in 0 .. (H - 1) /\ Word(p) \in Nat /\ p = At(Word(p), Place(p))
  BY <1>2, Places
<1>4. FreedBits(n) = Bits(p)
  <2>1. FreedBits(n) = BitsAt(Word(n), Place(n) - 1)
    BY DEF FreedBits, Word, Place
  <2> QED
    BY <1>2, <1>3, <2>1, BitsAtIs
<1>5. ASSUME NEW m \in Nat \ {0}, Usable(m), m # n
      PROVE  m - 1 \notin FreedBits(n)
  <2> SUFFICES ASSUME m - 1 \in Bits(p) PROVE FALSE
    BY <1>4
  <2>1. m - 1 \in Nat /\ Place(m - 1) \in 0 .. (H - 1) /\ m - 1 = At(Word(m - 1), Place(m - 1))
    BY <1>2, <1>5, Places
  <2>2. m - 1 = p
    <3> SUFFICES ASSUME m - 1 # p PROVE m - 1 = p
      OBVIOUS
    <3> HIDE DEF p
    <3>1. Place(p) = H - 1 /\ Word(m - 1) = Word(p) /\ Place(m - 1) >= H - 1
      BY <1>3, <2>1 DEF Bits
    <3>2. Place(m - 1) = Place(p)
      BY <1>1, <2>1, <3>1
    <3> QED
      BY <1>3, <2>1, <3>1, <3>2
  <2> QED
    BY <1>5, <2>2
<1>6. ASSUME NEW c \in FreedBits(n)
      PROVE  c \in Nat /\ c >= n - 1
  <2> HIDE DEF p
  <2>1. c \in Nat /\ (c = p \/ (Place(p) = H - 1 /\ Word(c) = Word(p) /\ Place(c) >= H - 1))
    BY <1>4 DEF Bits
  <2>2. CASE c # p
    <3>1. Place(p) \in 0 .. (W - 1) /\ Place(c) \in 0 .. (W - 1) /\ c = At(Word(p), Place(c))
      BY <1>1, <1>3, <2>1, <2>2, Places
    <3>2. At(Word(p), Place(c)) = At(Word(p), Place(p)) + (Place(c) - Place(p))
      BY <1>3, <3>1, Places
    <3>3. c = p + (Place(c) - Place(p))
      BY <1>3, <3>1, <3>2
    <3>4. c >= p
      BY <1>1, <1>3, <2>1, <2>2, <3>1, <3>3
    <3> QED
      BY <2>1, <3>4 DEF p
  <2>3. CASE c = p
    BY <1>3, <2>3 DEF p
  <2> QED
    BY <2>2, <2>3
<1>7. Halves(FreedBits(n))
  <2> HIDE DEF p
  <2> SUFFICES ASSUME NEW c \in Nat, NEW e \in Nat,
                      Word(c) = Word(e) /\ Place(c) >= H - 1 /\ Place(e) >= H - 1
               PROVE  e \in Bits(p) => c \in Bits(p)
    BY <1>4 DEF Halves
  <2>1. e = p => Place(p) = H - 1
    BY <1>1, <1>3
  <2> QED
    BY <2>1 DEF Bits
<1> QED
  BY <1>5, <1>6, <1>7

-----------------------------------------------------------------------------
(* What can be reached *)

IsDir(d, i) == d.inodes[i].type = "DIRECTORY"
IsFile(d, i) == d.inodes[i].type = "FILE"

\* Directory i has a valid entry that leads to x.
Kid(d, i, x) ==
  IsDir(d, i) /\ \E j \in DOMAIN Dentries(d, i) :
    Dentries(d, i)[j].valid /\ Dentries(d, i)[j].inum = x

LEMMA ClosedIs ==
  ASSUME NEW d, NEW U
  PROVE  Closed(d, U) <=>
           ROOT_DIR_INUM \in U /\ \A i \in U : \A x : Kid(d, i, x) => x \in U
<1>1. ASSUME NEW i
      PROVE  (IsDir(d, i) => \A e \in Valid(d, i) : e.inum \in U) <=>
             (\A x : Kid(d, i, x) => x \in U)
  BY DEF Valid, Kid
<1> QED
  BY <1>1 DEF Closed, IsDir

\* I is the least set that holds the root and what its directories name.
Reach(d, I) ==
  /\ I \subseteq Made(d) /\ Closed(d, I)
  /\ \A V \in SUBSET Inum : Closed(d, V) => I \subseteq V

LEMMA ReachIs ==
  ASSUME NEW d, NEW I, Reach(d, I)
  PROVE  InUse(d) = I
<1>1. \A U \in SUBSET Made(d) : U \in SUBSET Inum
  BY DEF Made
<1>2. \A U \in SUBSET Made(d) : Closed(d, U) => I \subseteq U
  BY <1>1 DEF Reach
<1> QED
  BY <1>2 DEF Reach, InUse

\* Closed in terms of the entries, for sets within I.
LEMMA ReachBy ==
  ASSUME NEW d, NEW I, I \subseteq Made(d), ROOT_DIR_INUM \in I,
         \A i \in I : \A x : Kid(d, i, x) => x \in I,
         \A V \in SUBSET Inum :
           ROOT_DIR_INUM \in V /\ (\A i \in V : \A x : Kid(d, i, x) => x \in V) => I \subseteq V
  PROVE  Reach(d, I)
BY ClosedIs DEF Reach

LEMMA ReachOf ==
  ASSUME NEW d, NEW I, Reach(d, I)
  PROVE  /\ I \subseteq Made(d) /\ I \subseteq Inum /\ ROOT_DIR_INUM \in I
         /\ \A i \in I : \A x : Kid(d, i, x) => x \in I
         /\ \A V \in SUBSET Inum :
              ROOT_DIR_INUM \in V /\ (\A i \in V : \A x : Kid(d, i, x) => x \in V) => I \subseteq V
BY ClosedIs DEF Reach, Made

\* Writes that leave the entries of the reachable directories alone.
LEMMA ReachSame ==
  ASSUME NEW d, NEW e, NEW I, Reach(d, I), I \subseteq Made(e),
         \A i \in I : \A x : Kid(e, i, x) <=> Kid(d, i, x)
  PROVE  Reach(e, I)
<1>1. ASSUME NEW V \in SUBSET Inum, ROOT_DIR_INUM \in V,
             \A i \in V : \A x : Kid(e, i, x) => x \in V
      PROVE  I \subseteq V
  <2>1. \A i \in V \cap I : \A x : Kid(d, i, x) => x \in V \cap I
    BY <1>1, ReachOf
  <2>2. ROOT_DIR_INUM \in V \cap I /\ V \cap I \in SUBSET Inum
    BY <1>1, ReachOf
  <2>3. I \subseteq V \cap I
    <3> HIDE DEF Reach
    <3> QED
      BY <2>1, <2>2, ReachOf
  <2> QED
    BY <2>3
<1> QED
  BY <1>1, ReachOf, ReachBy

\* A name for x is added to directory p.
LEMMA ReachMore ==
  ASSUME NEW d, NEW e, NEW I, NEW p \in I, NEW x \in Made(e), Reach(d, I), I \subseteq Made(e),
         \A i \in I \ {x} : \A y : Kid(e, i, y) <=> Kid(d, i, y) \/ (i = p /\ y = x),
         x \in I => \A y : ~ Kid(d, x, y),
         p # x,
         \A y : Kid(e, x, y) => y \in {x, p}
  PROVE  Reach(e, I \cup {x})
<1>1. ASSUME NEW V \in SUBSET Inum, ROOT_DIR_INUM \in V,
             \A i \in V : \A y : Kid(e, i, y) => y \in V
      PROVE  I \cup {x} \subseteq V
  <2>1. \A i \in V \cap I : \A y : Kid(d, i, y) => y \in V \cap I
    BY <1>1, ReachOf
  <2>2. ROOT_DIR_INUM \in V \cap I /\ V \cap I \in SUBSET Inum
    BY <1>1, ReachOf
  <2>3. I \subseteq V \cap I
    BY <2>1, <2>2, ReachOf
  <2>4. Kid(e, p, x)
    OBVIOUS
  <2> QED
    BY <1>1, <2>3, <2>4
<1>2. \A i \in I \cup {x} : \A y : Kid(e, i, y) => y \in I \cup {x}
  BY ReachOf
<1> QED
  BY <1>1, <1>2, ReachOf, ReachBy

\* The last name of x is removed, from directory p.
LEMMA ReachLess ==
  ASSUME NEW d, NEW e, NEW I, NEW p \in I, NEW x \in I, Reach(d, I), I \ {x} \subseteq Made(e),
         x # ROOT_DIR_INUM,
         \A i \in I \ {x} : \A y : Kid(e, i, y) <=> Kid(d, i, y) /\ y # x,
         \A i \in I \ {x} : Kid(d, i, x) => i = p,
         \A y : Kid(d, x, y) => y \in {x, p}
  PROVE  Reach(e, I \ {x})
<1>1. ASSUME NEW V \in SUBSET Inum, ROOT_DIR_INUM \in V,
             \A i \in V : \A y : Kid(e, i, y) => y \in V
      PROVE  I \ {x} \subseteq V
  <2> DEFINE U == ((V \cap I) \ {x}) \cup {y \in {x} : p \in V}
  <2>1. ASSUME NEW i \in U, NEW y, Kid(d, i, y)
        PROVE  y \in U
    <3>0. y \in I
      BY <2>1, ReachOf
    <3>1. CASE i = x
      BY <2>1, <3>0, <3>1
    <3>2. CASE i # x /\ y = x
      BY <2>1, <3>2
    <3>3. CASE i # x /\ y # x
      BY <1>1, <2>1, <3>0, <3>3
    <3> QED
      BY <3>1, <3>2, <3>3
  <2>2. ROOT_DIR_INUM \in U /\ U \in SUBSET Inum
    BY <1>1, ReachOf
  <2> HIDE DEF U
  <2>3. I \subseteq U
    BY <2>1, <2>2, ReachOf
  <2> QED
    BY <2>3 DEF U
<1>2. \A i \in I \ {x} : \A y : Kid(e, i, y) => y \in I \ {x}
  BY ReachOf
<1>3. ROOT_DIR_INUM \in I \ {x}
  BY ReachOf
<1> QED
  BY <1>1, <1>2, <1>3, ReachBy

\* A name of file x is removed, and q has another one.
LEMMA ReachStill ==
  ASSUME NEW d, NEW e, NEW I, NEW q \in I, NEW x \in I, Reach(d, I), I \subseteq Made(e),
         q # x, Kid(e, q, x),
         \A i \in I : \A y : Kid(e, i, y) => Kid(d, i, y),
         \A i \in I : \A y : Kid(d, i, y) /\ y # x => Kid(e, i, y),
         \A y : ~ Kid(d, x, y)
  PROVE  Reach(e, I)
<1>1. ASSUME NEW V \in SUBSET Inum, ROOT_DIR_INUM \in V,
             \A i \in V : \A y : Kid(e, i, y) => y \in V
      PROVE  I \subseteq V
  <2> DEFINE U == (V \cap I) \cup {x}
  <2>1. ASSUME NEW i \in U, NEW y, Kid(d, i, y)
        PROVE  y \in U
    BY <1>1, <2>1, ReachOf
  <2>2. ROOT_DIR_INUM \in U /\ U \in SUBSET Inum
    BY <1>1, ReachOf
  <2> HIDE DEF U
  <2>3. I \subseteq U
    BY <2>1, <2>2, ReachOf
  <2>4. q \in V
    BY <2>3 DEF U
  <2> QED
    BY <1>1, <2>3, <2>4 DEF U
<1>2. \A i \in I : \A y : Kid(e, i, y) => y \in I
  BY ReachOf
<1> QED
  BY <1>1, <1>2, ReachOf, ReachBy

-----------------------------------------------------------------------------
(* What holds of every disk of a mounted file system *)

Disk == [magic : BOOLEAN, bmap : SUBSET (0 .. (BWORDS * W - 1)),
         imap : SUBSET (0 .. (IWORDS * W - 1)),
         inodes : [Inum -> Inode], blocks : [Blk -> Content]]

\* Entry j of directory i is a name of x.
Leads(d, i, j, x) ==
  /\ IsDir(d, i) /\ j \in 3 .. Len(Dentries(d, i))
  /\ Dentries(d, i)[j].valid /\ Dentries(d, i)[j].inum = x

\* What can be reached was written.
Kinds(d, I) ==
  /\ IsDir(d, ROOT_DIR_INUM)
  /\ \A i \in I : IsDir(d, i) \/ (IsFile(d, i) /\ d.inodes[i].ref >= 1)

\* A directory is a block of entries; the first two are "." and "..".
Dirs(d, I) ==
  \A i \in I : IsDir(d, i) =>
    /\ DirBlock(d, i) \in Blk
    /\ Len(Dentries(d, i)) \in 2 .. NDENTRIES
    /\ Dentries(d, i)[1] = [valid |-> TRUE, inum |-> i, name |-> "."]
    /\ Dentries(d, i)[2].valid /\ Dentries(d, i)[2].name = ".."
    /\ \A j \in 3 .. Len(Dentries(d, i)) : Dentries(d, i)[j].name \notin {".", ".."}

\* A directory other than the root has one name, in its parent.
OneName(d, I) ==
  /\ \A i, k, x \in I : \A j, l \in Nat :
       Leads(d, i, j, x) /\ Leads(d, k, l, x) /\ IsDir(d, x) => i = k /\ j = l
  /\ \A i, x \in I : \A j \in Nat :
       Leads(d, i, j, x) /\ IsDir(d, x) => x # ROOT_DIR_INUM /\ Dentries(d, x)[2].inum = i
  /\ \A x \in I : IsDir(d, x) /\ x # ROOT_DIR_INUM => \E i \in I, j \in Nat : Leads(d, i, j, x)
  /\ Dentries(d, ROOT_DIR_INUM)[2].inum = ROOT_DIR_INUM

\* No directory holds a name twice.
Distinct(d, I) ==
  \A i \in I : IsDir(d, i) =>
    \A j, k \in DOMAIN Dentries(d, i) :
      /\ Dentries(d, i)[j].valid /\ Dentries(d, i)[k].valid
      /\ Dentries(d, i)[j].name = Dentries(d, i)[k].name
      => j = k

\* The inodes and blocks in use are marked in the maps, in lower halves of
\* words, and no block is used twice.
Own(d, I) ==
  \A i \in I :
    /\ Usable(i) /\ i - 1 \in d.imap
    /\ \A k \in Direct : d.inodes[i].direct[k] # 0 =>
         /\ d.inodes[i].direct[k] \in Blk /\ Usable(d.inodes[i].direct[k])
         /\ d.inodes[i].direct[k] - 1 \in d.bmap
         /\ \A j \in I, l \in Direct :
              d.inodes[i].direct[k] = d.inodes[j].direct[l] => i = j /\ k = l

Maps(d) == Halves(d.imap) /\ Halves(d.bmap) /\ 0 .. (META - 1) \subseteq d.bmap

\* The first name that mkfs made is that of the test file.
First(d) ==
  /\ Len(Dentries(d, ROOT_DIR_INUM)) >= 3
  /\ Dentries(d, ROOT_DIR_INUM)[3].inum = TEST_BIG_FILE_INUM
  /\ Dentries(d, ROOT_DIR_INUM)[3].valid => IsFile(d, TEST_BIG_FILE_INUM)

Fine(d, I) ==
  /\ Reach(d, I) /\ Kinds(d, I) /\ Dirs(d, I) /\ OneName(d, I) /\ Distinct(d, I)
  /\ Own(d, I) /\ Maps(d) /\ First(d)

\* A file has at least as many references as names.
Linked(d, I) ==
  \A x \in I : IsFile(d, x) => Cardinality(NamesOf(d, I, x)) <= d.inodes[x].ref

\* The handles lead to directories and files that can be reached.
Handles(d, I) ==
  /\ \A p \in Proc : cwd[p] # 0 => cwd[p] \in I /\ IsDir(d, cwd[p])
  /\ \A fd \in Fd : fdesc[fd].inum # 0 => fdesc[fd].inum \in I /\ IsFile(d, fdesc[fd].inum)

-----------------------------------------------------------------------------
(* Writes that change no directory in use *)

\* The writes that lead from d to e leave kinds and entries alone.
Alike(d, e, I) ==
  \A i \in I :
    /\ e.inodes[i].type = d.inodes[i].type
    /\ IsDir(d, i) => DirBlock(e, i) = DirBlock(d, i) /\ Dentries(e, i) = Dentries(d, i)
    /\ IsFile(d, i) => e.inodes[i].ref >= 1

LEMMA MadeOf ==
  ASSUME NEW d, NEW i \in Inum, IsDir(d, i) \/ IsFile(d, i)
  PROVE  i \in Made(d)
<1>1. d.inodes[i].type # "NONE"
  BY DEF IsDir, IsFile
<1>2. ZeroInode.type = "NONE"
  BY DEF ZeroInode
<1> QED
  BY <1>1, <1>2 DEF Made

\* The entries of a directory in use.
LEMMA EntriesOf ==
  ASSUME NEW d \in Disk, NEW I, Dirs(d, I), NEW i \in I, IsDir(d, i)
  PROVE  /\ DirBlock(d, i) \in Blk /\ Dentries(d, i) \in Seq(Dentry)
         /\ Len(Dentries(d, i)) \in Nat /\ Len(Dentries(d, i)) \in 2 .. NDENTRIES
         /\ DOMAIN Dentries(d, i) = 1 .. Len(Dentries(d, i))
         /\ \A j \in DOMAIN Dentries(d, i) : Dentries(d, i)[j] \in Dentry
<1>1. DirBlock(d, i) \in Blk /\ Len(Dentries(d, i)) \in 2 .. NDENTRIES
  BY DEF Dirs
<1>2. d.blocks[DirBlock(d, i)] \in Content
  BY <1>1 DEF Disk
<1>3. Dentries(d, i) \in Seq(Dentry)
  BY <1>2 DEF Content, Dentries
<1> QED
  BY <1>1, <1>3, FsAssumption

LEMMA StillFine ==
  ASSUME NEW d \in Disk, NEW e, NEW I, Fine(d, I), Alike(d, e, I), Own(e, I), Maps(e)
  PROVE  Fine(e, I)
<1>1. /\ I \subseteq Inum /\ ROOT_DIR_INUM \in I
      /\ \A i \in I : \A x : Kid(d, i, x) => x \in I
  BY ReachOf DEF Fine
<1>2. \A i \in I : (IsDir(e, i) <=> IsDir(d, i)) /\ (IsFile(e, i) <=> IsFile(d, i))
  BY DEF Alike, IsDir, IsFile
<1>3. Kinds(e, I)
  BY <1>1, <1>2 DEF Fine, Kinds, Alike
<1>4. \A i \in I : \A x : Kid(e, i, x) <=> Kid(d, i, x)
  BY <1>2 DEF Kid, Alike
<1>5. Reach(e, I)
  <2>1. I \subseteq Made(e)
    BY <1>1, <1>3, MadeOf DEF Kinds
  <2> QED
    BY <1>4, <2>1, ReachSame DEF Fine
<1>6. \A i \in I : \A j, x : Leads(e, i, j, x) <=> Leads(d, i, j, x)
  BY <1>2 DEF Leads, Alike
<1>7. Dirs(e, I)
  BY <1>2 DEF Fine, Dirs, Alike
<1>8. OneName(e, I)
  <2>1. IsDir(d, ROOT_DIR_INUM)
    BY DEF Fine, Kinds
  <2>2. \A x \in I : IsDir(d, x) => Dentries(e, x) = Dentries(d, x)
    BY DEF Alike
  <2> QED
    BY <1>1, <1>2, <1>6, <2>1, <2>2 DEF Fine, OneName
<1>9. Distinct(e, I)
  BY <1>2 DEF Fine, Distinct, Alike
<1>10. First(e)
  <2>1. IsDir(d, ROOT_DIR_INUM) /\ Dentries(e, ROOT_DIR_INUM) = Dentries(d, ROOT_DIR_INUM)
    BY <1>1 DEF Fine, Kinds, Alike
  <2>2. First(d)
    BY DEF Fine
  <2>3. Dentries(d, ROOT_DIR_INUM)[3].valid => TEST_BIG_FILE_INUM \in I
    <3>1. 3 \in DOMAIN Dentries(d, ROOT_DIR_INUM)
      BY <1>1, <2>1, <2>2, EntriesOf DEF First, Fine
    <3> QED
      BY <1>1, <2>1, <2>2, <3>1 DEF First, Kid
  <2> QED
    BY <1>2, <2>1, <2>2, <2>3 DEF First
<1> QED
  BY <1>3, <1>5, <1>7, <1>8, <1>9, <1>10 DEF Fine

LEMMA StillOwn ==
  ASSUME NEW d, NEW e, NEW I, Own(d, I),
         \A i \in I : e.inodes[i].direct = d.inodes[i].direct /\ i - 1 \in e.imap,
         \A i \in I : \A k \in Direct :
           d.inodes[i].direct[k] # 0 => d.inodes[i].direct[k] - 1 \in e.bmap
  PROVE  Own(e, I)
BY DEF Own

LEMMA StillHandles ==
  ASSUME NEW d, NEW e, NEW I, Handles(d, I), Alike(d, e, I)
  PROVE  Handles(e, I)
<1>1. \A i \in I : (IsDir(e, i) <=> IsDir(d, i)) /\ (IsFile(e, i) <=> IsFile(d, i))
  BY DEF Alike, IsDir, IsFile
<1> QED
  BY <1>1 DEF Handles

LEMMA NamesFinite ==
  ASSUME NEW d, NEW I \in SUBSET Inum, NEW x
  PROVE  IsFiniteSet(NamesOf(d, I, x)) /\ Cardinality(NamesOf(d, I, x)) \in Nat
<1>1. IsFiniteSet(Inum)
  <2>1. IWORDS * W \in Nat
    BY Products, FsAssumption
  <2> QED
    BY <2>1, FS_Interval DEF Inum
<1>2. IsFiniteSet(I)
  BY <1>1, FS_Subset
<1>3. IsFiniteSet(1 .. NDENTRIES)
  BY FS_Interval, FsAssumption
<1>4. IsFiniteSet(I \X (1 .. NDENTRIES))
  BY <1>2, <1>3, FS_Product
<1>5. NamesOf(d, I, x) \subseteq I \X (1 .. NDENTRIES)
  BY DEF NamesOf
<1>6. IsFiniteSet(NamesOf(d, I, x))
  BY <1>4, <1>5, FS_Subset
<1> QED
  BY <1>6, FS_CardinalityType

\* The names of x, entry by entry.
LEMMA NamesAre ==
  ASSUME NEW d \in Disk, NEW I \in SUBSET Inum, Dirs(d, I), NEW x, NEW i, NEW j
  PROVE  <<i, j>> \in NamesOf(d, I, x) <=> i \in I /\ Leads(d, i, j, x)
<1>1. <<i, j>> \in NamesOf(d, I, x) <=>
        /\ i \in I /\ j \in 1 .. NDENTRIES /\ IsDir(d, i) /\ j \in DOMAIN Dentries(d, i)
        /\ Dentries(d, i)[j].valid /\ Dentries(d, i)[j].inum = x
        /\ Dentries(d, i)[j].name \notin {".", ".."}
  BY DEF NamesOf, IsDir
<1>2. CASE i \in I /\ IsDir(d, i)
  <2> DEFINE n == Len(Dentries(d, i))
  <2>1. n \in Nat /\ n \in 2 .. NDENTRIES /\ DOMAIN Dentries(d, i) = 1 .. n /\ NDENTRIES \in Nat
    BY <1>2, EntriesOf, FsAssumption
  <2>2. Dentries(d, i)[1].name = "." /\ Dentries(d, i)[2].name = ".."
        /\ \A k \in 3 .. n : Dentries(d, i)[k].name \notin {".", ".."}
    <3>1. Dentries(d, i)[1] = [valid |-> TRUE, inum |-> i, name |-> "."]
      BY <1>2 DEF Dirs
    <3>2. Dentries(d, i)[1].name = "."
      BY <3>1
    <3>3. Dentries(d, i)[2].name = ".."
          /\ \A k \in 3 .. n : Dentries(d, i)[k].name \notin {".", ".."}
      BY <1>2 DEF Dirs
    <3> QED
      BY <3>2, <3>3
  <2>3. j \in 3 .. n <=> (j \in 1 .. NDENTRIES /\ j \in 1 .. n /\ j # 1 /\ j # 2)
    BY <2>1
  <2> QED
    BY <1>1, <1>2, <2>1, <2>2, <2>3 DEF Leads
<1> QED
  BY <1>1, <1>2 DEF Leads

LEMMA StillLinked ==
  ASSUME NEW d \in Disk, NEW e \in Disk, NEW I \in SUBSET Inum, Linked(d, I), Alike(d, e, I),
         \A i \in I : IsFile(d, i) => e.inodes[i].ref >= d.inodes[i].ref
  PROVE  Linked(e, I)
<1>1. \A i \in I : (IsDir(e, i) <=> IsDir(d, i)) /\ (IsFile(e, i) <=> IsFile(d, i))
  BY DEF Alike, IsDir, IsFile
<1>2. \A x : NamesOf(e, I, x) = NamesOf(d, I, x)
  BY <1>1 DEF NamesOf, Alike, IsDir
<1>3. \A i \in I : e.inodes[i].ref \in Nat /\ d.inodes[i].ref \in Nat
  BY DEF Disk, Inode
<1>4. \A x \in I : Cardinality(NamesOf(d, I, x)) \in Nat
  BY NamesFinite
<1> SUFFICES ASSUME NEW x \in I, IsFile(e, x)
             PROVE  Cardinality(NamesOf(e, I, x)) <= e.inodes[x].ref
  BY DEF Linked
<1>5. Cardinality(NamesOf(d, I, x)) <= d.inodes[x].ref
  BY <1>1 DEF Linked
<1> QED
  BY <1>1, <1>2, <1>3, <1>4, <1>5

-----------------------------------------------------------------------------
(* Sequences of disks, and single writes *)

\* t is s with one more disk.
Grown(s, t) ==
  /\ t \in Seq(Disk) /\ t # <<>> /\ Len(t) = Len(s) + 1 /\ t[Len(t)] = Last(t)
  /\ \A k \in 1 .. Len(s) : t[k] = s[k]

\* e is d with another map, inode or block.
Rest(d, e, fields) ==
  /\ e \in Disk
  /\ e.magic = d.magic
  /\ "imap" \in fields \/ e.imap = d.imap
  /\ "bmap" \in fields \/ e.bmap = d.bmap
  /\ "inodes" \in fields \/ e.inodes = d.inodes
  /\ "blocks" \in fields \/ e.blocks = d.blocks

LEMMA AppendGrown ==
  ASSUME NEW s \in Seq(Disk), NEW e \in Disk
  PROVE  Grown(s, Append(s, e)) /\ Last(Append(s, e)) = e
BY DEF Last, Grown

LEMMA LastIn ==
  ASSUME NEW S, NEW s \in Seq(S), s # <<>>
  PROVE  Last(s) \in S /\ Last(s) = s[Len(s)] /\ Len(s) \in Nat \ {0}
BY DEF Last

LEMMA WriteImap ==
  ASSUME NEW s \in Seq(Disk), s # <<>>, NEW m \in SUBSET (0 .. (IWORDS * W - 1)),
         NEW t, t = Write(s, "imap", m)
  PROVE  Grown(s, t) /\ Rest(Last(s), Last(t), {"imap"}) /\ Last(t).imap = m
<1> DEFINE d == Last(s)
           e == [d EXCEPT !["imap"] = m]
<1>1. d \in Disk
  BY LastIn
<1>2. t = Append(s, e)
  BY DEF Write
<1> HIDE DEF d
<1>3. e \in Disk /\ Rest(d, e, {"imap"}) /\ e.imap = m
  BY <1>1 DEF Disk, Rest
<1> HIDE DEF e
<1> QED
  BY <1>2, <1>3, AppendGrown DEF d

LEMMA WriteBmap ==
  ASSUME NEW s \in Seq(Disk), s # <<>>, NEW m \in SUBSET (0 .. (BWORDS * W - 1)),
         NEW t, t = Write(s, "bmap", m)
  PROVE  Grown(s, t) /\ Rest(Last(s), Last(t), {"bmap"}) /\ Last(t).bmap = m
<1> DEFINE d == Last(s)
           e == [d EXCEPT !["bmap"] = m]
<1>1. d \in Disk
  BY LastIn
<1>2. t = Append(s, e)
  BY DEF Write
<1> HIDE DEF d
<1>3. e \in Disk /\ Rest(d, e, {"bmap"}) /\ e.bmap = m
  BY <1>1 DEF Disk, Rest
<1> HIDE DEF e
<1> QED
  BY <1>2, <1>3, AppendGrown DEF d

LEMMA WriteInode ==
  ASSUME NEW s \in Seq(Disk), s # <<>>, NEW i \in Inum, NEW v \in Inode,
         NEW t, t = write_inode(s, i, v)
  PROVE  /\ Grown(s, t) /\ Rest(Last(s), Last(t), {"inodes"})
         /\ Last(t).inodes[i] = v
         /\ \A j \in Inum \ {i} : Last(t).inodes[j] = Last(s).inodes[j]
<1> DEFINE d == Last(s)
           new == Put(d.inodes, i, v)
           e == [d EXCEPT !["inodes"] = new]
<1>1. d \in Disk
  BY LastIn
<1>2. t = Append(s, e)
  BY DEF Write, write_inode
<1> HIDE DEF d
<1>3. d.inodes \in [Inum -> Inode]
  BY <1>1 DEF Disk
<1>4. new \in [Inum -> Inode] /\ new[i] = v /\ \A j \in Inum \ {i} : new[j] = d.inodes[j]
  <2>1. DOMAIN d.inodes \cup {i} = Inum
    BY <1>3
  <2> QED
    BY <1>3, <2>1 DEF Put
<1> HIDE DEF new
<1>5. e \in Disk /\ Rest(d, e, {"inodes"}) /\ e.inodes = new
  BY <1>1, <1>4 DEF Disk, Rest
<1> HIDE DEF e
<1> QED
  BY <1>2, <1>4, <1>5, AppendGrown DEF d

LEMMA WriteBlock ==
  ASSUME NEW s \in Seq(Disk), s # <<>>, NEW b \in Blk, NEW c \in Content,
         NEW t, t = write_block(s, b, c)
  PROVE  /\ Grown(s, t) /\ Rest(Last(s), Last(t), {"blocks"})
         /\ Last(t).blocks[b] = c
         /\ \A j \in Blk \ {b} : Last(t).blocks[j] = Last(s).blocks[j]
<1> DEFINE d == Last(s)
           new == Put(d.blocks, b, c)
           e == [d EXCEPT !["blocks"] = new]
<1>1. d \in Disk
  BY LastIn
<1>2. t = Append(s, e)
  BY DEF Write, write_block
<1> HIDE DEF d
<1>3. d.blocks \in [Blk -> Content]
  BY <1>1 DEF Disk
<1>4. new \in [Blk -> Content] /\ new[b] = c /\ \A j \in Blk \ {b} : new[j] = d.blocks[j]
  <2>1. DOMAIN d.blocks \cup {b} = Blk
    BY <1>3
  <2> QED
    BY <1>3, <2>1 DEF Put
<1> HIDE DEF new
<1>5. e \in Disk /\ Rest(d, e, {"blocks"}) /\ e.blocks = new
  BY <1>1, <1>4 DEF Disk, Rest
<1> HIDE DEF e
<1> QED
  BY <1>2, <1>4, <1>5, AppendGrown DEF d

\* A block of a file, or of entries.
LEMMA Contents ==
  /\ ZeroBlock \in Content /\ ZeroInode \in Inode
  /\ \A es \in Seq(Dentry) : [ZeroBlock EXCEPT !.dentries = es] \in Content
                             /\ [ZeroBlock EXCEPT !.dentries = es].dentries = es
  /\ \A bs \in [1 .. NBYTES_PER_BLOCK -> Int] :
       [ZeroBlock EXCEPT !.bytes = bs] \in Content /\ [ZeroBlock EXCEPT !.bytes = bs].bytes = bs
       /\ [ZeroBlock EXCEPT !.bytes = bs].dentries = <<>>
       /\ [ZeroBlock EXCEPT !.bytes = bs].ptrs = ZeroBlock.ptrs
<1>1. ZeroBlock = [dentries |-> ZeroBlock.dentries, bytes |-> ZeroBlock.bytes, ptrs |-> ZeroBlock.ptrs]
  BY DEF ZeroBlock
<1>2. ZeroBlock.dentries = <<>> /\ ZeroBlock.bytes \in [1 .. NBYTES_PER_BLOCK -> Int]
      /\ ZeroBlock.ptrs \in [1 .. NINDIRECT_BLOCKS -> Nat]
  BY DEF ZeroBlock, ZeroBytes
<1>3. <<>> \in Seq(Dentry)
  OBVIOUS
<1>4. ZeroInode \in Inode
  BY DEF ZeroInode, Inode
<1> QED
  BY <1>1, <1>2, <1>3, <1>4 DEF Content

-----------------------------------------------------------------------------
(* What the writes of a call keep *)

LEMMA FineOf ==
  ASSUME NEW d, NEW I, Fine(d, I)
  PROVE  /\ I \subseteq Inum /\ ROOT_DIR_INUM \in I /\ I \in SUBSET Inum
         /\ \A i \in I : \A x : Kid(d, i, x) => x \in I
BY ReachOf DEF Fine

LEMMA AlikeSame ==
  ASSUME NEW d, NEW e, NEW I, Fine(d, I),
         \A i \in I : e.inodes[i] = d.inodes[i],
         \A i \in I : IsDir(d, i) => e.blocks[DirBlock(d, i)] = d.blocks[DirBlock(d, i)]
  PROVE  Alike(d, e, I)
<1>1. \A i \in I : IsFile(d, i) => d.inodes[i].ref >= 1
  BY DEF Fine, Kinds, IsDir, IsFile
<1>2. \A i \in I : DirBlock(e, i) = DirBlock(d, i)
  BY DEF DirBlock
<1> QED
  BY <1>1, <1>2 DEF Alike, Dentries

\* A new inode: its number was not in use.
LEMMA AllocInode ==
  ASSUME NEW s \in Seq(Disk), s # <<>>, NEW I, Fine(Last(s), I),
         ~ 0 .. (IWORDS * W - 1) \subseteq Last(s).imap,
         NEW a, a = alloc_inode(s)
  PROVE  /\ Grown(s, a.s) /\ Rest(Last(s), Last(a.s), {"imap"})
         /\ Fine(Last(a.s), I) /\ Alike(Last(s), Last(a.s), I)
         /\ a.num \in Inum /\ a.num \notin I /\ Usable(a.num) /\ a.num - 1 \in Last(a.s).imap
<1> DEFINE d == Last(s)
           b == FirstOf(d.imap, IWORDS)
           m == Taken(d.imap, b)
           t == Write(s, "imap", m)
           e == Last(a.s)
<1>1. a.s = t /\ a.num = b + 1
  BY DEF alloc_inode, FirstOf, Taken
<1>2. d \in Disk /\ Halves(d.imap) /\ Own(d, I) /\ Maps(d)
  BY LastIn DEF Fine, Maps
<1>3. IWORDS \in Nat /\ d.imap \subseteq AllBits(IWORDS) /\ ~ AllBits(IWORDS) \subseteq d.imap
  BY <1>2, FsAssumption DEF Disk, AllBits
<1> HIDE DEF d
<1>4. /\ b \in AllBits(IWORDS) /\ b \notin d.imap
      /\ Usable(b + 1) /\ b \in m /\ d.imap \subseteq m
      /\ m \subseteq AllBits(IWORDS) /\ Halves(m)
  BY <1>2, <1>3, TakeBit
<1> HIDE DEF m, b
<1>5. Grown(s, t) /\ Rest(d, Last(t), {"imap"}) /\ Last(t).imap = m
  BY <1>4, WriteImap DEF d, AllBits
<1> HIDE DEF t
<1>6. Rest(d, e, {"imap"}) /\ e.imap = m
  BY <1>1, <1>5
<1> HIDE DEF e
<1>7. e.inodes = d.inodes /\ e.blocks = d.blocks /\ e.bmap = d.bmap
  BY <1>6 DEF Rest
<1>8. Fine(d, I)
  BY DEF d
<1>9. Alike(d, e, I)
  BY <1>7, <1>8, AlikeSame
<1>10. Own(e, I)
  BY <1>2, <1>4, <1>6, <1>7 DEF Own
<1>11. Maps(e)
  BY <1>2, <1>4, <1>6, <1>7 DEF Maps
<1>12. Fine(e, I)
  BY <1>2, <1>8, <1>9, <1>10, <1>11, StillFine
<1>13. IWORDS * W \in Nat
  BY Products, FsAssumption
<1>14. a.num \in Inum /\ a.num - 1 = b
  BY <1>1, <1>4, <1>13 DEF Inum, AllBits
<1>15. a.num \notin I
  BY <1>2, <1>4, <1>14 DEF Own
<1> QED
  BY <1>1, <1>4, <1>5, <1>6, <1>9, <1>12, <1>14, <1>15 DEF d, e

\* A new block: no inode in use has it.
LEMMA AllocBlock ==
  ASSUME NEW s \in Seq(Disk), s # <<>>, NEW I, Fine(Last(s), I),
         ~ 0 .. (BWORDS * W - 1) \subseteq Last(s).bmap,
         NEW a, a = alloc_block(s)
  PROVE  /\ Grown(s, a.s) /\ Rest(Last(s), Last(a.s), {"bmap"})
         /\ Fine(Last(a.s), I) /\ Alike(Last(s), Last(a.s), I)
         /\ a.num \in Blk /\ Usable(a.num) /\ a.num - 1 \in Last(a.s).bmap
         /\ \A i \in I, k \in Direct : Last(a.s).inodes[i].direct[k] # a.num
<1> DEFINE d == Last(s)
           b == FirstOf(d.bmap, BWORDS)
           m == Taken(d.bmap, b)
           t == Write(s, "bmap", m)
           e == Last(a.s)
<1>1. a.s = t /\ a.num = b + 1
  BY DEF alloc_block, FirstOf, Taken
<1>2. d \in Disk /\ Halves(d.bmap) /\ Own(d, I) /\ Maps(d)
  BY LastIn DEF Fine, Maps
<1>3. BWORDS \in Nat /\ d.bmap \subseteq AllBits(BWORDS) /\ ~ AllBits(BWORDS) \subseteq d.bmap
  BY <1>2, FsAssumption DEF Disk, AllBits
<1> HIDE DEF d
<1>4. /\ b \in AllBits(BWORDS) /\ b \notin d.bmap
      /\ Usable(b + 1) /\ b \in m /\ d.bmap \subseteq m
      /\ m \subseteq AllBits(BWORDS) /\ Halves(m)
  BY <1>2, <1>3, TakeBit
<1> HIDE DEF m, b
<1>5. Grown(s, t) /\ Rest(d, Last(t), {"bmap"}) /\ Last(t).bmap = m
  BY <1>4, WriteBmap DEF d, AllBits
<1> HIDE DEF t
<1>6. Rest(d, e, {"bmap"}) /\ e.bmap = m
  BY <1>1, <1>5
<1> HIDE DEF e
<1>7. e.inodes = d.inodes /\ e.blocks = d.blocks /\ e.imap = d.imap
  BY <1>6 DEF Rest
<1>8. Fine(d, I)
  BY DEF d
<1>9. Alike(d, e, I)
  BY <1>7, <1>8, AlikeSame
<1>10. Own(e, I)
  BY <1>2, <1>4, <1>6, <1>7 DEF Own
<1>11. Maps(e)
  BY <1>2, <1>4, <1>6, <1>7 DEF Maps
<1>12. Fine(e, I)
  BY <1>2, <1>8, <1>9, <1>10, <1>11, StillFine
<1>13. BWORDS * W \in Nat /\ META \in Nat
  BY Products, FsAssumption
<1>14. a.num \in Blk /\ a.num - 1 = b /\ a.num # 0
  BY <1>1, <1>2, <1>4, <1>13 DEF Blk, Maps, AllBits
<1>15. \A i \in I, k \in Direct : e.inodes[i].direct[k] # a.num
  BY <1>2, <1>4, <1>7, <1>14 DEF Own
<1> QED
  BY <1>1, <1>4, <1>5, <1>6, <1>9, <1>12, <1>14, <1>15 DEF d, e

\* An inode that is not in use is written.
LEMMA WriteSpareInode ==
  ASSUME NEW s \in Seq(Disk), s # <<>>, NEW I, Fine(Last(s), I),
         NEW x \in Inum, x \notin I, NEW v \in Inode, NEW t, t = write_inode(s, x, v)
  PROVE  /\ Grown(s, t) /\ Rest(Last(s), Last(t), {"inodes"}) /\ Last(t).inodes[x] = v
         /\ \A i \in I : Last(t).inodes[i] = Last(s).inodes[i]
         /\ Fine(Last(t), I) /\ Alike(Last(s), Last(t), I)
<1> DEFINE d == Last(s)
           e == Last(t)
<1>1. /\ Grown(s, t) /\ Rest(d, e, {"inodes"}) /\ e.inodes[x] = v
      /\ \A j \in Inum \ {x} : e.inodes[j] = d.inodes[j]
  BY WriteInode
<1>2. d \in Disk /\ Fine(d, I) /\ Own(d, I) /\ Maps(d)
  BY LastIn DEF Fine
<1> HIDE DEF d, e
<1>3. \A i \in I : e.inodes[i] = d.inodes[i]
  BY <1>1, <1>2, FineOf
<1>4. e.blocks = d.blocks /\ e.imap = d.imap /\ e.bmap = d.bmap
  BY <1>1 DEF Rest
<1>5. Alike(d, e, I)
  BY <1>2, <1>3, <1>4, AlikeSame
<1>6. Own(e, I) /\ Maps(e)
  BY <1>2, <1>3, <1>4 DEF Own, Maps
<1>7. Fine(e, I)
  BY <1>2, <1>5, <1>6, StillFine
<1> QED
  BY <1>1, <1>3, <1>5, <1>7 DEF d, e

\* A block that holds no directory in use is written.
LEMMA WriteSpareBlock ==
  ASSUME NEW s \in Seq(Disk), s # <<>>, NEW I, Fine(Last(s), I),
         NEW b \in Blk, \A i \in I : IsDir(Last(s), i) => DirBlock(Last(s), i) # b,
         NEW c \in Content, NEW t, t = write_block(s, b, c)
  PROVE  /\ Grown(s, t) /\ Rest(Last(s), Last(t), {"blocks"}) /\ Last(t).blocks[b] = c
         /\ \A j \in Blk \ {b} : Last(t).blocks[j] = Last(s).blocks[j]
         /\ Fine(Last(t), I) /\ Alike(Last(s), Last(t), I)
<1> DEFINE d == Last(s)
           e == Last(t)
<1>1. /\ Grown(s, t) /\ Rest(d, e, {"blocks"}) /\ e.blocks[b] = c
      /\ \A j \in Blk \ {b} : e.blocks[j] = d.blocks[j]
  BY WriteBlock
<1>2. d \in Disk /\ Fine(d, I) /\ Own(d, I) /\ Maps(d) /\ Dirs(d, I)
  BY LastIn DEF Fine
<1>3. \A i \in I : IsDir(d, i) => DirBlock(d, i) # b
  OBVIOUS
<1> HIDE DEF d, e
<1>4. e.inodes = d.inodes /\ e.imap = d.imap /\ e.bmap = d.bmap
  BY <1>1 DEF Rest
<1>5. \A i \in I : IsDir(d, i) => e.blocks[DirBlock(d, i)] = d.blocks[DirBlock(d, i)]
  BY <1>1, <1>2, <1>3 DEF Dirs
<1>6. Alike(d, e, I)
  BY <1>2, <1>4, <1>5, AlikeSame
<1>7. Own(e, I) /\ Maps(e)
  BY <1>2, <1>4 DEF Own, Maps
<1>8. Fine(e, I)
  BY <1>2, <1>6, <1>7, StillFine
<1> QED
  BY <1>1, <1>6, <1>8 DEF d, e

-----------------------------------------------------------------------------
(* A name is added *)

LEMMA OneBlock ==
  ASSUME NEW d, NEW I, Own(d, I), NEW i \in I, NEW k \in I,
         DirBlock(d, i) \in Blk, DirBlock(d, i) = DirBlock(d, k)
  PROVE  i = k
<1>1. 1 \in Direct /\ 0 \notin Blk
  BY FsAssumption DEF Direct, Blk
<1> QED
  BY <1>1 DEF Own, DirBlock

\* Directory p gets an entry n for x.
Added(d, e, p, x, n) ==
  /\ Rest(d, e, {"blocks"})
  /\ Dentries(e, p) = Append(Dentries(d, p), [valid |-> TRUE, inum |-> x, name |-> n])
  /\ \A b \in Blk \ {DirBlock(d, p)} : e.blocks[b] = d.blocks[b]

\* x can be named in p: a file, or a new directory.
Nameable(d, I, p, x) ==
  /\ x \in Inum /\ Own(d, I \cup {x})
  /\ \/ IsFile(d, x) /\ d.inodes[x].ref >= 1
     \/ /\ x \notin I /\ IsDir(d, x) /\ DirBlock(d, x) \in Blk
        /\ Len(Dentries(d, x)) = 2
        /\ Dentries(d, x)[1] = [valid |-> TRUE, inum |-> x, name |-> "."]
        /\ Dentries(d, x)[2] = [valid |-> TRUE, inum |-> p, name |-> ".."]

Fits(d, p, n) ==
  /\ IsDir(d, p) /\ Len(Dentries(d, p)) < NDENTRIES
  /\ n \notin {".", ".."}
  /\ \A j \in DOMAIN Dentries(d, p) : Dentries(d, p)[j].valid => Dentries(d, p)[j].name # n

LEMMA AddedEntries ==
  ASSUME NEW d \in Disk, NEW e \in Disk, NEW I, Fine(d, I), NEW p \in I, NEW x, NEW n,
         Nameable(d, I, p, x), Fits(d, p, n), Added(d, e, p, x, n)
  PROVE  /\ p # x /\ (x \notin I \/ ~ IsDir(d, x))
         /\ \A i : (IsDir(e, i) <=> IsDir(d, i)) /\ (IsFile(e, i) <=> IsFile(d, i))
                 /\ DirBlock(e, i) = DirBlock(d, i)
         /\ \A i \in I \cup {x} : IsDir(d, i) /\ i # p => Dentries(e, i) = Dentries(d, i)
         /\ Len(Dentries(d, p)) \in Nat /\ Len(Dentries(e, p)) = Len(Dentries(d, p)) + 1
         /\ DOMAIN Dentries(e, p) = 1 .. (Len(Dentries(d, p)) + 1)
         /\ DOMAIN Dentries(d, p) = 1 .. Len(Dentries(d, p))
         /\ \A j \in DOMAIN Dentries(d, p) : Dentries(e, p)[j] = Dentries(d, p)[j]
         /\ Dentries(e, p)[Len(Dentries(d, p)) + 1] = [valid |-> TRUE, inum |-> x, name |-> n]
<1>1. p # x /\ (x \notin I \/ ~ IsDir(d, x))
  BY DEF Nameable, Fits, IsDir, IsFile
<1>2. e.inodes = d.inodes
  BY DEF Added, Rest
<1>3. \A i : (IsDir(e, i) <=> IsDir(d, i)) /\ (IsFile(e, i) <=> IsFile(d, i))
            /\ DirBlock(e, i) = DirBlock(d, i)
  BY <1>2 DEF IsDir, IsFile, DirBlock
<1>4. Dirs(d, I) /\ IsDir(d, p)
  BY DEF Fine, Fits
<1>5. ASSUME NEW i \in I \cup {x}, IsDir(d, i), i # p
      PROVE  Dentries(e, i) = Dentries(d, i)
  <2>1. DirBlock(d, i) \in Blk
    BY <1>4, <1>5 DEF Nameable, Dirs, IsDir, IsFile
  <2>2. DirBlock(d, i) # DirBlock(d, p)
    <3>1. Own(d, I \cup {x})
      BY DEF Nameable
    <3> QED
      BY <1>5, <2>1, <3>1, OneBlock
  <2>3. e.blocks[DirBlock(d, i)] = d.blocks[DirBlock(d, i)]
    BY <2>1, <2>2 DEF Added
  <2> QED
    BY <1>3, <2>3 DEF Dentries
<1>6. /\ Dentries(d, p) \in Seq(Dentry) /\ Len(Dentries(d, p)) \in Nat
      /\ DOMAIN Dentries(d, p) = 1 .. Len(Dentries(d, p))
  BY <1>4, EntriesOf
<1>7. Dentries(e, p) = Append(Dentries(d, p), [valid |-> TRUE, inum |-> x, name |-> n])
  BY DEF Added
<1>8. /\ Len(Dentries(e, p)) = Len(Dentries(d, p)) + 1
      /\ DOMAIN Dentries(e, p) = 1 .. (Len(Dentries(d, p)) + 1)
      /\ \A j \in DOMAIN Dentries(d, p) : Dentries(e, p)[j] = Dentries(d, p)[j]
      /\ Dentries(e, p)[Len(Dentries(d, p)) + 1] = [valid |-> TRUE, inum |-> x, name |-> n]
  <2> DEFINE es == Dentries(d, p)
             fs == Dentries(e, p)
             r == [valid |-> TRUE, inum |-> x, name |-> n]
  <2>1. es \in Seq(Dentry) /\ fs = Append(es, r)
    BY <1>6, <1>7
  <2> HIDE DEF es, fs, r
  <2>2. /\ Len(fs) = Len(es) + 1 /\ DOMAIN fs = 1 .. (Len(es) + 1)
        /\ \A j \in DOMAIN es : fs[j] = es[j]
        /\ fs[Len(es) + 1] = r
    BY <2>1
  <2> QED
    BY <2>2 DEF es, fs, r
<1>9. \A i \in I \cup {x} : IsDir(d, i) /\ i # p => Dentries(e, i) = Dentries(d, i)
  BY <1>5
<1> QED
  BY <1>1, <1>3, <1>6, <1>8, <1>9, Zenon

LEMMA AddFine ==
  ASSUME NEW d \in Disk, NEW e \in Disk, NEW I, Fine(d, I), NEW p \in I, NEW x, NEW n,
         Nameable(d, I, p, x), Fits(d, p, n), Added(d, e, p, x, n)
  PROVE  /\ Fine(e, I \cup {x})
         /\ \A i \in I \cup {x} : \A j, y :
              Leads(e, i, j, y) <=>
                Leads(d, i, j, y) \/ (i = p /\ j = Len(Dentries(d, p)) + 1 /\ y = x)
<1> DEFINE J == I \cup {x}
           len == Len(Dentries(d, p))
<1>1. /\ p # x /\ (x \notin I \/ ~ IsDir(d, x))
      /\ \A i : (IsDir(e, i) <=> IsDir(d, i)) /\ (IsFile(e, i) <=> IsFile(d, i))
              /\ DirBlock(e, i) = DirBlock(d, i)
      /\ \A i \in J : IsDir(d, i) /\ i # p => Dentries(e, i) = Dentries(d, i)
      /\ len \in Nat /\ Len(Dentries(e, p)) = len + 1
      /\ DOMAIN Dentries(e, p) = 1 .. (len + 1) /\ DOMAIN Dentries(d, p) = 1 .. len
      /\ \A j \in 1 .. len : Dentries(e, p)[j] = Dentries(d, p)[j]
      /\ Dentries(e, p)[len + 1].valid /\ Dentries(e, p)[len + 1].inum = x
      /\ Dentries(e, p)[len + 1].name = n
  <2>1. Dentries(e, p)[len + 1] = [valid |-> TRUE, inum |-> x, name |-> n]
    BY AddedEntries
  <2>2. Dentries(e, p)[len + 1].valid /\ Dentries(e, p)[len + 1].inum = x
        /\ Dentries(e, p)[len + 1].name = n
    BY <2>1
  <2>3. /\ p # x /\ (x \notin I \/ ~ IsDir(d, x))
        /\ \A i : (IsDir(e, i) <=> IsDir(d, i)) /\ (IsFile(e, i) <=> IsFile(d, i))
                /\ DirBlock(e, i) = DirBlock(d, i)
        /\ \A i \in J : IsDir(d, i) /\ i # p => Dentries(e, i) = Dentries(d, i)
    BY AddedEntries, ZenonT(40)
  <2>4. /\ len \in Nat /\ Len(Dentries(e, p)) = len + 1
        /\ DOMAIN Dentries(e, p) = 1 .. (len + 1) /\ DOMAIN Dentries(d, p) = 1 .. len
        /\ \A j \in DOMAIN Dentries(d, p) : Dentries(e, p)[j] = Dentries(d, p)[j]
    BY AddedEntries, Zenon
  <2> QED
    BY <2>2, <2>3, <2>4, Zenon
<1>2. /\ I \subseteq Inum /\ ROOT_DIR_INUM \in I /\ x \in Inum
      /\ \A i \in I : \A y : Kid(d, i, y) => y \in I
  BY FineOf DEF Nameable
<1>3. /\ e.inodes = d.inodes /\ e.imap = d.imap /\ e.bmap = d.bmap
      /\ IsDir(d, p) /\ len < NDENTRIES /\ len >= 2 /\ NDENTRIES \in Nat
  BY EntriesOf, FsAssumption DEF Added, Rest, Fits, Fine
<1> HIDE DEF len
<1>4. /\ IsDir(d, x) => /\ x \notin I /\ DirBlock(d, x) \in Blk /\ Len(Dentries(d, x)) = 2
                       /\ Dentries(d, x)[1] = [valid |-> TRUE, inum |-> x, name |-> "."]
                       /\ Dentries(d, x)[2] = [valid |-> TRUE, inum |-> p, name |-> ".."]
                       /\ DOMAIN Dentries(d, x) = {1, 2}
      /\ ~ IsDir(d, x) => IsFile(d, x) /\ d.inodes[x].ref >= 1
  <2>1. IsDir(d, x) => /\ x \notin I /\ DirBlock(d, x) \in Blk /\ Len(Dentries(d, x)) = 2
                       /\ Dentries(d, x)[1] = [valid |-> TRUE, inum |-> x, name |-> "."]
                       /\ Dentries(d, x)[2] = [valid |-> TRUE, inum |-> p, name |-> ".."]
    BY DEF Nameable, IsDir, IsFile
  <2>2. IsDir(d, x) => DOMAIN Dentries(d, x) = {1, 2}
    <3> SUFFICES ASSUME IsDir(d, x) PROVE DOMAIN Dentries(d, x) = {1, 2}
      OBVIOUS
    <3>1. d.blocks[DirBlock(d, x)] \in Content
      BY <2>1 DEF Disk
    <3>2. Dentries(d, x) \in Seq(Dentry)
      BY <3>1 DEF Content, Dentries
    <3> QED
      BY <2>1, <3>2
  <2>3. ~ IsDir(d, x) => IsFile(d, x) /\ d.inodes[x].ref >= 1
    BY DEF Nameable
  <2> QED
    BY <2>1, <2>2, <2>3
<1>5. Own(e, J) /\ Maps(e)
  BY <1>3 DEF Nameable, Fine, Own, Maps
<1>6. Kinds(e, J)
  BY <1>1, <1>2, <1>3, <1>4 DEF Fine, Kinds
<1>7. J \subseteq Made(e)
  BY <1>2, <1>6, MadeOf DEF Kinds
<1>8. \A i \in I \ {x} : \A y : Kid(e, i, y) <=> Kid(d, i, y) \/ (i = p /\ y = x)
  <2> SUFFICES ASSUME NEW i \in I \ {x}, NEW y
               PROVE  Kid(e, i, y) <=> Kid(d, i, y) \/ (i = p /\ y = x)
    OBVIOUS
  <2>1. CASE i # p
    BY <1>1, <2>1 DEF Kid
  <2>2. CASE i = p
    <3>1. Kid(e, p, y) <=> \E j \in 1 .. (len + 1) : Dentries(e, p)[j].valid /\ Dentries(e, p)[j].inum = y
      BY <1>1, <1>3 DEF Kid
    <3>2. Kid(d, p, y) <=> \E j \in 1 .. len : Dentries(d, p)[j].valid /\ Dentries(d, p)[j].inum = y
      BY <1>1, <1>3 DEF Kid
    <3>3. \A j \in 1 .. (len + 1) : j \in 1 .. len \/ j = len + 1
      BY <1>1
    <3>4. \A j \in 1 .. len : j \in 1 .. (len + 1)
      BY <1>1
    <3>5. len + 1 \in 1 .. (len + 1)
      BY <1>1
    <3> QED
      BY <1>1, <2>2, <3>1, <3>2, <3>3, <3>4, <3>5
  <2> QED
    BY <2>1, <2>2
<1>9. \A y : Kid(e, x, y) => y \in {x, p}
  BY <1>1, <1>4 DEF Kid
<1>10. x \in I => \A y : ~ Kid(d, x, y)
  BY <1>1 DEF Kid
<1>11. Reach(e, J)
  BY <1>1, <1>2, <1>7, <1>8, <1>9, <1>10, ReachMore DEF Fine
<1>12. \A i \in J : \A j, y :
         Leads(e, i, j, y) <=> Leads(d, i, j, y) \/ (i = p /\ j = len + 1 /\ y = x)
  <2> SUFFICES ASSUME NEW i \in J, NEW j, NEW y
               PROVE  Leads(e, i, j, y) <=> Leads(d, i, j, y) \/ (i = p /\ j = len + 1 /\ y = x)
    OBVIOUS
  <2>1. CASE i # p
    BY <1>1, <2>1 DEF Leads
  <2>2. CASE i = p
    <3>1. j \in 3 .. (len + 1) <=> j \in 3 .. len \/ j = len + 1
      BY <1>1, <1>3
    <3>2. j \in 3 .. len => j \in 1 .. len
      BY <1>1
    <3>3. len + 1 \notin 1 .. len
      BY <1>1
    <3> QED
      BY <1>1, <1>3, <2>2, <3>1, <3>2, <3>3 DEF Leads, len
  <2> QED
    BY <2>1, <2>2
<1>13. Dirs(e, J)
  <2> SUFFICES ASSUME NEW i \in J, IsDir(d, i)
               PROVE  /\ DirBlock(e, i) \in Blk
                      /\ Len(Dentries(e, i)) \in 2 .. NDENTRIES
                      /\ Dentries(e, i)[1] = [valid |-> TRUE, inum |-> i, name |-> "."]
                      /\ Dentries(e, i)[2].valid /\ Dentries(e, i)[2].name = ".."
                      /\ \A j \in 3 .. Len(Dentries(e, i)) : Dentries(e, i)[j].name \notin {".", ".."}
    BY <1>1 DEF Dirs
  <2>1. CASE i = p
    <3>1. /\ DirBlock(d, p) \in Blk
          /\ Dentries(d, p)[1] = [valid |-> TRUE, inum |-> p, name |-> "."]
          /\ Dentries(d, p)[2].valid /\ Dentries(d, p)[2].name = ".."
      BY <1>3 DEF Fine, Dirs
    <3>2. \A j \in 3 .. len : Dentries(d, p)[j].name \notin {".", ".."}
      BY <1>3 DEF Fine, Dirs, len
    <3>3. \A j \in 3 .. (len + 1) : j \in 3 .. len \/ j = len + 1
      BY <1>1
    <3>4. 1 \in 1 .. len /\ 2 \in 1 .. len /\ len + 1 \in 2 .. NDENTRIES
          /\ \A j \in 3 .. len : j \in 1 .. len
      BY <1>1, <1>3
    <3>5. n \notin {".", ".."}
      BY DEF Fits
    <3>6. \A j \in 3 .. (len + 1) : Dentries(e, p)[j].name \notin {".", ".."}
      BY <1>1, <3>2, <3>3, <3>4, <3>5
    <3>7. Dentries(e, p)[1] = Dentries(d, p)[1] /\ Dentries(e, p)[2] = Dentries(d, p)[2]
      BY <1>1, <3>4
    <3> QED
      BY <1>1, <2>1, <3>1, <3>4, <3>6, <3>7
  <2>2. CASE i # p /\ i \in I
    <3>1. DirBlock(e, i) = DirBlock(d, i) /\ Dentries(e, i) = Dentries(d, i)
      BY <1>1, <2>2
    <3> QED
      BY <2>2, <3>1 DEF Fine, Dirs
  <2>3. CASE i \notin I
    <3>1. i = x /\ i # p
      BY <2>3
    <3>2. DirBlock(e, i) = DirBlock(d, i) /\ Dentries(e, i) = Dentries(d, i)
      BY <1>1, <3>1
    <3>3. 2 \in 2 .. NDENTRIES /\ 3 .. 2 = {}
      <4>1. NDENTRIES \in Nat /\ 2 <= NDENTRIES
        BY FsAssumption
      <4> QED
        BY <4>1
    <3>4. Dentries(d, x)[2].valid /\ Dentries(d, x)[2].name = ".."
      BY <1>4, <3>1
    <3> QED
      BY <1>4, <3>1, <3>2, <3>3, <3>4
  <2> QED
    BY <2>1, <2>2, <2>3
<1>14. Distinct(e, J)
  <2> SUFFICES ASSUME NEW i \in J, IsDir(d, i),
                      NEW j \in DOMAIN Dentries(e, i), NEW k \in DOMAIN Dentries(e, i),
                      Dentries(e, i)[j].valid, Dentries(e, i)[k].valid,
                      Dentries(e, i)[j].name = Dentries(e, i)[k].name
               PROVE  j = k
    BY <1>1 DEF Distinct
  <2>1. CASE i = p
    <3>1. \A l \in 1 .. len : Dentries(d, p)[l].valid => Dentries(d, p)[l].name # n
      BY <1>1 DEF Fits
    <3>2. \A l \in 1 .. (len + 1) : l \in 1 .. len \/ l = len + 1
      BY <1>1
    <3>3. \A l, m \in 1 .. len :
            Dentries(d, p)[l].valid /\ Dentries(d, p)[m].valid
            /\ Dentries(d, p)[l].name = Dentries(d, p)[m].name => l = m
      <4>1. Distinct(d, I) /\ IsDir(d, p) /\ DOMAIN Dentries(d, p) = 1 .. len
        BY <1>1, <1>3 DEF Fine
      <4> QED
        BY <4>1 DEF Distinct
    <3>4. j \in 1 .. (len + 1) /\ k \in 1 .. (len + 1)
      BY <1>1, <2>1
    <3> QED
      BY <1>1, <2>1, <3>1, <3>2, <3>3, <3>4
  <2>2. CASE i # p /\ i \in I
    <3>1. Dentries(e, i) = Dentries(d, i)
      BY <1>1, <2>2
    <3> QED
      BY <2>2, <3>1 DEF Fine, Distinct
  <2>3. CASE i \notin I
    <3>1. i = x /\ Dentries(e, i) = Dentries(d, x)
      BY <1>1, <2>3
    <3>2. j \in {1, 2} /\ k \in {1, 2}
      BY <1>4, <3>1
    <3>3. Dentries(d, x)[1].name = "." /\ Dentries(d, x)[2].name = ".."
      BY <1>4, <3>1
    <3>4. Dentries(d, x)[j].name = Dentries(d, x)[k].name
      BY <3>1
    <3>5. "." # ".."
      OBVIOUS
    <3> QED
      BY <3>2, <3>3, <3>4, <3>5
  <2> QED
    BY <2>1, <2>2, <2>3
<1>15. Dentries(e, ROOT_DIR_INUM)[2] = Dentries(d, ROOT_DIR_INUM)[2]
       /\ (First(d) => First(e))
  <2>1. IsDir(d, ROOT_DIR_INUM)
    BY DEF Fine, Kinds
  <2>2. CASE p = ROOT_DIR_INUM
    <3>1. 2 \in 1 .. len
      BY <1>1, <1>3
    <3>2. len >= 3 => 3 \in 1 .. len /\ len + 1 >= 3
      BY <1>1
    <3>3. Len(Dentries(d, ROOT_DIR_INUM)) = len
      BY <2>2 DEF len
    <3>4. Dentries(e, p)[2] = Dentries(d, p)[2]
      BY <1>1, <3>1
    <3>5. First(d) => First(e)
      BY <1>1, <2>2, <3>2, <3>3 DEF First
    <3> QED
      BY <2>2, <3>4, <3>5
  <2>3. CASE p # ROOT_DIR_INUM
    <3>1. Dentries(e, ROOT_DIR_INUM) = Dentries(d, ROOT_DIR_INUM)
      BY <1>1, <1>2, <2>1, <2>3
    <3> QED
      BY <1>1, <3>1 DEF First
  <2> QED
    BY <2>2, <2>3
<1>16. OneName(e, J)
  <2>1. OneName(d, I)
    BY DEF Fine
  <2>2. \A i \in J : \A j, y : Leads(d, i, j, y) => i \in I /\ y \in I
    <3> SUFFICES ASSUME NEW i \in J, NEW j, NEW y, Leads(d, i, j, y) PROVE i \in I /\ y \in I
      OBVIOUS
    <3>1. i \in I
      <4>1. Len(Dentries(d, x)) = 2 => ~ (j \in 3 .. Len(Dentries(d, x)))
        OBVIOUS
      <4> QED
        BY <1>4, <4>1 DEF Leads
    <3>2. j \in DOMAIN Dentries(d, i)
      <4>1. DOMAIN Dentries(d, i) = 1 .. Len(Dentries(d, i)) /\ Len(Dentries(d, i)) \in Nat
        BY <3>1, EntriesOf DEF Fine, Leads
      <4> QED
        BY <4>1 DEF Leads
    <3>3. Kid(d, i, y)
      BY <3>2 DEF Kid, Leads
    <3> QED
      BY <1>2, <3>1, <3>3
  <2>3. \A y \in I : IsDir(d, y) => y # x /\ Dentries(e, y)[2] = Dentries(d, y)[2]
    <3>1. 2 \in 1 .. len
      BY <1>1, <1>3
    <3> QED
      BY <1>1, <3>1
  <2>4. IsDir(d, x) => x # ROOT_DIR_INUM /\ x \notin I /\ Dentries(e, x)[2].inum = p
    <3>1. IsDir(d, x) => Dentries(d, x)[2].inum = p
      BY <1>4
    <3>2. IsDir(d, x) => Dentries(e, x) = Dentries(d, x)
      BY <1>1
    <3> QED
      BY <1>2, <1>4, <3>1, <3>2
  <2>5. \A i, k, y \in J : \A j, l \in Nat :
          Leads(e, i, j, y) /\ Leads(e, k, l, y) /\ IsDir(e, y) => i = k /\ j = l
    BY <1>1, <1>12, <2>1, <2>2, <2>4 DEF OneName
  <2>6. \A i, y \in J : \A j \in Nat :
          Leads(e, i, j, y) /\ IsDir(e, y) => y # ROOT_DIR_INUM /\ Dentries(e, y)[2].inum = i
    BY <1>1, <1>12, <2>1, <2>2, <2>3, <2>4 DEF OneName
  <2>7. ASSUME NEW y \in J, IsDir(e, y), y # ROOT_DIR_INUM
        PROVE  \E i \in J, j \in Nat : Leads(e, i, j, y)
    <3>1. CASE y \in I
      <4>1. PICK i \in I, j \in Nat : Leads(d, i, j, y)
        BY <1>1, <2>1, <2>7, <3>1 DEF OneName
      <4> QED
        BY <1>12, <4>1
    <3>2. CASE y \notin I
      <4>1. y = x /\ p \in J /\ len + 1 \in Nat
        BY <1>1, <3>2
      <4> QED
        BY <1>12, <4>1
    <3> QED
      BY <3>1, <3>2
  <2>8. Dentries(e, ROOT_DIR_INUM)[2].inum = ROOT_DIR_INUM
    BY <1>15, <2>1 DEF OneName
  <2> QED
    BY <2>5, <2>6, <2>7, <2>8 DEF OneName
<1>17. First(e)
  BY <1>15 DEF Fine
<1>18. Fine(e, J)
  BY <1>5, <1>6, <1>11, <1>13, <1>14, <1>16, <1>17 DEF Fine
<1> QED
  BY <1>12, <1>18 DEF len

-----------------------------------------------------------------------------
(* A name is removed *)

\* What a directory in use leads to: itself, its parent and what it names.
LEMMA KidIs ==
  ASSUME NEW d \in Disk, NEW I, Fine(d, I), NEW i \in I, IsDir(d, i)
  PROVE  /\ \A y : Kid(d, i, y) <=>
              y = i \/ y = Dentries(d, i)[2].inum \/ \E j \in Nat : Leads(d, i, j, y)
         /\ Dentries(d, i)[2].inum \in I /\ IsDir(d, Dentries(d, i)[2].inum)
<1> DEFINE n == Len(Dentries(d, i))
<1>1. n \in Nat /\ n >= 2 /\ DOMAIN Dentries(d, i) = 1 .. n
  BY EntriesOf DEF Fine
<1>2. /\ Dentries(d, i)[1].valid /\ Dentries(d, i)[1].inum = i /\ Dentries(d, i)[2].valid
  <2>1. Dentries(d, i)[1] = [valid |-> TRUE, inum |-> i, name |-> "."]
    BY DEF Fine, Dirs
  <2>2. Dentries(d, i)[1].valid /\ Dentries(d, i)[1].inum = i
    BY <2>1
  <2> QED
    BY <2>2 DEF Fine, Dirs
<1> HIDE DEF n
<1>3. \A j : j \in 1 .. n <=> j = 1 \/ j = 2 \/ j \in 3 .. n
  BY <1>1
<1>4. \A y : Kid(d, i, y) <=> \E j \in 1 .. n : Dentries(d, i)[j].valid /\ Dentries(d, i)[j].inum = y
  BY <1>1 DEF Kid
<1>5. \A j, y : Leads(d, i, j, y) <=> j \in 3 .. n /\ Dentries(d, i)[j].valid /\ Dentries(d, i)[j].inum = y
  BY DEF Leads, n
<1>6. \A j \in 3 .. n : j \in Nat
  BY <1>1
<1>7. \A y : Kid(d, i, y) <=>
        y = i \/ y = Dentries(d, i)[2].inum \/ \E j \in Nat : Leads(d, i, j, y)
  <2> SUFFICES ASSUME NEW y
               PROVE  Kid(d, i, y) <=>
                        y = i \/ y = Dentries(d, i)[2].inum \/ \E j \in Nat : Leads(d, i, j, y)
    OBVIOUS
  <2>1. Kid(d, i, y) =>
          y = i \/ y = Dentries(d, i)[2].inum \/ \E j \in Nat : Leads(d, i, j, y)
    BY <1>2, <1>3, <1>4, <1>5, <1>6
  <2>2. y = i \/ y = Dentries(d, i)[2].inum => Kid(d, i, y)
    BY <1>2, <1>3, <1>4
  <2>3. (\E j \in Nat : Leads(d, i, j, y)) => Kid(d, i, y)
    BY <1>3, <1>4, <1>5
  <2> QED
    BY <2>1, <2>2, <2>3
<1>8. Dentries(d, i)[2].inum \in I /\ IsDir(d, Dentries(d, i)[2].inum)
  <2>1. CASE i = ROOT_DIR_INUM
    BY <2>1, FineOf DEF Fine, OneName
  <2>2. CASE i # ROOT_DIR_INUM
    <3>1. PICK k \in I, j \in Nat : Leads(d, k, j, i)
      BY <2>2 DEF Fine, OneName
    <3>2. Dentries(d, i)[2].inum = k
      BY <3>1 DEF Fine, OneName
    <3> QED
      BY <3>1, <3>2 DEF Leads
  <2> QED
    BY <2>1, <2>2
<1> QED
  BY <1>7, <1>8

\* Entry j0 of directory p, a name, becomes invalid.
Removed(d, e, p, j0) ==
  /\ Rest(d, e, {"blocks"})
  /\ Dentries(e, p) = [Dentries(d, p) EXCEPT ![j0].valid = FALSE]
  /\ \A b \in Blk \ {DirBlock(d, p)} : e.blocks[b] = d.blocks[b]

\* x can go: a file, or a directory without names in it.
Removable(d, x) == IsFile(d, x) \/ \A j, y : ~ Leads(d, x, j, y)

LEMMA RemovedEntries ==
  ASSUME NEW d \in Disk, NEW e \in Disk, NEW I, Fine(d, I), NEW p \in I, NEW x, NEW j0,
         Leads(d, p, j0, x), Removed(d, e, p, j0)
  PROVE  /\ \A i : (IsDir(e, i) <=> IsDir(d, i)) /\ (IsFile(e, i) <=> IsFile(d, i))
                 /\ DirBlock(e, i) = DirBlock(d, i)
         /\ \A i \in I : IsDir(d, i) =>
              /\ Len(Dentries(e, i)) = Len(Dentries(d, i))
              /\ DOMAIN Dentries(e, i) = DOMAIN Dentries(d, i)
              /\ \A j \in DOMAIN Dentries(d, i) :
                   /\ Dentries(e, i)[j].inum = Dentries(d, i)[j].inum
                   /\ Dentries(e, i)[j].name = Dentries(d, i)[j].name
                   /\ i # p \/ j # j0 => Dentries(e, i)[j] = Dentries(d, i)[j]
         /\ ~ Dentries(e, p)[j0].valid
         /\ \A i \in I : \A j, y : Leads(e, i, j, y) <=> Leads(d, i, j, y) /\ ~ (i = p /\ j = j0)
<1>1. e.inodes = d.inodes
  BY DEF Removed, Rest
<1>2. \A i : (IsDir(e, i) <=> IsDir(d, i)) /\ (IsFile(e, i) <=> IsFile(d, i))
            /\ DirBlock(e, i) = DirBlock(d, i)
  BY <1>1 DEF IsDir, IsFile, DirBlock
<1>3. Dirs(d, I) /\ Own(d, I) /\ IsDir(d, p)
  BY DEF Fine, Leads
<1>4. ASSUME NEW i \in I, IsDir(d, i), i # p
      PROVE  Dentries(e, i) = Dentries(d, i)
  <2>1. DirBlock(d, i) \in Blk
    BY <1>3, <1>4 DEF Dirs
  <2>2. DirBlock(d, i) # DirBlock(d, p)
    BY <1>3, <1>4, <2>1, OneBlock
  <2>3. e.blocks[DirBlock(d, i)] = d.blocks[DirBlock(d, i)]
    BY <2>1, <2>2 DEF Removed
  <2> QED
    BY <1>2, <2>3 DEF Dentries
<1>5. /\ Dentries(d, p) \in Seq(Dentry) /\ Len(Dentries(d, p)) \in Nat
      /\ DOMAIN Dentries(d, p) = 1 .. Len(Dentries(d, p))
      /\ \A j \in DOMAIN Dentries(d, p) : Dentries(d, p)[j] \in Dentry
  BY <1>3, EntriesOf
<1>6. j0 \in DOMAIN Dentries(d, p)
  BY <1>5 DEF Leads
<1>7. /\ Len(Dentries(e, p)) = Len(Dentries(d, p))
      /\ DOMAIN Dentries(e, p) = DOMAIN Dentries(d, p)
      /\ \A j \in DOMAIN Dentries(d, p) : j # j0 => Dentries(e, p)[j] = Dentries(d, p)[j]
      /\ Dentries(e, p)[j0].valid = FALSE
      /\ Dentries(e, p)[j0].inum = Dentries(d, p)[j0].inum
      /\ Dentries(e, p)[j0].name = Dentries(d, p)[j0].name
  <2> DEFINE es == Dentries(d, p)
             fs == Dentries(e, p)
             r == [es[j0] EXCEPT !.valid = FALSE]
  <2>1. fs = [es EXCEPT ![j0] = r]
    BY DEF Removed
  <2>2. es \in Seq(Dentry) /\ j0 \in DOMAIN es /\ es[j0] \in Dentry
    BY <1>5, <1>6
  <2> HIDE DEF es, fs
  <2>3. r \in Dentry /\ r.valid = FALSE /\ r.inum = es[j0].inum /\ r.name = es[j0].name
    BY <2>2 DEF Dentry
  <2> HIDE DEF r
  <2>4. fs \in Seq(Dentry) /\ DOMAIN fs = DOMAIN es /\ Len(fs) = Len(es)
        /\ fs[j0] = r /\ \A j \in DOMAIN es : j # j0 => fs[j] = es[j]
    BY <2>1, <2>2, <2>3
  <2> QED
    BY <2>3, <2>4 DEF es, fs
<1>8. \A i \in I : IsDir(d, i) =>
        /\ Len(Dentries(e, i)) = Len(Dentries(d, i))
        /\ DOMAIN Dentries(e, i) = DOMAIN Dentries(d, i)
        /\ \A j \in DOMAIN Dentries(d, i) :
             /\ Dentries(e, i)[j].inum = Dentries(d, i)[j].inum
             /\ Dentries(e, i)[j].name = Dentries(d, i)[j].name
             /\ i # p \/ j # j0 => Dentries(e, i)[j] = Dentries(d, i)[j]
  BY <1>4, <1>7
<1>9. ASSUME NEW i \in I, NEW j, NEW y
      PROVE  Leads(e, i, j, y) <=> Leads(d, i, j, y) /\ ~ (i = p /\ j = j0)
  <2>1. CASE i # p
    BY <1>2, <1>4, <2>1 DEF Leads
  <2>2. CASE i = p
    <3>1. j \in 3 .. Len(Dentries(d, p)) => j \in DOMAIN Dentries(d, p)
      BY <1>5
    <3> QED
      BY <1>2, <1>7, <2>2, <3>1 DEF Leads
  <2> QED
    BY <2>1, <2>2
<1> QED
  BY <1>2, <1>7, <1>8, <1>9

\* What can be reached when entry j0 of p no longer names x.
LeftOf(d, I, p, j0, x) ==
  IF \E i \in I, j \in Nat : Leads(d, i, j, x) /\ ~ (i = p /\ j = j0) THEN I ELSE I \ {x}

LEMMA RemoveReach ==
  ASSUME NEW d \in Disk, NEW e \in Disk, NEW I, Fine(d, I), NEW p \in I, NEW x, NEW j0,
         Leads(d, p, j0, x), Removable(d, x), Removed(d, e, p, j0)
  PROVE  /\ x \in I /\ x # ROOT_DIR_INUM /\ x # p
         /\ IsDir(d, x) => LeftOf(d, I, p, j0, x) = I \ {x}
         /\ Reach(e, LeftOf(d, I, p, j0, x))
<1>1. /\ \A i : (IsDir(e, i) <=> IsDir(d, i)) /\ (IsFile(e, i) <=> IsFile(d, i))
      /\ \A i \in I : IsDir(d, i) =>
           /\ Len(Dentries(e, i)) = Len(Dentries(d, i))
           /\ DOMAIN Dentries(e, i) = DOMAIN Dentries(d, i)
           /\ \A j \in DOMAIN Dentries(d, i) :
                i # p \/ j # j0 => Dentries(e, i)[j] = Dentries(d, i)[j]
      /\ ~ Dentries(e, p)[j0].valid
      /\ \A i \in I : \A j, y : Leads(e, i, j, y) <=> Leads(d, i, j, y) /\ ~ (i = p /\ j = j0)
  BY RemovedEntries
<1>2. /\ I \subseteq Inum /\ ROOT_DIR_INUM \in I
      /\ \A i \in I : \A y : Kid(d, i, y) => y \in I
  BY FineOf
<1>3. \A i \in I : \A j, y : Leads(d, i, j, y) => j \in Nat /\ j \in DOMAIN Dentries(d, i) /\ y \in I
  <2> SUFFICES ASSUME NEW i \in I, NEW j, NEW y, Leads(d, i, j, y)
               PROVE  j \in Nat /\ j \in DOMAIN Dentries(d, i) /\ y \in I
    OBVIOUS
  <2>1. IsDir(d, i) /\ Dirs(d, I)
    BY DEF Leads, Fine
  <2>2. Len(Dentries(d, i)) \in Nat /\ DOMAIN Dentries(d, i) = 1 .. Len(Dentries(d, i))
    BY <2>1, EntriesOf
  <2>3. j \in Nat /\ j \in DOMAIN Dentries(d, i)
    BY <2>2 DEF Leads
  <2> QED
    BY <1>2, <2>1, <2>3 DEF Kid, Leads
<1>4. IsDir(d, p) /\ x \in I
  BY <1>3 DEF Leads
<1>5. x # p
  BY <1>4 DEF Removable, IsDir, IsFile
<1>6. x # ROOT_DIR_INUM
  <2>1. IsDir(d, x) => x # ROOT_DIR_INUM
    BY <1>3, <1>4 DEF Fine, OneName
  <2> QED
    BY <2>1 DEF Fine, Kinds
<1>7. IsDir(d, x) => \A i \in I : \A j : Leads(d, i, j, x) => i = p /\ j = j0
  BY <1>3, <1>4 DEF Fine, OneName
<1>8. \A i \in I : IsDir(d, i) =>
        /\ \A y : Kid(d, i, y) <=>
             y = i \/ y = Dentries(d, i)[2].inum \/ \E j \in Nat : Leads(d, i, j, y)
        /\ Dentries(d, i)[2].inum \in I /\ IsDir(d, Dentries(d, i)[2].inum)
  BY KidIs
<1>9. \A i \in I : IsDir(d, i) =>
        \A y : Kid(e, i, y) <=>
          y = i \/ y = Dentries(d, i)[2].inum \/ \E j \in Nat : Leads(e, i, j, y)
  <2> SUFFICES ASSUME NEW i \in I, IsDir(d, i), NEW y
               PROVE  Kid(e, i, y) <=>
                        y = i \/ y = Dentries(d, i)[2].inum \/ \E j \in Nat : Leads(e, i, j, y)
    OBVIOUS
  <2> DEFINE n == Len(Dentries(d, i))
  <2>1. n \in Nat /\ n >= 2 /\ DOMAIN Dentries(d, i) = 1 .. n
    BY EntriesOf DEF Fine
  <2>2. /\ Dentries(d, i)[1].valid /\ Dentries(d, i)[1].inum = i /\ Dentries(d, i)[2].valid
    <3>1. Dentries(d, i)[1] = [valid |-> TRUE, inum |-> i, name |-> "."]
      BY DEF Fine, Dirs
    <3>2. Dentries(d, i)[1].valid /\ Dentries(d, i)[1].inum = i
      BY <3>1
    <3> QED
      BY <3>2 DEF Fine, Dirs
  <2>3. Len(Dentries(e, i)) = n
    BY <1>1
  <2> HIDE DEF n
  <2>4. j0 # 1 /\ j0 # 2
    <3>1. Len(Dentries(d, p)) \in Nat
      BY <1>4, EntriesOf DEF Fine
    <3> QED
      BY <3>1 DEF Leads
  <2>5. \A j : j \in 1 .. n <=> j = 1 \/ j = 2 \/ j \in 3 .. n
    BY <2>1
  <2>6. Dentries(e, i)[1] = Dentries(d, i)[1] /\ Dentries(e, i)[2] = Dentries(d, i)[2]
    BY <1>1, <2>1, <2>4, <2>5
  <2>7. Kid(e, i, y) <=> \E j \in 1 .. n : Dentries(e, i)[j].valid /\ Dentries(e, i)[j].inum = y
    BY <1>1, <2>1 DEF Kid
  <2>8. \A j : Leads(e, i, j, y) <=> j \in 3 .. n /\ Dentries(e, i)[j].valid /\ Dentries(e, i)[j].inum = y
    BY <1>1, <2>3 DEF Leads
  <2>9. \A j \in 3 .. n : j \in Nat
    BY <2>1
  <2>10. Kid(e, i, y) =>
           y = i \/ y = Dentries(d, i)[2].inum \/ \E j \in Nat : Leads(e, i, j, y)
    BY <2>2, <2>5, <2>6, <2>7, <2>8, <2>9
  <2>11. y = i \/ y = Dentries(d, i)[2].inum => Kid(e, i, y)
    BY <2>2, <2>5, <2>6, <2>7
  <2>12. (\E j \in Nat : Leads(e, i, j, y)) => Kid(e, i, y)
    BY <2>5, <2>7, <2>8
  <2> QED
    BY <2>10, <2>11, <2>12
<1>10. \A i \in I : \A y : Kid(e, i, y) => Kid(d, i, y)
  BY <1>1, <1>8, <1>9 DEF Kid
<1>11. ASSUME NEW i \in I, NEW y, y # x, Kid(d, i, y)
       PROVE  Kid(e, i, y)
  <2>1. IsDir(d, i)
    BY <1>11 DEF Kid
  <2>2. Leads(d, p, j0, y) => y = x
    BY DEF Leads
  <2> QED
    BY <1>1, <1>8, <1>9, <1>11, <2>1, <2>2
<1>12. I \subseteq Made(e)
  <2>1. \A i \in I : IsDir(d, i) \/ IsFile(d, i)
    BY DEF Fine, Kinds
  <2> QED
    BY <1>1, <1>2, <2>1, MadeOf
<1>13. Reach(d, I)
  BY DEF Fine
<1>14. CASE \E i \in I, j \in Nat : Leads(d, i, j, x) /\ ~ (i = p /\ j = j0)
  <2>1. PICK q \in I, j \in Nat : Leads(d, q, j, x) /\ ~ (q = p /\ j = j0)
    BY <1>14
  <2>2. ~ IsDir(d, x)
    BY <1>7, <2>1
  <2>3. LeftOf(d, I, p, j0, x) = I
    BY <1>14 DEF LeftOf
  <2>4. IsDir(d, q) /\ q # x
    BY <2>1, <2>2 DEF Leads
  <2>5. Kid(e, q, x)
    BY <1>1, <1>9, <2>1, <2>4
  <2>6. \A y : ~ Kid(d, x, y)
    BY <2>2 DEF Kid
  <2>7. Reach(e, I)
    BY <1>4, <1>10, <1>11, <1>12, <1>13, <2>4, <2>5, <2>6, ReachStill
  <2> QED
    BY <1>4, <1>5, <1>6, <2>2, <2>3, <2>7
<1>15. CASE ~ \E i \in I, j \in Nat : Leads(d, i, j, x) /\ ~ (i = p /\ j = j0)
  <2>1. LeftOf(d, I, p, j0, x) = I \ {x}
    BY <1>15 DEF LeftOf
  <2>2. \A i \in I : \A j \in Nat : ~ Leads(e, i, j, x)
    BY <1>1, <1>15
  <2>3. \A i \in I \ {x} : IsDir(d, i) => Dentries(d, i)[2].inum # x
    <3> SUFFICES ASSUME NEW i \in I \ {x}, IsDir(d, i), Dentries(d, i)[2].inum = x PROVE FALSE
      OBVIOUS
    <3>1. IsDir(d, x)
      BY <1>8
    <3>2. \A j, y : ~ Leads(d, x, j, y)
      BY <3>1 DEF Removable, IsDir, IsFile
    <3>3. i # ROOT_DIR_INUM
      BY <1>6 DEF Fine, OneName
    <3>4. PICK k \in I, j \in Nat : Leads(d, k, j, i)
      BY <3>3 DEF Fine, OneName
    <3>5. k = x
      BY <3>4 DEF Fine, OneName
    <3> QED
      BY <3>2, <3>4, <3>5
  <2>4. \A i \in I \ {x} : ~ Kid(e, i, x)
    <3> SUFFICES ASSUME NEW i \in I \ {x}, Kid(e, i, x) PROVE FALSE
      OBVIOUS
    <3>1. IsDir(d, i)
      BY <1>1 DEF Kid
    <3> QED
      BY <1>9, <2>2, <2>3, <3>1
  <2>5. \A i \in I \ {x} : Kid(d, i, x) => i = p
    <3> SUFFICES ASSUME NEW i \in I \ {x}, Kid(d, i, x) PROVE i = p
      OBVIOUS
    <3>1. IsDir(d, i)
      BY DEF Kid
    <3>2. PICK j \in Nat : Leads(d, i, j, x)
      BY <1>8, <2>3, <3>1
    <3> QED
      BY <1>15, <3>2
  <2>6. \A y : Kid(d, x, y) => y \in {x, p}
    <3> SUFFICES ASSUME NEW y, Kid(d, x, y) PROVE y \in {x, p}
      OBVIOUS
    <3>1. IsDir(d, x)
      BY DEF Kid
    <3>2. \A j : ~ Leads(d, x, j, y)
      BY <3>1 DEF Removable, IsDir, IsFile
    <3>3. Dentries(d, x)[2].inum = p
      BY <1>3, <1>4, <3>1 DEF Fine, OneName
    <3> QED
      BY <1>4, <1>8, <3>1, <3>2, <3>3
  <2>7. \A i \in I \ {x} : \A y : Kid(e, i, y) <=> Kid(d, i, y) /\ y # x
    BY <1>10, <1>11, <2>4
  <2>8. Reach(e, I \ {x})
    BY <1>4, <1>6, <1>12, <1>13, <2>5, <2>6, <2>7, ReachLess
  <2> QED
    BY <1>4, <1>5, <1>6, <2>1, <2>8
<1> QED
  BY <1>14, <1>15

LEMMA RemoveFine ==
  ASSUME NEW d \in Disk, NEW e \in Disk, NEW I, Fine(d, I), NEW p \in I, NEW x, NEW j0,
         Leads(d, p, j0, x), Removable(d, x), Removed(d, e, p, j0)
  PROVE  Fine(e, LeftOf(d, I, p, j0, x))
<1> DEFINE J == LeftOf(d, I, p, j0, x)
<1>1. /\ x \in I /\ x # ROOT_DIR_INUM /\ x # p /\ (IsDir(d, x) => J = I \ {x}) /\ Reach(e, J)
  BY RemoveReach
<1>2. J \subseteq I /\ I \ {x} \subseteq J
  BY DEF LeftOf
<1>3. /\ \A i : (IsDir(e, i) <=> IsDir(d, i)) /\ (IsFile(e, i) <=> IsFile(d, i))
              /\ DirBlock(e, i) = DirBlock(d, i)
      /\ \A i \in I : IsDir(d, i) =>
           /\ Len(Dentries(e, i)) = Len(Dentries(d, i))
           /\ DOMAIN Dentries(e, i) = DOMAIN Dentries(d, i)
           /\ \A j \in DOMAIN Dentries(d, i) :
                /\ Dentries(e, i)[j].inum = Dentries(d, i)[j].inum
                /\ Dentries(e, i)[j].name = Dentries(d, i)[j].name
                /\ i # p \/ j # j0 => Dentries(e, i)[j] = Dentries(d, i)[j]
      /\ ~ Dentries(e, p)[j0].valid
      /\ \A i \in I : \A j, y : Leads(e, i, j, y) <=> Leads(d, i, j, y) /\ ~ (i = p /\ j = j0)
  BY RemovedEntries
<1> HIDE DEF J
<1>4. e.inodes = d.inodes /\ e.imap = d.imap /\ e.bmap = d.bmap
  BY DEF Removed, Rest
<1>5. Kinds(e, J)
  BY <1>2, <1>3, <1>4 DEF Fine, Kinds
<1>6. \A i \in I : IsDir(d, i) =>
        /\ Len(Dentries(d, i)) \in Nat /\ Len(Dentries(d, i)) >= 2
        /\ DOMAIN Dentries(d, i) = 1 .. Len(Dentries(d, i))
        /\ 1 \in DOMAIN Dentries(d, i) /\ 2 \in DOMAIN Dentries(d, i)
        /\ \A j \in 3 .. Len(Dentries(d, i)) : j \in DOMAIN Dentries(d, i)
  <2> SUFFICES ASSUME NEW i \in I, IsDir(d, i)
               PROVE  /\ Len(Dentries(d, i)) \in Nat /\ Len(Dentries(d, i)) >= 2
                      /\ DOMAIN Dentries(d, i) = 1 .. Len(Dentries(d, i))
                      /\ 1 \in DOMAIN Dentries(d, i) /\ 2 \in DOMAIN Dentries(d, i)
                      /\ \A j \in 3 .. Len(Dentries(d, i)) : j \in DOMAIN Dentries(d, i)
    OBVIOUS
  <2>1. Len(Dentries(d, i)) \in Nat /\ Len(Dentries(d, i)) \in 2 .. NDENTRIES
        /\ DOMAIN Dentries(d, i) = 1 .. Len(Dentries(d, i))
    BY EntriesOf DEF Fine
  <2> QED
    BY <2>1
<1>7. j0 # 1 /\ j0 # 2 /\ j0 \in DOMAIN Dentries(d, p) /\ IsDir(d, p)
  BY <1>6 DEF Leads
<1>8. \A i \in I : IsDir(d, i) => Dentries(e, i)[1] = Dentries(d, i)[1] /\ Dentries(e, i)[2] = Dentries(d, i)[2]
  BY <1>3, <1>6, <1>7
<1>9. Dirs(e, J)
  <2> SUFFICES ASSUME NEW i \in J, IsDir(d, i)
               PROVE  /\ DirBlock(e, i) \in Blk
                      /\ Len(Dentries(e, i)) \in 2 .. NDENTRIES
                      /\ Dentries(e, i)[1] = [valid |-> TRUE, inum |-> i, name |-> "."]
                      /\ Dentries(e, i)[2].valid /\ Dentries(e, i)[2].name = ".."
                      /\ \A j \in 3 .. Len(Dentries(e, i)) : Dentries(e, i)[j].name \notin {".", ".."}
    BY <1>3 DEF Dirs
  <2>1. i \in I
    BY <1>2
  <2>2. DirBlock(e, i) = DirBlock(d, i) /\ Len(Dentries(e, i)) = Len(Dentries(d, i))
    BY <1>3, <2>1
  <2>3. \A j \in 3 .. Len(Dentries(d, i)) : Dentries(e, i)[j].name = Dentries(d, i)[j].name
    BY <1>3, <1>6, <2>1
  <2>4. /\ DirBlock(d, i) \in Blk
        /\ Len(Dentries(d, i)) \in 2 .. NDENTRIES
        /\ Dentries(d, i)[1] = [valid |-> TRUE, inum |-> i, name |-> "."]
        /\ Dentries(d, i)[2].valid /\ Dentries(d, i)[2].name = ".."
        /\ \A j \in 3 .. Len(Dentries(d, i)) : Dentries(d, i)[j].name \notin {".", ".."}
    BY <2>1 DEF Fine, Dirs
  <2> QED
    BY <1>8, <2>1, <2>2, <2>3, <2>4
<1>10. OneName(e, J)
  <2>1. OneName(d, I)
    BY DEF Fine
  <2>2. \A i, k, y \in J : \A j, l \in Nat :
          Leads(e, i, j, y) /\ Leads(e, k, l, y) /\ IsDir(e, y) => i = k /\ j = l
    BY <1>2, <1>3, <2>1 DEF OneName
  <2>3. \A i, y \in J : \A j \in Nat :
          Leads(e, i, j, y) /\ IsDir(e, y) => y # ROOT_DIR_INUM /\ Dentries(e, y)[2].inum = i
    BY <1>2, <1>3, <1>8, <2>1 DEF OneName
  <2>4. ASSUME NEW y \in J, IsDir(e, y), y # ROOT_DIR_INUM
        PROVE  \E i \in J, j \in Nat : Leads(e, i, j, y)
    <3>1. PICK i \in I, j \in Nat : Leads(d, i, j, y)
      BY <1>2, <1>3, <2>1, <2>4 DEF OneName
    <3>2. y # x
      BY <1>1, <1>3, <2>4
    <3>3. ~ (i = p /\ j = j0)
      BY <3>1, <3>2 DEF Leads
    <3>4. i # x
      BY <3>1 DEF Removable, Leads, IsDir, IsFile
    <3> QED
      BY <1>2, <1>3, <3>1, <3>3, <3>4
  <2>5. Dentries(e, ROOT_DIR_INUM)[2].inum = ROOT_DIR_INUM
    <3>1. ROOT_DIR_INUM \in I /\ IsDir(d, ROOT_DIR_INUM)
      BY FineOf DEF Fine, Kinds
    <3> QED
      BY <1>8, <2>1, <3>1 DEF OneName
  <2> QED
    BY <2>2, <2>3, <2>4, <2>5 DEF OneName
<1>11. Distinct(e, J)
  <2> SUFFICES ASSUME NEW i \in J, IsDir(d, i),
                      NEW j \in DOMAIN Dentries(d, i), NEW k \in DOMAIN Dentries(d, i),
                      Dentries(e, i)[j].valid, Dentries(e, i)[k].valid,
                      Dentries(e, i)[j].name = Dentries(e, i)[k].name
               PROVE  j = k
    BY <1>2, <1>3 DEF Distinct
  <2>1. i \in I
    BY <1>2
  <2>2. Dentries(d, i)[j].name = Dentries(d, i)[k].name
    BY <1>3, <2>1
  <2>3. \A l \in DOMAIN Dentries(d, i) : Dentries(e, i)[l].valid => Dentries(d, i)[l].valid
    BY <1>3, <2>1
  <2> QED
    BY <2>1, <2>2, <2>3 DEF Fine, Distinct
<1>12. Own(e, J) /\ Maps(e)
  BY <1>2, <1>4 DEF Fine, Own, Maps
<1>13. First(e)
  <2>1. ROOT_DIR_INUM \in I /\ IsDir(d, ROOT_DIR_INUM) /\ First(d)
    BY FineOf DEF Fine, Kinds
  <2>2. 3 \in DOMAIN Dentries(d, ROOT_DIR_INUM)
    BY <1>6, <2>1 DEF First
  <2>3. Dentries(e, ROOT_DIR_INUM)[3].valid => Dentries(d, ROOT_DIR_INUM)[3].valid
    BY <1>3, <2>1, <2>2
  <2> QED
    BY <1>3, <2>1, <2>2, <2>3 DEF First
<1> QED
  BY <1>1, <1>5, <1>9, <1>10, <1>11, <1>12, <1>13 DEF Fine, J

-----------------------------------------------------------------------------
(* Names and references *)

\* Fewer entries, fewer names.
LEMMA NamesLess ==
  ASSUME NEW d \in Disk, NEW e \in Disk, NEW I \in SUBSET Inum, NEW J \in SUBSET I,
         Dirs(d, I), Dirs(e, J), NEW x,
         \A i \in J : \A j : Leads(e, i, j, x) => Leads(d, i, j, x)
  PROVE  /\ NamesOf(e, J, x) \subseteq NamesOf(d, I, x)
         /\ Cardinality(NamesOf(e, J, x)) <= Cardinality(NamesOf(d, I, x))
         /\ \A i \in I : \A j : Leads(d, i, j, x) /\ ~ (i \in J /\ Leads(e, i, j, x)) =>
              Cardinality(NamesOf(e, J, x)) <= Cardinality(NamesOf(d, I, x)) - 1
<1>1. \A z \in NamesOf(e, J, x) : z = <<z[1], z[2]>>
  BY DEF NamesOf
<1>2. ASSUME NEW z \in NamesOf(e, J, x)
      PROVE  z \in NamesOf(d, I, x)
  <2>1. PICK i, j : z = <<i, j>>
    BY <1>1
  <2>2. i \in J /\ Leads(e, i, j, x)
    BY <2>1, NamesAre
  <2> QED
    BY <2>1, <2>2, NamesAre
<1>3. IsFiniteSet(NamesOf(d, I, x)) /\ Cardinality(NamesOf(d, I, x)) \in Nat
      /\ IsFiniteSet(NamesOf(e, J, x)) /\ Cardinality(NamesOf(e, J, x)) \in Nat
  BY NamesFinite
<1>4. Cardinality(NamesOf(e, J, x)) <= Cardinality(NamesOf(d, I, x))
  BY <1>2, <1>3, FS_Subset
<1>5. ASSUME NEW i \in I, NEW j, Leads(d, i, j, x), ~ (i \in J /\ Leads(e, i, j, x))
      PROVE  Cardinality(NamesOf(e, J, x)) <= Cardinality(NamesOf(d, I, x)) - 1
  <2>1. <<i, j>> \in NamesOf(d, I, x) /\ <<i, j>> \notin NamesOf(e, J, x)
    BY <1>5, NamesAre
  <2> DEFINE R == NamesOf(d, I, x) \ {<<i, j>>}
  <2>2. IsFiniteSet(R) /\ Cardinality(R) = Cardinality(NamesOf(d, I, x)) - 1
    <3> DEFINE S == NamesOf(d, I, x)
               z == <<i, j>>
    <3>1. IsFiniteSet(S) /\ z \in S
      BY <1>3, <2>1
    <3> HIDE DEF S, z
    <3>2. IsFiniteSet(S \ {z}) /\ Cardinality(S \ {z}) = Cardinality(S) - 1
      BY <3>1, FS_RemoveElement
    <3> QED
      BY <3>2 DEF S, z
  <2>3. NamesOf(e, J, x) \subseteq R
    BY <1>2, <2>1
  <2>4. Cardinality(NamesOf(e, J, x)) <= Cardinality(R)
    BY <2>2, <2>3, FS_Subset
  <2> QED
    BY <2>2, <2>4
<1> QED
  BY <1>2, <1>4, <1>5

\* One more entry, one more name.
LEMMA NamesMore ==
  ASSUME NEW d \in Disk, NEW e \in Disk, NEW I \in SUBSET Inum, NEW J \in SUBSET Inum, I \subseteq J,
         Dirs(d, I), Dirs(e, J), NEW x, NEW p, NEW l,
         \A i \in J : \A j : Leads(e, i, j, x) => (i \in I /\ Leads(d, i, j, x)) \/ (i = p /\ j = l)
  PROVE  Cardinality(NamesOf(e, J, x)) <= Cardinality(NamesOf(d, I, x)) + 1
<1>1. \A z \in NamesOf(e, J, x) : z = <<z[1], z[2]>>
  BY DEF NamesOf
<1> DEFINE M == NamesOf(d, I, x) \cup {<<p, l>>}
<1>2. ASSUME NEW z \in NamesOf(e, J, x)
      PROVE  z \in M
  <2>1. PICK i, j : z = <<i, j>>
    BY <1>1
  <2>2. i \in J /\ Leads(e, i, j, x)
    BY <2>1, NamesAre
  <2>3. (i \in I /\ Leads(d, i, j, x)) => z \in NamesOf(d, I, x)
    BY <2>1, NamesAre
  <2> QED
    BY <2>1, <2>2, <2>3
<1>3. IsFiniteSet(NamesOf(d, I, x)) /\ Cardinality(NamesOf(d, I, x)) \in Nat
      /\ Cardinality(NamesOf(e, J, x)) \in Nat
  BY NamesFinite
<1>4. IsFiniteSet(M) /\ (Cardinality(M) = Cardinality(NamesOf(d, I, x))
                         \/ Cardinality(M) = Cardinality(NamesOf(d, I, x)) + 1)
  BY <1>3, FS_AddElement
<1>5. Cardinality(NamesOf(e, J, x)) <= Cardinality(M)
  BY <1>2, <1>4, FS_Subset
<1> QED
  BY <1>3, <1>4, <1>5

-----------------------------------------------------------------------------
(* Names are looked up *)

\* A name that is found leads to something that can be reached, and is one of
\* the names proper unless it is "." or "..".
LEMMA Found ==
  ASSUME NEW d \in Disk, NEW I, Fine(d, I), NEW i \in I, IsDir(d, i), NEW n,
         parse_path(d, i, n) # 0
  PROVE  /\ FirstHit(d, i, n) \in DOMAIN Dentries(d, i)
         /\ parse_path(d, i, n) \in I
         /\ n \notin {".", ".."} \/ IsFile(d, parse_path(d, i, n)) =>
              Leads(d, i, FirstHit(d, i, n), parse_path(d, i, n))
<1> DEFINE j == FirstHit(d, i, n)
           x == parse_path(d, i, n)
<1>1. Len(Dentries(d, i)) \in Nat /\ Len(Dentries(d, i)) >= 2
      /\ DOMAIN Dentries(d, i) = 1 .. Len(Dentries(d, i))
  BY EntriesOf DEF Fine
<1>2. Hits(d, i, n) \subseteq Nat /\ Hits(d, i, n) # {} /\ x = Dentries(d, i)[j].inum
  BY <1>1 DEF Hits, parse_path
<1>3. \E k \in Hits(d, i, n) : \A m \in Hits(d, i, n) : k <= m
  BY <1>2, LeastOf
<1>4. j \in Hits(d, i, n)
  BY <1>3 DEF FirstHit
<1>5. j \in DOMAIN Dentries(d, i) /\ Dentries(d, i)[j].valid /\ Dentries(d, i)[j].name = n
  BY <1>4 DEF Hits
<1>6. Kid(d, i, x)
  BY <1>2, <1>5 DEF Kid
<1>7. x \in I
  BY <1>6, FineOf
<1>8. ASSUME n \notin {".", ".."} \/ IsFile(d, x)
      PROVE  Leads(d, i, j, x)
  <2>1. Dentries(d, i)[1] = [valid |-> TRUE, inum |-> i, name |-> "."]
    BY DEF Fine, Dirs
  <2>2. Dentries(d, i)[1].inum = i /\ Dentries(d, i)[1].name = "."
    BY <2>1
  <2>3. Dentries(d, i)[2].name = ".." /\ IsDir(d, Dentries(d, i)[2].inum)
    BY KidIs DEF Fine, Dirs
  <2>4. j # 1
    BY <1>2, <1>5, <1>8, <2>2 DEF IsDir, IsFile
  <2>5. j # 2
    BY <1>2, <1>5, <1>8, <2>3 DEF IsDir, IsFile
  <2>6. j \in 3 .. Len(Dentries(d, i))
    BY <1>1, <1>5, <2>4, <2>5
  <2> QED
    BY <1>2, <1>5, <2>6 DEF Leads
<1> QED
  BY <1>5, <1>7, <1>8

\* A name that is not found can be added.
LEMMA NotFound ==
  ASSUME NEW d \in Disk, NEW I, Fine(d, I), NEW i \in I, IsDir(d, i),
         NEW n, n \notin {".", ".."},
         parse_path(d, i, n) = 0, Len(Dentries(d, i)) < NDENTRIES
  PROVE  Fits(d, i, n)
<1>1. \A j \in DOMAIN Dentries(d, i) : Dentries(d, i)[j].valid => Dentries(d, i)[j].name # n
  <2> SUFFICES ASSUME NEW j \in DOMAIN Dentries(d, i),
                      Dentries(d, i)[j].valid, Dentries(d, i)[j].name = n
               PROVE  FALSE
    OBVIOUS
  <2>1. Hits(d, i, n) # {}
    BY DEF Hits
  <2> DEFINE k == FirstHit(d, i, n)
  <2>2. Hits(d, i, n) \subseteq Nat
    <3>1. Len(Dentries(d, i)) \in Nat /\ DOMAIN Dentries(d, i) = 1 .. Len(Dentries(d, i))
      BY EntriesOf DEF Fine
    <3> QED
      BY <3>1 DEF Hits
  <2>3. \E m \in Hits(d, i, n) : \A l \in Hits(d, i, n) : m <= l
    BY <2>1, <2>2, LeastOf
  <2>4. k \in Hits(d, i, n)
    BY <2>3 DEF FirstHit
  <2>5. Kid(d, i, 0)
    BY <2>1, <2>4 DEF Kid, Hits, parse_path
  <2>6. 0 \in Inum
    BY <2>5, FineOf
  <2> QED
    BY <2>6 DEF Inum
<1> QED
  BY <1>1 DEF Fits

LEMMA AppendDentry ==
  ASSUME NEW s \in Seq(Disk), s # <<>>, NEW I, Dirs(Last(s), I), NEW p \in I, IsDir(Last(s), p),
         NEW n \in Path, NEW x \in Nat, NEW t, t = append_dentry(s, p, n, x)
  PROVE  Grown(s, t) /\ Added(Last(s), Last(t), p, x, n)
<1> DEFINE d == Last(s)
           r == [valid |-> TRUE, inum |-> x, name |-> n]
           es == Append(Dentries(d, p), r)
           c == [ZeroBlock EXCEPT !.dentries = es]
           b == DirBlock(d, p)
<1>1. d \in Disk /\ IsDir(d, p) /\ Dirs(d, I)
  BY LastIn
<1>2. t = write_block(s, b, c)
  BY DEF append_dentry
<1> HIDE DEF d
<1>3. b \in Blk /\ Dentries(d, p) \in Seq(Dentry)
  BY <1>1, EntriesOf
<1>4. r \in Dentry
  BY DEF Dentry
<1>5. es \in Seq(Dentry)
  BY <1>3, <1>4
<1> HIDE DEF es
<1>6. c \in Content /\ c.dentries = es
  BY <1>5, Contents
<1> HIDE DEF b, c
<1>7. /\ Grown(s, t) /\ Rest(d, Last(t), {"blocks"}) /\ Last(t).blocks[b] = c
      /\ \A j \in Blk \ {b} : Last(t).blocks[j] = d.blocks[j]
  BY <1>2, <1>3, <1>6, WriteBlock DEF d
<1>8. DirBlock(Last(t), p) = b
  BY <1>7 DEF Rest, DirBlock, b
<1>9. Dentries(Last(t), p) = es
  BY <1>6, <1>7, <1>8 DEF Dentries
<1> QED
  BY <1>7, <1>9 DEF Added, es, b, d

LEMMA RemoveDentry ==
  ASSUME NEW s \in Seq(Disk), s # <<>>, NEW I, Dirs(Last(s), I), NEW p \in I, IsDir(Last(s), p),
         NEW n, NEW j, j = FirstHit(Last(s), p, n), j \in DOMAIN Dentries(Last(s), p),
         NEW t, t = remove_dentry(s, p, n)
  PROVE  Grown(s, t) /\ Removed(Last(s), Last(t), p, j)
<1> DEFINE d == Last(s)
           es == [Dentries(d, p) EXCEPT ![j].valid = FALSE]
           c == [ZeroBlock EXCEPT !.dentries = es]
           b == DirBlock(d, p)
<1>1. d \in Disk /\ IsDir(d, p) /\ Dirs(d, I) /\ j \in DOMAIN Dentries(d, p)
  BY LastIn
<1>2. t = write_block(s, b, c)
  BY DEF remove_dentry
<1> HIDE DEF d
<1>3. b \in Blk /\ Dentries(d, p) \in Seq(Dentry) /\ Dentries(d, p)[j] \in Dentry
  BY <1>1, EntriesOf
<1>4. es \in Seq(Dentry)
  <2> DEFINE ds == Dentries(d, p)
             r == [ds[j] EXCEPT !.valid = FALSE]
  <2>1. es = [ds EXCEPT ![j] = r]
    OBVIOUS
  <2>2. ds \in Seq(Dentry) /\ j \in DOMAIN ds /\ ds[j] \in Dentry
    BY <1>1, <1>3
  <2> HIDE DEF es, ds
  <2>3. r \in Dentry
    BY <2>2 DEF Dentry
  <2> HIDE DEF r
  <2> QED
    BY <2>1, <2>2, <2>3
<1> HIDE DEF es
<1>6. c \in Content /\ c.dentries = es
  BY <1>4, Contents
<1> HIDE DEF b, c
<1>7. /\ Grown(s, t) /\ Rest(d, Last(t), {"blocks"}) /\ Last(t).blocks[b] = c
      /\ \A k \in Blk \ {b} : Last(t).blocks[k] = d.blocks[k]
  BY <1>2, <1>3, <1>6, WriteBlock DEF d
<1>8. DirBlock(Last(t), p) = b
  BY <1>7 DEF Rest, DirBlock, b
<1>9. Dentries(Last(t), p) = es
  BY <1>6, <1>7, <1>8 DEF Dentries
<1> QED
  BY <1>7, <1>9 DEF Removed, es, b, d

-----------------------------------------------------------------------------
(* What a write does to the names and the files *)

\* The size and the blocks of file x, and what they hold, stay.
SameFile(d, e, x) ==
  /\ e.inodes[x].size = d.inodes[x].size /\ e.inodes[x].direct = d.inodes[x].direct
  /\ \A k \in Direct : d.inodes[x].direct[k] # 0 =>
       e.blocks[d.inodes[x].direct[k]] = d.blocks[d.inodes[x].direct[k]]

\* No name and no file changes.
Quiet(d, e, I) ==
  Fine(e, I) /\ Alike(d, e, I) /\ \A x \in I : IsFile(d, x) => SameFile(d, e, x)

\* A name is added; a file that had none is empty.
Gains(d, e, I) ==
  \E p \in I, n \in Path : \E x :
    /\ Nameable(d, I, p, x) /\ Fits(d, p, n) /\ Added(d, e, p, x, n)
    /\ x \notin I /\ IsFile(d, x) =>
         d.inodes[x].size = 0 /\ \A k \in Direct : d.inodes[x].direct[k] = 0

\* A name is removed.
Loses(d, e, I) ==
  \E p \in I : \E x, j0 : Leads(d, p, j0, x) /\ Removable(d, x) /\ Removed(d, e, p, j0)

\* One block of a file changes, and its size, which grows.
Puts(d, e, I) ==
  \E x \in I, k \in Direct :
    /\ IsFile(d, x) /\ Fine(e, I) /\ Alike(d, e, I)
    /\ \A y \in I \ {x} : IsFile(d, y) => SameFile(d, e, y)
    /\ e.inodes[x].size >= d.inodes[x].size /\ e.inodes[x].direct[k] # 0
    /\ \A l \in Direct \ {k} :
         /\ e.inodes[x].direct[l] = d.inodes[x].direct[l]
         /\ d.inodes[x].direct[l] # 0 =>
              e.blocks[d.inodes[x].direct[l]] = d.blocks[d.inodes[x].direct[l]]

\* What one write of a call may do.
Move(d, e) ==
  /\ d \in Disk /\ e \in Disk /\ e.magic = d.magic
  /\ \E I : Fine(d, I) /\ (Quiet(d, e, I) \/ Gains(d, e, I) \/ Loses(d, e, I) \/ Puts(d, e, I))

\* The writes from d on.
Runs(d, s) ==
  /\ s \in Seq(Disk) /\ s # <<>> /\ s[1] = d
  /\ \A k \in 1 .. (Len(s) - 1) : Move(s[k], s[k + 1])

LEMMA OneRuns ==
  ASSUME NEW d \in Disk
  PROVE  Runs(d, <<d>>)
BY DEF Runs

LEMMA GrownRuns ==
  ASSUME NEW d, NEW s, NEW t, Runs(d, s), Grown(s, t), Move(Last(s), Last(t))
  PROVE  Runs(d, t)
<1>1. /\ s \in Seq(Disk) /\ s # <<>> /\ s[1] = d /\ Len(s) \in Nat \ {0}
      /\ Last(s) = s[Len(s)]
      /\ \A k \in 1 .. (Len(s) - 1) : Move(s[k], s[k + 1])
  BY LastIn DEF Runs
<1>2. /\ t \in Seq(Disk) /\ t # <<>> /\ Len(t) = Len(s) + 1 /\ t[Len(t)] = Last(t)
      /\ \A k \in 1 .. Len(s) : t[k] = s[k]
  BY DEF Grown
<1>3. t[1] = d
  BY <1>1, <1>2
<1>4. ASSUME NEW k \in 1 .. (Len(t) - 1)
      PROVE  Move(t[k], t[k + 1])
  <2>1. CASE k = Len(s)
    <3>1. t[k] = Last(s) /\ t[k + 1] = Last(t)
      BY <1>1, <1>2, <2>1
    <3> QED
      BY <3>1
  <2>2. CASE k # Len(s)
    <3>1. k \in 1 .. (Len(s) - 1) /\ k \in 1 .. Len(s) /\ k + 1 \in 1 .. Len(s)
      BY <1>1, <1>2, <1>4, <2>2
    <3> QED
      BY <1>1, <1>2, <3>1
  <2> QED
    BY <2>1, <2>2
<1> QED
  BY <1>2, <1>3, <1>4 DEF Runs

\* A write that leaves the inodes in use, and their blocks, alone.
LEMMA QuietMove ==
  ASSUME NEW d \in Disk, NEW e, NEW F, NEW I, Fine(d, I), Rest(d, e, F), Fine(e, I), Alike(d, e, I),
         \A i \in I : e.inodes[i].size = d.inodes[i].size /\ e.inodes[i].direct = d.inodes[i].direct,
         \A i \in I, k \in Direct : d.inodes[i].direct[k] # 0 =>
           e.blocks[d.inodes[i].direct[k]] = d.blocks[d.inodes[i].direct[k]]
  PROVE  Move(d, e)
<1>1. Quiet(d, e, I)
  BY DEF Quiet, SameFile
<1> QED
  BY <1>1 DEF Move, Rest

\* A write of a map.
LEMMA MapMove ==
  ASSUME NEW d \in Disk, NEW e, NEW F, NEW I, Fine(d, I), Rest(d, e, F), Fine(e, I), Alike(d, e, I),
         e.inodes = d.inodes, e.blocks = d.blocks
  PROVE  Move(d, e)
BY QuietMove

\* Writes of maps.
LEMMA MapsMove ==
  ASSUME NEW d \in Disk, NEW e \in Disk, NEW I, Fine(d, I), Fine(e, I),
         e.magic = d.magic, e.inodes = d.inodes, e.blocks = d.blocks
  PROVE  Move(d, e)
<1>1. Rest(d, e, {"imap", "bmap"})
  BY DEF Rest
<1>2. Alike(d, e, I)
  BY AlikeSame
<1> QED
  BY <1>1, <1>2, MapMove

\* A write of an inode that is not in use.
LEMMA SpareMove ==
  ASSUME NEW d \in Disk, NEW e, NEW F, NEW I, Fine(d, I), Rest(d, e, F), Fine(e, I), Alike(d, e, I),
         \A i \in I : e.inodes[i] = d.inodes[i], e.blocks = d.blocks
  PROVE  Move(d, e)
BY QuietMove

\* A write of a block that is not in use.
LEMMA BlockMove ==
  ASSUME NEW d \in Disk, NEW e, NEW F, NEW I, Fine(d, I), Rest(d, e, F), Fine(e, I), Alike(d, e, I),
         e.inodes = d.inodes,
         \E b : /\ \A i \in I, k \in Direct : d.inodes[i].direct[k] # b
               /\ \A c \in Blk \ {b} : e.blocks[c] = d.blocks[c]
  PROVE  Move(d, e)
<1>1. \A i \in I, k \in Direct : d.inodes[i].direct[k] # 0 => d.inodes[i].direct[k] \in Blk
  BY DEF Fine, Own
<1> QED
  BY <1>1, QuietMove

\* The inode of a file is written, with a block k and no smaller size.
LEMMA PutInode ==
  ASSUME NEW d \in Disk, NEW e, NEW I, Fine(d, I), Rest(d, e, {"inodes"}), Fine(e, I), Alike(d, e, I),
         NEW i \in I, IsFile(d, i), NEW k \in Direct,
         \A j \in I \ {i} : e.inodes[j] = d.inodes[j],
         e.inodes[i].size >= d.inodes[i].size, e.inodes[i].direct[k] # 0,
         \A l \in Direct \ {k} : e.inodes[i].direct[l] = d.inodes[i].direct[l]
  PROVE  Move(d, e)
<1>1. e \in Disk /\ e.magic = d.magic /\ e.blocks = d.blocks
  BY DEF Rest
<1>2. \A j \in I \ {i} : SameFile(d, e, j)
  BY <1>1 DEF SameFile
<1>3. Puts(d, e, I)
  BY <1>1, <1>2 DEF Puts
<1> QED
  BY <1>1, <1>3 DEF Move

\* Block k of a file is written.
LEMMA PutBlock ==
  ASSUME NEW d \in Disk, NEW e, NEW I, Fine(d, I), Rest(d, e, {"blocks"}), Fine(e, I), Alike(d, e, I),
         NEW i \in I, IsFile(d, i), NEW k \in Direct, d.inodes[i].direct[k] # 0,
         \A c \in Blk \ {d.inodes[i].direct[k]} : e.blocks[c] = d.blocks[c]
  PROVE  Move(d, e)
<1>1. e \in Disk /\ e.magic = d.magic /\ e.inodes = d.inodes
  BY DEF Rest
<1>2. \A j \in I, l \in Direct : d.inodes[j].direct[l] # 0 /\ ~ (j = i /\ l = k) =>
        e.blocks[d.inodes[j].direct[l]] = d.blocks[d.inodes[j].direct[l]]
  <2> SUFFICES ASSUME NEW j \in I, NEW l \in Direct, d.inodes[j].direct[l] # 0,
                      ~ (j = i /\ l = k)
               PROVE  e.blocks[d.inodes[j].direct[l]] = d.blocks[d.inodes[j].direct[l]]
    OBVIOUS
  <2>1. Own(d, I)
    BY DEF Fine
  <2>2. d.inodes[j].direct[l] \in Blk /\ d.inodes[j].direct[l] # d.inodes[i].direct[k]
    BY <2>1 DEF Own
  <2> QED
    BY <2>2
<1>3. \A j \in I \ {i} : SameFile(d, e, j)
  BY <1>1, <1>2 DEF SameFile
<1>4. e.inodes[i].size >= d.inodes[i].size
  BY <1>1, FineOf DEF Disk, Inode
<1>5. Puts(d, e, I)
  BY <1>1, <1>2, <1>3, <1>4 DEF Puts
<1> QED
  BY <1>1, <1>5 DEF Move

-----------------------------------------------------------------------------
(* The disks that a call leaves *)

\* A mounted disk on which I can be reached.
WholeBy(d, I) == d \in Disk /\ Fine(d, I) /\ Linked(d, I) /\ Handles(d, I)
Whole(d) == \E I : WholeBy(d, I)
AllWhole(s) == s \in Seq(Disk) /\ s # <<>> /\ \A k \in 1 .. Len(s) : Whole(s[k])

LEMMA OneWhole ==
  ASSUME NEW d, NEW I, WholeBy(d, I)
  PROVE  <<d>> \in Seq(Disk) /\ <<d>> # <<>> /\ Last(<<d>>) = d /\ AllWhole(<<d>>)
<1>1. d \in Disk /\ Whole(d)
  BY DEF WholeBy, Whole
<1> QED
  BY <1>1 DEF AllWhole, Last

LEMMA GrownWhole ==
  ASSUME NEW s, NEW t, AllWhole(s), Grown(s, t), Whole(Last(t))
  PROVE  AllWhole(t) /\ t \in Seq(Disk) /\ t # <<>>
<1>1. Len(s) \in Nat /\ Len(t) = Len(s) + 1 /\ t \in Seq(Disk) /\ t # <<>> /\ t[Len(t)] = Last(t)
      /\ \A k \in 1 .. Len(s) : t[k] = s[k] /\ Whole(s[k])
  BY DEF Grown, AllWhole
<1>2. \A k \in 1 .. (Len(s) + 1) : k \in 1 .. Len(s) \/ k = Len(s) + 1
  BY <1>1
<1> QED
  BY <1>1, <1>2 DEF AllWhole

LEMMA StillWhole ==
  ASSUME NEW d, NEW e \in Disk, NEW I, WholeBy(d, I), Fine(e, I), Alike(d, e, I),
         \A i \in I : IsFile(d, i) => e.inodes[i].ref >= d.inodes[i].ref
  PROVE  WholeBy(e, I)
BY FineOf, StillLinked, StillHandles DEF WholeBy

\* A number that is in use no longer leads nowhere: the handles are kept.
LEMMA HandlesOn ==
  ASSUME NEW d, NEW e, NEW I, NEW J, Handles(d, I),
         \A i \in J : (IsDir(e, i) <=> IsDir(d, i)) /\ (IsFile(e, i) <=> IsFile(d, i)),
         \A p \in Proc : cwd[p] \in I => cwd[p] \in J,
         \A fd \in Fd : fdesc[fd].inum \in I => fdesc[fd].inum \in J
  PROVE  Handles(e, J)
BY DEF Handles

\* A file or a directory that was not in use gets its first name.
LEMMA AddWhole ==
  ASSUME NEW d, NEW e, NEW I, WholeBy(d, I), NEW p \in I, NEW x, x \notin I, NEW n,
         Nameable(d, I, p, x), Fits(d, p, n), Added(d, e, p, x, n)
  PROVE  WholeBy(e, I \cup {x})
<1>1. d \in Disk /\ Fine(d, I) /\ Linked(d, I) /\ Handles(d, I) /\ e \in Disk /\ e.inodes = d.inodes
  BY DEF WholeBy, Added, Rest
<1> DEFINE J == I \cup {x}
           l == Len(Dentries(d, p)) + 1
<1>2. /\ Fine(e, J)
      /\ \A i \in J : \A j, y :
           Leads(e, i, j, y) <=> Leads(d, i, j, y) \/ (i = p /\ j = l /\ y = x)
  BY <1>1, AddFine
<1> HIDE DEF l
<1>3. I \in SUBSET Inum /\ J \in SUBSET Inum /\ Dirs(d, I) /\ Dirs(e, J)
  BY <1>1, <1>2, FineOf DEF Fine
<1> HIDE DEF J
<1>4. \A i : (IsDir(e, i) <=> IsDir(d, i)) /\ (IsFile(e, i) <=> IsFile(d, i))
  BY <1>1 DEF IsDir, IsFile
<1>5. Handles(e, J)
  BY <1>1, <1>4, HandlesOn DEF J
<1>6. \A i \in I : \A j, y : Leads(d, i, j, y) => y \in I
  <2> SUFFICES ASSUME NEW i \in I, NEW j, NEW y, Leads(d, i, j, y) PROVE y \in I
    OBVIOUS
  <2>1. IsDir(d, i) /\ DOMAIN Dentries(d, i) = 1 .. Len(Dentries(d, i)) /\ Len(Dentries(d, i)) \in Nat
    BY <1>1, <1>3, EntriesOf DEF Leads
  <2>2. j \in DOMAIN Dentries(d, i)
    BY <2>1 DEF Leads
  <2>3. Kid(d, i, y)
    BY <2>1, <2>2 DEF Kid, Leads
  <2> QED
    BY <1>1, <2>3, FineOf
<1>7. \A j, y : ~ Leads(d, x, j, y)
  <2>1. Len(Dentries(d, x)) = 2 => \A j : ~ (j \in 3 .. Len(Dentries(d, x)))
    OBVIOUS
  <2> QED
    BY <2>1 DEF Nameable, Leads, IsDir, IsFile
<1>8. Linked(e, J)
  <2> SUFFICES ASSUME NEW y \in J, IsFile(e, y)
               PROVE  Cardinality(NamesOf(e, J, y)) <= e.inodes[y].ref
    BY DEF Linked
  <2>0. e.inodes[y].ref \in Nat
    BY <1>1, <1>3 DEF Disk, Inode
  <2>1. Cardinality(NamesOf(e, J, y)) \in Nat /\ Cardinality(NamesOf(d, I, y)) \in Nat
    BY <1>1, <1>3, NamesFinite
  <2>2. CASE y = x
    <3>1. \A z \in NamesOf(e, J, x) : z = <<z[1], z[2]>>
      BY DEF NamesOf
    <3>2. \A z \in NamesOf(e, J, x) : z \in {<<p, l>>}
      <4> SUFFICES ASSUME NEW z \in NamesOf(e, J, x) PROVE z \in {<<p, l>>}
        OBVIOUS
      <4>1. PICK i, j : z = <<i, j>>
        BY <3>1
      <4>2. i \in J /\ Leads(e, i, j, x)
        BY <1>1, <1>3, <4>1, NamesAre
      <4>3. i = p /\ j = l
        BY <1>2, <1>6, <1>7, <4>2 DEF J
      <4> QED
        BY <4>1, <4>3
    <3>3. Cardinality(NamesOf(e, J, x)) <= 1
      <4>1. NamesOf(e, J, x) \subseteq {<<p, l>>}
        BY <3>2
      <4> HIDE <3>2
      <4>2. IsFiniteSet({<<p, l>>}) /\ Cardinality({<<p, l>>}) = 1
        BY FS_Singleton
      <4>3. Cardinality(NamesOf(e, J, x)) <= Cardinality({<<p, l>>})
        BY <4>1, <4>2, FS_Subset
      <4> QED
        BY <4>2, <4>3
    <3>4. d.inodes[x].ref >= 1
      BY <1>4, <2>2 DEF Nameable, IsDir, IsFile
    <3> QED
      BY <1>1, <2>0, <2>1, <2>2, <3>3, <3>4
  <2>3. CASE y # x
    <3>1. y \in I
      BY <2>3 DEF J
    <3>2. Cardinality(NamesOf(d, I, y)) <= d.inodes[y].ref
      BY <1>1, <1>4, <3>1 DEF Linked
    <3>3. \A z \in NamesOf(e, J, y) : z = <<z[1], z[2]>>
      BY DEF NamesOf
    <3>4. \A z \in NamesOf(e, J, y) : z \in NamesOf(d, I, y)
      <4> SUFFICES ASSUME NEW z \in NamesOf(e, J, y) PROVE z \in NamesOf(d, I, y)
        OBVIOUS
      <4>1. PICK i, j : z = <<i, j>>
        BY <3>3
      <4>2. i \in J /\ Leads(e, i, j, y)
        BY <1>1, <1>3, <4>1, NamesAre
      <4>3. i \in I /\ Leads(d, i, j, y)
        BY <1>2, <1>7, <2>3, <4>2 DEF J
      <4> QED
        BY <1>1, <1>3, <4>1, <4>3, NamesAre
    <3>5. Cardinality(NamesOf(e, J, y)) <= Cardinality(NamesOf(d, I, y))
      <4>1. IsFiniteSet(NamesOf(d, I, y)) /\ NamesOf(e, J, y) \subseteq NamesOf(d, I, y)
        BY <1>1, <1>3, <3>4, NamesFinite
      <4> QED
        BY <4>1, FS_Subset
    <3> QED
      BY <1>1, <2>0, <2>1, <3>2, <3>5
  <2> QED
    BY <2>2, <2>3
<1> QED
  BY <1>1, <1>2, <1>5, <1>8 DEF WholeBy, J

-----------------------------------------------------------------------------
(* touch and mkdir *)

LEMMA TouchWhole ==
  ASSUME NEW d, NEW I, WholeBy(d, I), NEW p \in I, IsDir(d, p), NEW n \in Path,
         Fits(d, p, n), ~ 0 .. (IWORDS * W - 1) \subseteq d.imap
  PROVE  AllWhole(touch(<<d>>, p, n)) /\ Runs(d, touch(<<d>>, p, n))
<1> DEFINE s == <<d>>
           a == alloc_inode(s)
           x == a.num
           v == [ZeroInode EXCEPT !.type = "FILE", !.ref = 1]
           t == write_inode(a.s, x, v)
           u == append_dentry(t, p, n, x)
           d1 == Last(a.s)
           d2 == Last(t)
           d3 == Last(u)
<1>1. touch(s, p, n) = u
  BY DEF touch
<1>2. s \in Seq(Disk) /\ s # <<>> /\ Last(s) = d /\ AllWhole(s)
  BY OneWhole
<1>3. d \in Disk /\ Fine(d, I) /\ I \subseteq Inum
  BY FineOf DEF WholeBy
<1> HIDE DEF s
<1>4. /\ Grown(s, a.s) /\ Rest(d, d1, {"imap"})
      /\ Fine(d1, I) /\ Alike(d, d1, I)
      /\ x \in Inum /\ x \notin I /\ Usable(x) /\ x - 1 \in d1.imap
  BY <1>2, <1>3, AllocInode
<1> HIDE DEF a
<1>5. d1 \in Disk /\ d1.inodes = d.inodes /\ d1.blocks = d.blocks
  BY <1>4 DEF Rest
<1>6. WholeBy(d1, I)
  <2>1. \A i \in I : d1.inodes[i].ref \in Nat
    BY <1>3, <1>5 DEF Disk, Inode
  <2>2. \A i \in I : IsFile(d, i) => d1.inodes[i].ref >= d.inodes[i].ref
    BY <1>5, <2>1
  <2> HIDE DEF d1
  <2> QED
    BY <1>4, <1>5, <2>2, StillWhole
<1>7. AllWhole(a.s) /\ a.s \in Seq(Disk) /\ a.s # <<>>
  BY <1>2, <1>4, <1>6, GrownWhole DEF Whole
<1>7a. Runs(d, a.s)
  <2>1. Runs(d, s)
    BY <1>3, OneRuns DEF s
  <2>2. Move(d, d1)
    BY <1>3, <1>4, <1>5, MapMove
  <2> QED
    BY <1>2, <1>4, <2>1, <2>2, GrownRuns
<1>8. /\ v \in Inode /\ v.type = "FILE" /\ v.ref = 1 /\ \A k \in Direct : v.direct[k] = 0
  BY Contents DEF ZeroInode, Inode
<1> HIDE DEF v, x
<1>9. /\ Grown(a.s, t) /\ Rest(d1, d2, {"inodes"}) /\ d2.inodes[x] = v
      /\ \A i \in I : d2.inodes[i] = d1.inodes[i]
      /\ Fine(d2, I) /\ Alike(d1, d2, I)
  BY <1>4, <1>7, <1>8, WriteSpareInode
<1> HIDE DEF t, d1
<1>10. d2 \in Disk /\ d2.imap = d1.imap /\ d2.blocks = d1.blocks
  BY <1>9 DEF Rest
<1>11. WholeBy(d2, I)
  <2>1. \A i \in I : d2.inodes[i].ref \in Nat
    BY <1>3, <1>10 DEF Disk, Inode
  <2>2. \A i \in I : IsFile(d1, i) => d2.inodes[i].ref >= d1.inodes[i].ref
    BY <1>9, <2>1
  <2> HIDE DEF d2
  <2> QED
    BY <1>6, <1>9, <1>10, <2>2, StillWhole
<1>12. AllWhole(t) /\ t \in Seq(Disk) /\ t # <<>>
  BY <1>7, <1>9, <1>11, GrownWhole DEF Whole
<1>12a. Runs(d, t)
  <2>1. Move(d1, d2)
    <3> HIDE DEF d2
    <3> QED
      BY <1>5, <1>4, <1>9, <1>10, SpareMove
  <2> QED
    BY <1>7a, <1>9, <2>1, GrownRuns DEF d1
<1> HIDE DEF d2
<1>13. Nameable(d2, I, p, x)
  <2>1. IsFile(d2, x) /\ d2.inodes[x].ref >= 1
    BY <1>8, <1>9 DEF IsFile
  <2>2. Own(d2, I)
    BY <1>9 DEF Fine
  <2>3. Own(d2, I \cup {x})
    <3>1. \A k \in Direct : d2.inodes[x].direct[k] = 0
      BY <1>8, <1>9
    <3> QED
      BY <1>4, <1>10, <2>2, <3>1 DEF Own
  <2> QED
    BY <1>4, <2>1, <2>3 DEF Nameable
<1>14. IsDir(d2, p) /\ Dentries(d2, p) = Dentries(d, p)
  BY <1>5, <1>9, <1>10 DEF IsDir, Dentries, DirBlock
<1>15. Fits(d2, p, n)
  BY <1>14 DEF Fits
<1>16. Grown(t, u) /\ Added(d2, d3, p, x, n)
  <2>1. Dirs(d2, I) /\ x \in Nat
    BY <1>4, <1>9 DEF Fine, Inum
  <2> QED
    BY <1>12, <1>14, <2>1, AppendDentry DEF d2
<1>17. WholeBy(d3, I \cup {x})
  <2> HIDE DEF d3
  <2> QED
    BY <1>4, <1>11, <1>13, <1>15, <1>16, AddWhole
<1>18. Runs(d, u)
  <2>1. \A k \in Direct : d2.inodes[x].direct[k] = 0
    BY <1>8, <1>9
  <2>2. d2.inodes[x].size = 0
    BY <1>9 DEF v, ZeroInode
  <2>3. d3 \in Disk /\ d3.magic = d2.magic
    BY <1>16 DEF Added, Rest
  <2> HIDE DEF d3
  <2>4. Gains(d2, d3, I)
    <3>1. /\ p \in I /\ n \in Path /\ Nameable(d2, I, p, x) /\ Fits(d2, p, n)
          /\ Added(d2, d3, p, x, n)
      BY <1>13, <1>15, <1>16
    <3>2. x \notin I /\ IsFile(d2, x) =>
            d2.inodes[x].size = 0 /\ \A k \in Direct : d2.inodes[x].direct[k] = 0
      BY <2>1, <2>2
    <3> QED
      BY <3>1, <3>2 DEF Gains
  <2>5. Move(d2, d3)
    BY <1>9, <1>10, <2>3, <2>4 DEF Move
  <2> QED
    BY <1>12a, <1>16, <2>5, GrownRuns DEF d2, d3
<1> QED
  BY <1>1, <1>12, <1>16, <1>17, <1>18, GrownWhole DEF Whole, s

\* A new directory: an inode and a block that nothing in use shares.
LEMMA InitDir ==
  ASSUME NEW d, NEW I, WholeBy(d, I), NEW p \in I,
         ~ 0 .. (IWORDS * W - 1) \subseteq d.imap, ~ 0 .. (BWORDS * W - 1) \subseteq d.bmap,
         NEW new, new = init_dir_inode(<<d>>, p)
  PROVE  /\ AllWhole(new.s) /\ WholeBy(Last(new.s), I) /\ new.num \notin I
         /\ Runs(d, new.s) /\ IsDir(Last(new.s), new.num)
         /\ Nameable(Last(new.s), I, p, new.num)
         /\ \A i \in I : Last(new.s).inodes[i] = d.inodes[i]
         /\ \A i \in I : IsDir(d, i) => Dentries(Last(new.s), i) = Dentries(d, i)
<1> DEFINE s == <<d>>
           a == alloc_inode(s)
           b == alloc_block(a.s)
           x == a.num
           v == [ZeroInode EXCEPT !.type = "DIRECTORY", !.ref = 1, !.direct[1] = b.num]
           es == <<[valid |-> TRUE, inum |-> x, name |-> "."],
                   [valid |-> TRUE, inum |-> p, name |-> ".."]>>
           c == [ZeroBlock EXCEPT !.dentries = es]
           t == write_inode(b.s, x, v)
           u == write_block(t, b.num, c)
           d1 == Last(a.s)
           d2 == Last(b.s)
           d3 == Last(t)
           d4 == Last(u)
<1>1. new.s = u /\ new.num = x
  BY DEF init_dir_inode
<1>2. s \in Seq(Disk) /\ s # <<>> /\ Last(s) = d /\ AllWhole(s)
  BY OneWhole
<1>3. d \in Disk /\ Fine(d, I) /\ I \subseteq Inum
  BY FineOf DEF WholeBy
<1> HIDE DEF s
<1>4. /\ Grown(s, a.s) /\ Rest(d, d1, {"imap"})
      /\ Fine(d1, I) /\ Alike(d, d1, I)
      /\ x \in Inum /\ x \notin I /\ Usable(x) /\ x - 1 \in d1.imap
  BY <1>2, <1>3, AllocInode
<1> HIDE DEF a
<1>5. d1 \in Disk /\ d1.inodes = d.inodes /\ d1.blocks = d.blocks /\ d1.bmap = d.bmap
  BY <1>4 DEF Rest
<1>6. WholeBy(d1, I)
  <2>1. \A i \in I : d1.inodes[i].ref \in Nat
    BY <1>3, <1>5 DEF Disk, Inode
  <2>2. \A i \in I : IsFile(d, i) => d1.inodes[i].ref >= d.inodes[i].ref
    BY <1>5, <2>1
  <2> HIDE DEF d1
  <2> QED
    BY <1>4, <1>5, <2>2, StillWhole
<1>7. AllWhole(a.s) /\ a.s \in Seq(Disk) /\ a.s # <<>>
  BY <1>2, <1>4, <1>6, GrownWhole DEF Whole
<1>7a. Runs(d, a.s)
  <2>1. Runs(d, s)
    BY <1>3, OneRuns DEF s
  <2>2. Move(d, d1)
    BY <1>3, <1>4, <1>5, MapMove
  <2> QED
    BY <1>2, <1>4, <2>1, <2>2, GrownRuns
<1> HIDE DEF x
<1>8. /\ Grown(a.s, b.s) /\ Rest(d1, d2, {"bmap"})
      /\ Fine(d2, I) /\ Alike(d1, d2, I)
      /\ b.num \in Blk /\ Usable(b.num) /\ b.num - 1 \in d2.bmap
      /\ \A i \in I, k \in Direct : d2.inodes[i].direct[k] # b.num
  BY <1>4, <1>5, <1>7, AllocBlock
<1> HIDE DEF b, d1
<1>9. d2 \in Disk /\ d2.inodes = d1.inodes /\ d2.blocks = d1.blocks /\ d2.imap = d1.imap
  BY <1>8 DEF Rest
<1>10. WholeBy(d2, I)
  <2>1. \A i \in I : d2.inodes[i].ref \in Nat
    BY <1>3, <1>9 DEF Disk, Inode
  <2>2. \A i \in I : IsFile(d1, i) => d2.inodes[i].ref >= d1.inodes[i].ref
    BY <1>9, <2>1
  <2> HIDE DEF d2
  <2> QED
    BY <1>6, <1>8, <1>9, <2>2, StillWhole
<1>11. AllWhole(b.s) /\ b.s \in Seq(Disk) /\ b.s # <<>>
  BY <1>7, <1>8, <1>10, GrownWhole DEF Whole
<1>11a. Runs(d, b.s)
  <2>1. Move(d1, d2)
    <3> HIDE DEF d2
    <3> QED
      BY <1>4, <1>5, <1>8, <1>9, MapMove
  <2> QED
    BY <1>7a, <1>8, <2>1, GrownRuns DEF d1
<1>12. /\ v \in Inode /\ v.type = "DIRECTORY"
       /\ v.direct[1] = b.num /\ \A k \in Direct \ {1} : v.direct[k] = 0
  <2>1. 1 \in Direct
    BY FsAssumption DEF Direct
  <2>2. b.num \in Nat
    BY <1>8, FsAssumption DEF Blk
  <2> QED
    BY <2>1, <2>2 DEF ZeroInode, Inode
<1> HIDE DEF v
<1>13. /\ Grown(b.s, t) /\ Rest(d2, d3, {"inodes"}) /\ d3.inodes[x] = v
       /\ \A i \in I : d3.inodes[i] = d2.inodes[i]
       /\ Fine(d3, I) /\ Alike(d2, d3, I)
  <2>1. Fine(Last(b.s), I) /\ t = write_inode(b.s, x, v)
    BY <1>8
  <2> HIDE DEF t
  <2>2. /\ Grown(b.s, t) /\ Rest(Last(b.s), Last(t), {"inodes"}) /\ Last(t).inodes[x] = v
        /\ \A i \in I : Last(t).inodes[i] = Last(b.s).inodes[i]
        /\ Fine(Last(t), I) /\ Alike(Last(b.s), Last(t), I)
    BY <1>4, <1>11, <1>12, <2>1, WriteSpareInode
  <2> QED
    BY <2>2
<1> HIDE DEF t, d2
<1>14. d3 \in Disk /\ d3.imap = d2.imap /\ d3.bmap = d2.bmap /\ d3.blocks = d2.blocks
  BY <1>13 DEF Rest
<1>15. WholeBy(d3, I)
  <2>1. \A i \in I : d3.inodes[i].ref \in Nat
    BY <1>3, <1>14 DEF Disk, Inode
  <2>2. \A i \in I : IsFile(d2, i) => d3.inodes[i].ref >= d2.inodes[i].ref
    BY <1>13, <2>1
  <2> HIDE DEF d3
  <2> QED
    BY <1>10, <1>13, <1>14, <2>2, StillWhole
<1>16. AllWhole(t) /\ t \in Seq(Disk) /\ t # <<>>
  BY <1>11, <1>13, <1>15, GrownWhole DEF Whole
<1>16a. Runs(d, t)
  <2>1. Move(d2, d3)
    <3> HIDE DEF d3
    <3> QED
      BY <1>8, <1>9, <1>13, <1>14, SpareMove
  <2> QED
    BY <1>11a, <1>13, <2>1, GrownRuns DEF d2
<1>17. c \in Content /\ c.dentries = es
  <2>1. es \in Seq(Dentry)
    <3>1. x \in Nat /\ p \in Nat
      BY <1>3, <1>4 DEF Inum
    <3>2. /\ [valid |-> TRUE, inum |-> x, name |-> "."] \in Dentry
          /\ [valid |-> TRUE, inum |-> p, name |-> ".."] \in Dentry
      BY <3>1 DEF Dentry, Path
    <3> QED
      BY <3>2
  <2> HIDE DEF es
  <2> QED
    BY <2>1, Contents
<1> HIDE DEF c
<1>18. /\ Grown(t, u) /\ Rest(d3, d4, {"blocks"}) /\ d4.blocks[b.num] = c
       /\ \A j \in Blk \ {b.num} : d4.blocks[j] = d3.blocks[j]
       /\ Fine(d4, I) /\ Alike(d3, d4, I)
  <2>1. 1 \in Direct
    BY FsAssumption DEF Direct
  <2>2. \A i \in I : IsDir(d3, i) => DirBlock(d3, i) # b.num
    BY <1>8, <1>13, <2>1 DEF DirBlock, d2
  <2>3. Fine(Last(t), I)
    BY <1>13
  <2>4. \A i \in I : IsDir(Last(t), i) => DirBlock(Last(t), i) # b.num
    BY <2>2
  <2> HIDE DEF d3
  <2>5. /\ Grown(t, u) /\ Rest(Last(t), Last(u), {"blocks"}) /\ Last(u).blocks[b.num] = c
        /\ \A j \in Blk \ {b.num} : Last(u).blocks[j] = Last(t).blocks[j]
        /\ Fine(Last(u), I) /\ Alike(Last(t), Last(u), I)
    BY <1>8, <1>16, <1>17, <2>3, <2>4, WriteSpareBlock
  <2> QED
    BY <2>5 DEF d3, d4
<1> HIDE DEF u, d3
<1>19. d4 \in Disk /\ d4.inodes = d3.inodes /\ d4.imap = d3.imap /\ d4.bmap = d3.bmap
  BY <1>18 DEF Rest
<1>20. WholeBy(d4, I)
  <2>1. \A i \in I : d4.inodes[i].ref \in Nat
    BY <1>3, <1>19 DEF Disk, Inode
  <2>2. \A i \in I : IsFile(d3, i) => d4.inodes[i].ref >= d3.inodes[i].ref
    BY <1>19, <2>1
  <2> HIDE DEF d4
  <2> QED
    BY <1>15, <1>18, <1>19, <2>2, StillWhole
<1>21. AllWhole(u)
  BY <1>16, <1>18, <1>20, GrownWhole DEF Whole
<1>21a. Runs(d, u)
  <2>1. \A i \in I, k \in Direct : d3.inodes[i].direct[k] # b.num
    BY <1>8, <1>13
  <2>2. Move(d3, d4)
    <3> HIDE DEF d4
    <3>1. \E m : /\ \A i \in I, k \in Direct : d3.inodes[i].direct[k] # m
                /\ \A j \in Blk \ {m} : d4.blocks[j] = d3.blocks[j]
      BY <1>18, <2>1
    <3> QED
      BY <1>13, <1>14, <1>18, <1>19, <3>1, BlockMove
  <2> QED
    BY <1>16a, <1>18, <2>2, GrownRuns DEF d3, d4
<1> HIDE DEF d4
<1>22. Nameable(d4, I, p, x)
  <2>1. 1 \in Direct /\ 0 \notin Blk
    BY FsAssumption DEF Direct, Blk
  <2>2. IsDir(d4, x) /\ DirBlock(d4, x) = b.num
    BY <1>12, <1>13, <1>19 DEF IsDir, DirBlock
  <2>3. Dentries(d4, x) = es
    BY <1>17, <1>18, <2>2 DEF Dentries
  <2>4. /\ Len(es) = 2
        /\ es[1] = [valid |-> TRUE, inum |-> x, name |-> "."]
        /\ es[2] = [valid |-> TRUE, inum |-> p, name |-> ".."]
    OBVIOUS
  <2>5. Own(d4, I)
    BY <1>18 DEF Fine
  <2>6. Own(d4, I \cup {x})
    <3>1. d4.inodes[x].direct[1] = b.num /\ \A k \in Direct \ {1} : d4.inodes[x].direct[k] = 0
      BY <1>12, <1>13, <1>19
    <3>2. \A i \in I, k \in Direct : d4.inodes[i].direct[k] # b.num
      BY <1>8, <1>13, <1>19
    <3>3. x - 1 \in d4.imap /\ b.num - 1 \in d4.bmap
      BY <1>4, <1>8, <1>9, <1>14, <1>19
    <3> QED
      BY <1>4, <1>8, <2>1, <2>5, <3>1, <3>2, <3>3 DEF Own
  <2> HIDE DEF es
  <2> QED
    BY <1>4, <1>8, <2>2, <2>3, <2>4, <2>6 DEF Nameable
<1>22a. IsDir(d4, x)
  BY <1>12, <1>13, <1>19 DEF IsDir
<1>23. \A i \in I : d4.inodes[i] = d.inodes[i]
  BY <1>5, <1>9, <1>13, <1>19
<1>24. \A i \in I : IsDir(d, i) => Dentries(d4, i) = Dentries(d, i)
  <2> SUFFICES ASSUME NEW i \in I, IsDir(d, i) PROVE Dentries(d4, i) = Dentries(d, i)
    OBVIOUS
  <2>1. 1 \in Direct /\ DirBlock(d, i) \in Blk /\ d4.inodes[i] = d.inodes[i]
    <3>1. 1 \in Direct
      BY FsAssumption DEF Direct
    <3>2. DirBlock(d, i) \in Blk
      BY <1>3 DEF Fine, Dirs
    <3> QED
      BY <1>23, <3>1, <3>2
  <2>2. DirBlock(d, i) # b.num
    BY <1>8, <1>9, <1>5, <2>1 DEF DirBlock
  <2>3. d4.blocks[DirBlock(d, i)] = d.blocks[DirBlock(d, i)]
    BY <1>5, <1>9, <1>14, <1>18, <2>1, <2>2
  <2> QED
    BY <2>1, <2>3 DEF Dentries, DirBlock
<1> QED
  BY <1>1, <1>4, <1>20, <1>21, <1>21a, <1>22, <1>22a, <1>23, <1>24 DEF d4

LEMMA MkdirWhole ==
  ASSUME NEW d, NEW I, WholeBy(d, I), NEW p \in I, IsDir(d, p), NEW n \in Path, Fits(d, p, n),
         ~ 0 .. (IWORDS * W - 1) \subseteq d.imap, ~ 0 .. (BWORDS * W - 1) \subseteq d.bmap
  PROVE  AllWhole(mkdir(<<d>>, p, n)) /\ Runs(d, mkdir(<<d>>, p, n))
<1> DEFINE new == init_dir_inode(<<d>>, p)
           x == new.num
           u == append_dentry(new.s, p, n, x)
           d1 == Last(new.s)
           d2 == Last(u)
<1>1. mkdir(<<d>>, p, n) = u
  BY DEF mkdir
<1>2. /\ AllWhole(new.s) /\ WholeBy(d1, I) /\ x \notin I
      /\ Runs(d, new.s) /\ IsDir(d1, x)
      /\ Nameable(d1, I, p, x)
      /\ \A i \in I : d1.inodes[i] = d.inodes[i]
      /\ \A i \in I : IsDir(d, i) => Dentries(d1, i) = Dentries(d, i)
  BY InitDir
<1> HIDE DEF new
<1>3. IsDir(d1, p) /\ Dentries(d1, p) = Dentries(d, p) /\ Fits(d1, p, n)
  BY <1>2 DEF IsDir, Fits
<1>4. Grown(new.s, u) /\ Added(d1, d2, p, x, n)
  <2>1. Dirs(d1, I) /\ x \in Nat /\ new.s \in Seq(Disk) /\ new.s # <<>>
    BY <1>2 DEF WholeBy, Fine, Nameable, Inum, AllWhole
  <2> HIDE DEF x
  <2> QED
    BY <1>3, <2>1, AppendDentry
<1> HIDE DEF d1
<1>5. WholeBy(d2, I \cup {x})
  <2> HIDE DEF d2
  <2> QED
    BY <1>2, <1>3, <1>4, AddWhole
<1>6. Runs(d, u)
  <2>1. d1 \in Disk /\ Fine(d1, I) /\ d2 \in Disk /\ d2.magic = d1.magic
    BY <1>2, <1>4 DEF WholeBy, Added, Rest
  <2> HIDE DEF d2
  <2>2. Gains(d1, d2, I)
    <3>1. p \in I /\ n \in Path /\ Nameable(d1, I, p, x) /\ Fits(d1, p, n) /\ Added(d1, d2, p, x, n)
      BY <1>2, <1>3, <1>4
    <3>2. ~ IsFile(d1, x)
      BY <1>2 DEF IsDir, IsFile
    <3> QED
      BY <3>1, <3>2 DEF Gains
  <2>3. Move(d1, d2)
    BY <2>1, <2>2 DEF Move
  <2> QED
    BY <1>2, <1>4, <2>3, GrownRuns DEF d1, d2
<1> QED
  BY <1>1, <1>2, <1>4, <1>5, <1>6, GrownWhole DEF Whole

-----------------------------------------------------------------------------
(* rm and rmdir *)

LEMMA RemoveWhole ==
  ASSUME NEW d, NEW I, WholeBy(d, I), NEW p \in I, IsDir(d, p), NEW n,
         NEW x, x = parse_path(d, p, n), x # 0,
         n \notin {".", ".."} \/ IsFile(d, x), Removable(d, x),
         \A q \in Proc : cwd[q] # x, \A fd \in Fd : fdesc[fd].inum # x,
         NEW j0, j0 = FirstHit(d, p, n), NEW J, J = LeftOf(d, I, p, j0, x),
         NEW gone, gone = remove_dentry(<<d>>, p, n), NEW e, e = Last(gone)
  PROVE  /\ AllWhole(gone) /\ gone \in Seq(Disk) /\ gone # <<>> /\ WholeBy(e, J)
         /\ Runs(d, gone)
         /\ x \in I /\ J \subseteq I /\ I \ {x} \subseteq J
         /\ IsDir(d, x) => x \notin J
         /\ x \in J => NamesOf(e, J, x) # {}
         /\ Leads(d, p, j0, x)
         /\ e.inodes = d.inodes /\ e.imap = d.imap /\ e.bmap = d.bmap
         /\ Cardinality(NamesOf(e, J, x)) <= Cardinality(NamesOf(d, I, x)) - 1
<1>1. d \in Disk /\ Fine(d, I) /\ Linked(d, I) /\ Handles(d, I) /\ Dirs(d, I) /\ I \in SUBSET Inum
  BY FineOf DEF WholeBy, Fine
<1>2. j0 \in DOMAIN Dentries(d, p) /\ Leads(d, p, j0, x)
  BY <1>1, Found
<1>3. Grown(<<d>>, gone) /\ Removed(d, e, p, j0)
  <2> DEFINE s == <<d>>
  <2>1. s \in Seq(Disk) /\ s # <<>> /\ Last(s) = d
    BY OneWhole
  <2>2. gone = remove_dentry(s, p, n)
    OBVIOUS
  <2> HIDE DEF s
  <2>3. Grown(s, gone) /\ Removed(Last(s), Last(gone), p, j0)
    BY <1>1, <1>2, <2>1, <2>2, RemoveDentry
  <2> QED
    BY <2>1, <2>3 DEF s
<1>4. e \in Disk /\ e.inodes = d.inodes /\ e.imap = d.imap /\ e.bmap = d.bmap
  BY <1>3 DEF Removed, Rest
<1>5. x \in I /\ x # ROOT_DIR_INUM /\ x # p /\ (IsDir(d, x) => J = I \ {x})
  BY <1>1, <1>2, <1>3, <1>4, RemoveReach
<1>6. Fine(e, J)
  BY <1>1, <1>2, <1>3, <1>4, RemoveFine
<1>7. /\ J \subseteq I /\ I \ {x} \subseteq J
      /\ x \in J => J = I /\ \E i \in I, j \in Nat : Leads(d, i, j, x) /\ ~ (i = p /\ j = j0)
  BY DEF LeftOf
<1>8. /\ \A i : (IsDir(e, i) <=> IsDir(d, i)) /\ (IsFile(e, i) <=> IsFile(d, i))
      /\ \A i \in I : \A j, y : Leads(e, i, j, y) <=> Leads(d, i, j, y) /\ ~ (i = p /\ j = j0)
  BY <1>1, <1>2, <1>3, <1>4, RemovedEntries
<1>9. Handles(e, J)
  BY <1>1, <1>7, <1>8, HandlesOn
<1>10. \A y : Cardinality(NamesOf(e, J, y)) <= Cardinality(NamesOf(d, I, y))
  BY <1>1, <1>4, <1>6, <1>7, <1>8, NamesLess DEF Fine
<1>11. Cardinality(NamesOf(e, J, x)) <= Cardinality(NamesOf(d, I, x)) - 1
  <2>1. J \in SUBSET I /\ Dirs(e, J) /\ p \in I /\ Leads(d, p, j0, x) /\ ~ Leads(e, p, j0, x)
    BY <1>2, <1>6, <1>7, <1>8 DEF Fine
  <2>2. \A i \in J : \A j : Leads(e, i, j, x) => Leads(d, i, j, x)
    BY <1>7, <1>8
  <2> QED
    BY <1>1, <1>4, <2>1, <2>2, NamesLess
<1>12. Linked(e, J)
  <2> SUFFICES ASSUME NEW y \in J, IsFile(e, y)
               PROVE  Cardinality(NamesOf(e, J, y)) <= e.inodes[y].ref
    BY DEF Linked
  <2>1. Cardinality(NamesOf(d, I, y)) <= d.inodes[y].ref
    BY <1>1, <1>7, <1>8 DEF Linked
  <2>2. Cardinality(NamesOf(d, I, y)) \in Nat
    BY <1>1, NamesFinite
  <2>3. Cardinality(NamesOf(e, J, y)) \in Nat
    <3>1. J \in SUBSET Inum
      BY <1>1, <1>7
    <3> QED
      BY <3>1, NamesFinite
  <2>4. e.inodes[y].ref \in Nat /\ e.inodes[y] = d.inodes[y]
    BY <1>1, <1>4, <1>7 DEF Disk, Inode
  <2> QED
    BY <1>10, <2>1, <2>2, <2>3, <2>4
<1>13. WholeBy(e, J)
  BY <1>4, <1>6, <1>9, <1>12 DEF WholeBy
<1>14. AllWhole(gone) /\ gone \in Seq(Disk) /\ gone # <<>>
  BY <1>3, <1>13, OneWhole, GrownWhole DEF Whole
<1>15. x \in J => NamesOf(e, J, x) # {}
  <2> SUFFICES ASSUME x \in J PROVE NamesOf(e, J, x) # {}
    OBVIOUS
  <2>1. PICK i \in I, j \in Nat : Leads(e, i, j, x)
    BY <1>7, <1>8
  <2>2. <<i, j>> \in NamesOf(e, J, x)
    BY <1>1, <1>4, <1>6, <1>7, <2>1, NamesAre DEF Fine
  <2> QED
    BY <2>2
<1>16. Runs(d, gone)
  <2>1. e.magic = d.magic
    BY <1>3 DEF Removed, Rest
  <2>2. Loses(d, e, I)
    BY <1>2, <1>3 DEF Loses
  <2>3. Move(d, e)
    BY <1>1, <1>4, <2>1, <2>2 DEF Move
  <2>4. Runs(d, <<d>>) /\ Last(<<d>>) = d
    BY <1>1, OneRuns, OneWhole
  <2> QED
    BY <1>3, <2>3, <2>4, GrownRuns
<1> QED
  BY <1>2, <1>4, <1>5, <1>7, <1>11, <1>13, <1>14, <1>15, <1>16

LEMMA FreeInode ==
  ASSUME NEW s \in Seq(Disk), s # <<>>, NEW J, Fine(Last(s), J),
         NEW x \in Nat \ {0}, Usable(x), x \notin J, NEW t, t = free_inode(s, x)
  PROVE  /\ Grown(s, t) /\ Rest(Last(s), Last(t), {"imap"})
         /\ Fine(Last(t), J) /\ Alike(Last(s), Last(t), J)
<1> DEFINE d == Last(s)
           e == Last(t)
           m == d.imap \ FreedBits(x)
<1>1. d \in Disk /\ Fine(d, J) /\ Own(d, J) /\ Maps(d) /\ J \subseteq Inum
  BY LastIn, FineOf DEF Fine
<1>2. t = Write(s, "imap", m)
  BY DEF free_inode
<1> HIDE DEF d
<1>3. m \in SUBSET (0 .. (IWORDS * W - 1))
  BY <1>1 DEF Disk
<1> HIDE DEF m
<1>4. Grown(s, t) /\ Rest(d, e, {"imap"}) /\ e.imap = m
  BY <1>2, <1>3, WriteImap DEF d
<1> HIDE DEF e
<1>5. e.inodes = d.inodes /\ e.blocks = d.blocks /\ e.bmap = d.bmap
  BY <1>4 DEF Rest
<1>6. Alike(d, e, J)
  BY <1>1, <1>5, AlikeSame
<1>7. \A i \in J : i - 1 \in m
  <2> SUFFICES ASSUME NEW i \in J PROVE i - 1 \in m
    OBVIOUS
  <2>1. i \in Nat \ {0} /\ Usable(i) /\ i # x /\ i - 1 \in d.imap
    BY <1>1 DEF Own, Inum
  <2>2. i - 1 \notin FreedBits(x)
    BY <2>1, FreeBit
  <2> QED
    BY <2>1, <2>2 DEF m
<1>8. Own(e, J)
  BY <1>1, <1>4, <1>5, <1>7, StillOwn DEF Own
<1>9. Maps(e)
  <2>1. Halves(FreedBits(x))
    BY FreeBit
  <2>2. Halves(d.imap)
    BY <1>1 DEF Maps
  <2>3. Halves(m)
    BY <2>1, <2>2 DEF Halves, m
  <2> QED
    BY <1>1, <1>4, <1>5, <2>3 DEF Maps
<1>10. Fine(e, J)
  BY <1>1, <1>6, <1>8, <1>9, StillFine
<1> QED
  BY <1>4, <1>6, <1>10 DEF d, e

\* The bits of the first k direct blocks of an inode.
FreedTo(v, k) == UNION {IF v.direct[l] = 0 THEN {} ELSE FreedBits(v.direct[l]) : l \in 1 .. k}

LEMMA FreeBlocks ==
  ASSUME NEW s, AllWhole(s), NEW J, WholeBy(Last(s), J), NEW v,
         \A k \in Direct : v.direct[k] # 0 =>
           /\ v.direct[k] \in Blk /\ Usable(v.direct[k])
           /\ \A i \in J, l \in Direct : Last(s).inodes[i].direct[l] # v.direct[k],
         NEW t, t = free_blocks(s, v), NEW d0, Runs(d0, s)
  PROVE  AllWhole(t) /\ Runs(d0, t)
<1> DEFINE d == Last(s)
           on(k) == [d EXCEPT !.bmap = @ \ FreedTo(v, k)]
           f == [k \in Direct |-> on(k)]
<1>1. s \in Seq(Disk) /\ s # <<>> /\ Len(s) \in Nat /\ \A k \in 1 .. Len(s) : Whole(s[k])
  BY DEF AllWhole
<1>2. /\ d \in Disk /\ Fine(d, J) /\ Own(d, J) /\ Maps(d) /\ WholeBy(d, J) /\ J \subseteq Inum
      /\ \A k \in Direct : v.direct[k] # 0 =>
           \A i \in J, l \in Direct : d.inodes[i].direct[l] # v.direct[k]
  BY FineOf DEF WholeBy, Fine
<1>3. t = s \o f
  BY DEF free_blocks, FreedTo
<1> HIDE DEF d
<1>4. ASSUME NEW k \in Direct
      PROVE  /\ on(k) \in Disk /\ WholeBy(on(k), J)
             /\ on(k).inodes = d.inodes /\ on(k).blocks = d.blocks /\ on(k).magic = d.magic
  <2> DEFINE e == on(k)
             m == d.bmap \ FreedTo(v, k)
  <2>1. e \in Disk /\ e.bmap = m /\ e.imap = d.imap /\ e.inodes = d.inodes /\ e.blocks = d.blocks
        /\ e.magic = d.magic
    BY <1>2 DEF Disk
  <2> HIDE DEF e, m
  <2>2. \A c \in FreedTo(v, k) : \E l \in Direct : v.direct[l] # 0 /\ c \in FreedBits(v.direct[l])
    BY <1>4, FsAssumption DEF FreedTo, Direct
  <2>3. \A l \in Direct : v.direct[l] # 0 =>
          v.direct[l] \in Nat \ {0} /\ v.direct[l] > META /\ Usable(v.direct[l])
    BY FsAssumption DEF Blk
  <2>4. Alike(d, e, J)
    BY <1>2, <2>1, AlikeSame
  <2>5. \A i \in J : \A l \in Direct : d.inodes[i].direct[l] # 0 => d.inodes[i].direct[l] - 1 \in m
    <3> SUFFICES ASSUME NEW i \in J, NEW l \in Direct, d.inodes[i].direct[l] # 0,
                        d.inodes[i].direct[l] - 1 \in FreedTo(v, k)
                 PROVE  FALSE
      BY <1>2 DEF Own, m
    <3> DEFINE b == d.inodes[i].direct[l]
    <3>1. b \in Nat \ {0} /\ Usable(b)
      BY <1>2, FsAssumption DEF Own, Blk
    <3>2. PICK h \in Direct : v.direct[h] # 0 /\ b - 1 \in FreedBits(v.direct[h])
      BY <2>2
    <3>3. b # v.direct[h]
      BY <1>2, <3>2
    <3> HIDE DEF b
    <3> QED
      BY <2>3, <3>1, <3>2, <3>3, FreeBit
  <2>6. Own(e, J)
    <3>1. \A i \in J : e.inodes[i].direct = d.inodes[i].direct /\ i - 1 \in e.imap
      BY <1>2, <2>1 DEF Own
    <3> QED
      BY <1>2, <2>1, <2>5, <3>1, StillOwn
  <2>7. Maps(e)
    <3>1. Halves(FreedTo(v, k))
      <4> SUFFICES ASSUME NEW b \in Nat, NEW c \in Nat,
                          Word(b) = Word(c) /\ Place(b) >= H - 1 /\ Place(c) >= H - 1,
                          b \in FreedTo(v, k)
                   PROVE  c \in FreedTo(v, k)
        BY DEF Halves
      <4>1. PICK l \in 1 .. k : b \in IF v.direct[l] = 0 THEN {} ELSE FreedBits(v.direct[l])
        BY DEF FreedTo
      <4>2. l \in Direct
        BY <1>4, FsAssumption DEF Direct
      <4>3. v.direct[l] # 0 /\ b \in FreedBits(v.direct[l])
        BY <4>1
      <4>4. c \in FreedBits(v.direct[l])
        BY <2>3, <4>2, <4>3, FreeBit DEF Halves
      <4> QED
        BY <4>3, <4>4 DEF FreedTo
    <3>2. Halves(d.bmap) /\ Halves(d.imap) /\ 0 .. (META - 1) \subseteq d.bmap
      BY <1>2 DEF Maps
    <3>3. Halves(m)
      BY <3>1, <3>2 DEF Halves, m
    <3>4. \A c \in FreedTo(v, k) : c \notin 0 .. (META - 1)
      <4> SUFFICES ASSUME NEW c \in FreedTo(v, k) PROVE c \notin 0 .. (META - 1)
        OBVIOUS
      <4>1. PICK l \in Direct : v.direct[l] # 0 /\ c \in FreedBits(v.direct[l])
        BY <2>2
      <4>2. c \in Nat /\ c >= v.direct[l] - 1
        BY <2>3, <4>1, FreeBit
      <4> QED
        BY <2>3, <4>1, <4>2, FsAssumption
    <3> QED
      BY <2>1, <3>2, <3>3, <3>4 DEF Maps, m
  <2>8. Fine(e, J)
    BY <1>2, <2>4, <2>6, <2>7, StillFine
  <2>9. \A i \in J : IsFile(d, i) => e.inodes[i].ref >= d.inodes[i].ref
    <3>1. \A i \in J : e.inodes[i].ref \in Nat
      BY <1>2, <2>1 DEF Disk, Inode
    <3> QED
      BY <2>1, <3>1
  <2>10. WholeBy(e, J)
    BY <1>2, <2>1, <2>4, <2>8, <2>9, StillWhole
  <2> QED
    BY <2>1, <2>10 DEF e
<1> DEFINE Near(e) == /\ e \in Disk /\ Fine(e, J)
                      /\ e.inodes = d.inodes /\ e.blocks = d.blocks /\ e.magic = d.magic
<1>4a. Near(d) /\ \A k \in Direct : Near(on(k))
  <2> HIDE DEF on
  <2> QED
    BY <1>2, <1>4 DEF WholeBy
<1>4b. \A e, g : Near(e) /\ Near(g) => Move(e, g)
  BY MapsMove
<1> HIDE DEF on, Near
<1>5. f \in Seq(Disk) /\ Len(f) = NDIRECT_BLOCKS /\ \A k \in 1 .. NDIRECT_BLOCKS : Whole(f[k]) /\ Near(f[k])
  <2>1. NDIRECT_BLOCKS \in Nat /\ Direct = 1 .. NDIRECT_BLOCKS
    BY FsAssumption DEF Direct
  <2>2. f \in [1 .. NDIRECT_BLOCKS -> Disk]
    BY <1>4, <2>1
  <2> QED
    BY <1>4, <1>4a, <2>1, <2>2 DEF Whole
<1> HIDE DEF f
<1>6. t \in Seq(Disk) /\ t # <<>> /\ Len(t) = Len(s) + Len(f)
      /\ \A k \in 1 .. (Len(s) + Len(f)) : t[k] = IF k <= Len(s) THEN s[k] ELSE f[k - Len(s)]
  <2>1. Len(s) # 0
    BY <1>1
  <2>2. t \in Seq(Disk) /\ Len(t) = Len(s) + Len(f)
    <3>1. s \in Seq(Disk) /\ f \in Seq(Disk)
      BY <1>1, <1>5
    <3>2. s \o f \in Seq(Disk) /\ Len(s \o f) = Len(s) + Len(f)
      BY <3>1
    <3> QED
      BY <1>3, <3>2
  <2>3. \A k \in 1 .. (Len(s) + Len(f)) : t[k] = IF k <= Len(s) THEN s[k] ELSE f[k - Len(s)]
    BY <1>1, <1>3, <1>5
  <2>4. Len(f) \in Nat
    BY <1>5
  <2>5. t # <<>>
    BY <1>1, <2>1, <2>2, <2>4
  <2> QED
    BY <2>2, <2>3, <2>5
<1>7. ASSUME NEW k \in 1 .. (Len(s) + Len(f))
      PROVE  Whole(t[k])
  <2>1. Len(f) \in Nat
    BY <1>5
  <2>2. CASE k <= Len(s)
    BY <1>1, <1>6, <1>7, <2>1, <2>2
  <2>3. CASE ~ k <= Len(s)
    <3>1. k - Len(s) \in 1 .. Len(f)
      BY <1>1, <1>7, <2>1, <2>3
    <3> QED
      BY <1>5, <1>6, <1>7, <2>3, <3>1
  <2> QED
    BY <2>2, <2>3
<1>8. Runs(d0, t)
  <2>1. s[1] = d0 /\ (\A k \in 1 .. (Len(s) - 1) : Move(s[k], s[k + 1])) /\ s[Len(s)] = d /\ Len(s) # 0
    BY <1>1, LastIn DEF Runs, d
  <2>2. Len(f) \in Nat /\ \A k \in 1 .. Len(f) : Near(f[k])
    BY <1>5
  <2>3. t[1] = d0
    BY <1>1, <1>6, <2>1, <2>2
  <2>4. ASSUME NEW k \in 1 .. (Len(t) - 1)
        PROVE  Move(t[k], t[k + 1])
    <3>1. k \in 1 .. (Len(s) + Len(f)) /\ k + 1 \in 1 .. (Len(s) + Len(f))
      BY <1>1, <1>6, <2>2
    <3>2. CASE k < Len(s)
      <4>1. t[k] = s[k] /\ t[k + 1] = s[k + 1] /\ k \in 1 .. (Len(s) - 1)
        BY <1>1, <1>6, <3>1, <3>2
      <4> QED
        BY <2>1, <4>1
    <3>3. CASE k = Len(s)
      <4>1. t[k] = d /\ t[k + 1] = f[1] /\ 1 \in 1 .. Len(f)
        BY <1>1, <1>6, <2>1, <2>2, <3>1, <3>3
      <4> QED
        BY <1>4a, <1>4b, <2>2, <4>1
    <3>4. CASE k > Len(s)
      <4>1. /\ t[k] = f[k - Len(s)] /\ t[k + 1] = f[k + 1 - Len(s)]
            /\ k - Len(s) \in 1 .. Len(f) /\ k + 1 - Len(s) \in 1 .. Len(f)
        BY <1>1, <1>6, <2>2, <3>1, <3>4
      <4> QED
        BY <1>4b, <2>2, <4>1
    <3> QED
      BY <1>1, <3>1, <3>2, <3>3, <3>4
  <2> QED
    BY <1>6, <2>3, <2>4 DEF Runs
<1> QED
  BY <1>6, <1>7, <1>8 DEF AllWhole

\* The inode and the blocks of x go, when nothing leads to x any more.
LEMMA FreeAll ==
  ASSUME NEW d, NEW I, WholeBy(d, I), NEW x \in I, NEW J, J \subseteq I, x \notin J,
         NEW s, AllWhole(s), WholeBy(Last(s), J), Last(s).inodes = d.inodes,
         NEW v, v.direct = d.inodes[x].direct,
         NEW t, t = free_blocks(free_inode(s, x), v), NEW d0, Runs(d0, s)
  PROVE  AllWhole(t) /\ Runs(d0, t)
<1> DEFINE u == free_inode(s, x)
           e == Last(s)
           f == Last(u)
<1>1. d \in Disk /\ Own(d, I) /\ x \in Nat \ {0} /\ Usable(x)
  <2>1. I \subseteq Inum /\ Own(d, I)
    BY FineOf DEF WholeBy, Fine
  <2> QED
    BY <2>1 DEF WholeBy, Own, Inum
<1>2. s \in Seq(Disk) /\ s # <<>> /\ Fine(e, J)
  BY DEF AllWhole, WholeBy
<1>3. /\ Grown(s, u) /\ Rest(e, f, {"imap"})
      /\ Fine(f, J) /\ Alike(e, f, J)
  BY <1>1, <1>2, FreeInode
<1> HIDE DEF u
<1>4. f \in Disk /\ f.inodes = d.inodes /\ f.inodes = e.inodes
  BY <1>3 DEF Rest
<1>5. WholeBy(f, J)
  <2>1. \A i \in J : f.inodes[i].ref \in Nat
    BY <1>3, <1>4, FineOf DEF Disk, Inode
  <2>2. \A i \in J : IsFile(e, i) => f.inodes[i].ref >= e.inodes[i].ref
    BY <1>4, <2>1
  <2> HIDE DEF f, e
  <2>3. WholeBy(e, J)
    BY DEF e
  <2> QED
    BY <1>3, <1>4, <2>2, <2>3, StillWhole
<1>6. AllWhole(u)
  BY <1>3, <1>5, GrownWhole DEF Whole
<1>6a. Runs(d0, u)
  <2>1. e \in Disk /\ f.blocks = e.blocks
    BY <1>3 DEF WholeBy, Rest
  <2>2. Move(e, f)
    <3> HIDE DEF e, f
    <3> QED
      BY <1>2, <1>3, <1>4, <2>1, MapMove
  <2> QED
    BY <1>3, <2>2, GrownRuns
<1>7. ASSUME NEW k \in Direct, v.direct[k] # 0
      PROVE  /\ v.direct[k] \in Blk /\ Usable(v.direct[k])
             /\ \A i \in J, l \in Direct : f.inodes[i].direct[l] # v.direct[k]
  <2> HIDE DEF f
  <2>1. \A i \in J : i \in I /\ i # x
    OBVIOUS
  <2> QED
    BY <1>1, <1>4, <1>7, <2>1 DEF Own
<1> QED
  BY <1>5, <1>6, <1>6a, <1>7, FreeBlocks DEF u, f

LEMMA RmWhole ==
  ASSUME NEW d, NEW I, WholeBy(d, I), NEW p \in I, IsDir(d, p), NEW n,
         NEW x, x = parse_path(d, p, n), x # 0, IsFile(d, x),
         \A fd \in Fd : fdesc[fd].inum # x
  PROVE  AllWhole(rm(<<d>>, p, n)) /\ Runs(d, rm(<<d>>, p, n))
<1> DEFINE v == [d.inodes[x] EXCEPT !.ref = @ - 1]
           gone == remove_dentry(<<d>>, p, n)
           e == Last(gone)
           j0 == FirstHit(d, p, n)
           J == LeftOf(d, I, p, j0, x)
<1>1. rm(<<d>>, p, n) = IF v.ref > 0 THEN write_inode(gone, x, v)
                        ELSE free_blocks(free_inode(gone, x), v)
  <2>1. Last(<<d>>) = d
    BY OneWhole
  <2> QED
    BY <2>1 DEF rm
<1>2. d \in Disk /\ Fine(d, I) /\ Linked(d, I) /\ Handles(d, I) /\ I \in SUBSET Inum
  BY FineOf DEF WholeBy
<1>3. \A q \in Proc : cwd[q] # x
  <2> SUFFICES ASSUME NEW q \in Proc, cwd[q] = x PROVE FALSE
    OBVIOUS
  <2> QED
    BY <1>2 DEF Handles, IsDir, IsFile
<1>4. /\ AllWhole(gone) /\ gone \in Seq(Disk) /\ gone # <<>> /\ WholeBy(e, J)
      /\ Runs(d, gone)
      /\ x \in I /\ J \subseteq I /\ I \ {x} \subseteq J
      /\ x \in J => NamesOf(e, J, x) # {}
      /\ e.inodes = d.inodes
      /\ Cardinality(NamesOf(e, J, x)) <= Cardinality(NamesOf(d, I, x)) - 1
  <2>1. Removable(d, x)
    BY DEF Removable
  <2> HIDE DEF gone, J, j0
  <2>2. gone = remove_dentry(<<d>>, p, n) /\ j0 = FirstHit(d, p, n) /\ J = LeftOf(d, I, p, j0, x)
    BY DEF gone, J, j0
  <2> QED
    BY <1>3, <2>1, <2>2, RemoveWhole
<1> HIDE DEF gone, j0, J
<1>5. J \in SUBSET Inum /\ e \in Disk /\ Fine(e, J) /\ Linked(e, J)
  BY <1>2, <1>4 DEF WholeBy
<1>6. d.inodes[x] \in Inode /\ d.inodes[x].ref \in Nat /\ d.inodes[x].ref >= 1
  <2>1. d.inodes[x] \in Inode
    BY <1>2, <1>4 DEF Disk
  <2>2. d.inodes[x].ref >= 1
    BY <1>2, <1>4 DEF Fine, Kinds, IsDir, IsFile
  <2> QED
    BY <2>1, <2>2 DEF Inode
<1>7. /\ v \in Inode /\ v.ref = d.inodes[x].ref - 1 /\ v.type = d.inodes[x].type
      /\ v.direct = d.inodes[x].direct /\ v.size = d.inodes[x].size
  <2> DEFINE w == d.inodes[x]
  <2>1. w \in Inode /\ w.ref \in Nat /\ w.ref >= 1
    BY <1>6
  <2> HIDE DEF w
  <2>2. LET z == [w EXCEPT !.ref = @ - 1] IN
        z \in Inode /\ z.ref = w.ref - 1 /\ z.type = w.type /\ z.direct = w.direct
        /\ z.size = w.size
    BY <2>1 DEF Inode
  <2> QED
    BY <2>2 DEF w
<1> HIDE DEF v
<1>8. Cardinality(NamesOf(d, I, x)) <= d.inodes[x].ref
      /\ Cardinality(NamesOf(d, I, x)) \in Nat /\ Cardinality(NamesOf(e, J, x)) \in Nat
  <2>1. Cardinality(NamesOf(d, I, x)) <= d.inodes[x].ref
    BY <1>2, <1>4 DEF Linked
  <2> QED
    BY <1>2, <1>5, <2>1, NamesFinite
<1>9. CASE v.ref > 0
  <2> DEFINE t == write_inode(gone, x, v)
             f == Last(t)
  <2>1. /\ Grown(gone, t) /\ Rest(e, f, {"inodes"}) /\ f.inodes[x] = v
        /\ \A j \in Inum \ {x} : f.inodes[j] = e.inodes[j]
    BY <1>2, <1>4, <1>7, WriteInode
  <2> HIDE DEF t, e
  <2>2. f \in Disk /\ f.imap = e.imap /\ f.bmap = e.bmap /\ f.blocks = e.blocks
    BY <2>1 DEF Rest
  <2> HIDE DEF f
  <2>3. \A i \in J : /\ f.inodes[i].type = e.inodes[i].type
                     /\ f.inodes[i].size = e.inodes[i].size
                     /\ f.inodes[i].direct = e.inodes[i].direct
                     /\ i # x => f.inodes[i].ref = e.inodes[i].ref
    BY <1>2, <1>4, <1>7, <2>1
  <2>4. \A i \in J : DirBlock(f, i) = DirBlock(e, i) /\ Dentries(f, i) = Dentries(e, i)
    BY <2>2, <2>3 DEF DirBlock, Dentries
  <2>5. Alike(e, f, J)
    <3>1. \A i \in J : IsFile(e, i) => f.inodes[i].ref >= 1
      <4>1. \A i \in J : IsFile(e, i) => e.inodes[i].ref >= 1
        BY <1>5 DEF Fine, Kinds, IsDir, IsFile
      <4> QED
        BY <1>6, <1>7, <1>9, <2>1, <2>3, <4>1
    <3> QED
      BY <2>3, <2>4, <3>1 DEF Alike
  <2>6. Fine(f, J)
    <3>1. Own(f, J) /\ Maps(f)
      <4>1. Own(e, J) /\ Maps(e)
        BY <1>5 DEF Fine
      <4>2. Own(f, J)
        BY <2>2, <2>3, <4>1 DEF Own
      <4> QED
        BY <2>2, <4>1, <4>2 DEF Maps
    <3> QED
      BY <1>5, <2>5, <3>1, StillFine
  <2>7. Handles(f, J)
    BY <1>4, <2>5, StillHandles DEF WholeBy
  <2>8. \A y : Cardinality(NamesOf(f, J, y)) <= Cardinality(NamesOf(e, J, y))
    <3>1. \A i \in J : \A j, y : Leads(f, i, j, y) => Leads(e, i, j, y)
      BY <2>3, <2>4 DEF Leads, IsDir
    <3>2. Dirs(e, J) /\ Dirs(f, J)
      BY <1>5, <2>6 DEF Fine
    <3> QED
      BY <1>5, <2>2, <3>1, <3>2, NamesLess
  <2>9. Linked(f, J)
    <3> SUFFICES ASSUME NEW y \in J, IsFile(f, y)
                 PROVE  Cardinality(NamesOf(f, J, y)) <= f.inodes[y].ref
      BY DEF Linked
    <3>1. Cardinality(NamesOf(f, J, y)) \in Nat /\ Cardinality(NamesOf(e, J, y)) \in Nat
      BY <1>5, <2>2, NamesFinite
    <3>2. f.inodes[y].ref \in Nat
      BY <1>5, <2>2 DEF Disk, Inode
    <3>3. CASE y = x
      <4>1. f.inodes[y].ref = d.inodes[x].ref - 1
        BY <1>7, <2>1, <3>3
      <4>2. Cardinality(NamesOf(e, J, y)) <= Cardinality(NamesOf(d, I, x)) - 1
        BY <1>4, <3>3
      <4>3. Cardinality(NamesOf(f, J, y)) <= Cardinality(NamesOf(e, J, y))
        BY <2>8
      <4> QED
        BY <1>6, <1>8, <3>1, <4>1, <4>2, <4>3
    <3>4. CASE y # x
      <4>1. Cardinality(NamesOf(e, J, y)) <= e.inodes[y].ref
        BY <1>5, <2>3 DEF Linked, IsFile
      <4>2. f.inodes[y].ref = e.inodes[y].ref
        BY <2>3, <3>4
      <4> QED
        BY <2>8, <3>1, <3>2, <4>1, <4>2
    <3> QED
      BY <3>3, <3>4
  <2>10. WholeBy(f, J)
    BY <2>2, <2>6, <2>7, <2>9 DEF WholeBy
  <2>11. AllWhole(t)
    BY <1>4, <2>1, <2>10, GrownWhole DEF Whole, f
  <2>12. Runs(d, t)
    <3>1. Move(e, f)
      BY <1>5, <2>1, <2>2, <2>3, <2>5, <2>6, QuietMove
    <3> QED
      BY <1>4, <2>1, <3>1, GrownRuns DEF f, e
  <2> QED
    BY <1>1, <1>9, <2>11, <2>12 DEF t
<1>10. CASE ~ v.ref > 0
  <2>1. x \notin J
    <3>1. Cardinality(NamesOf(e, J, x)) = 0
      <4>1. v.ref = d.inodes[x].ref - 1 /\ ~ v.ref > 0
        BY <1>7, <1>10
      <4>2. Cardinality(NamesOf(e, J, x)) <= Cardinality(NamesOf(d, I, x)) - 1
        BY <1>4
      <4> QED
        BY <1>6, <1>8, <4>1, <4>2
    <3>2. IsFiniteSet(NamesOf(e, J, x))
      BY <1>5, NamesFinite
    <3>3. NamesOf(e, J, x) = {}
      BY <3>1, <3>2, FS_EmptySet
    <3> QED
      BY <1>4, <3>3
  <2> DEFINE t == free_blocks(free_inode(gone, x), v)
  <2>2. AllWhole(t) /\ Runs(d, t)
    <3> HIDE DEF t
    <3>1. t = free_blocks(free_inode(gone, x), v)
      BY DEF t
    <3>2. WholeBy(Last(gone), J) /\ Last(gone).inodes = d.inodes
      BY <1>4
    <3> QED
      BY <1>4, <1>7, <2>1, <3>1, <3>2, FreeAll
  <2> QED
    BY <1>1, <1>10, <2>2
<1> QED
  BY <1>9, <1>10

LEMMA RmdirWhole ==
  ASSUME NEW d, NEW I, WholeBy(d, I), NEW p \in I, IsDir(d, p), NEW n, n \notin {".", ".."},
         NEW x, x = parse_path(d, p, n), x # 0, ~ IsFile(d, x),
         \A j \in DOMAIN Dentries(d, x) :
           Dentries(d, x)[j].valid => Dentries(d, x)[j].name \in {".", ".."},
         \A q \in Proc : cwd[q] # x
  PROVE  AllWhole(rmdir(<<d>>, p, n)) /\ Runs(d, rmdir(<<d>>, p, n))
<1> DEFINE v == d.inodes[x]
           gone == remove_dentry(<<d>>, p, n)
           e == Last(gone)
           j0 == FirstHit(d, p, n)
           J == LeftOf(d, I, p, j0, x)
           t == free_blocks(free_inode(gone, x), v)
<1>1. rmdir(<<d>>, p, n) = t
  <2>1. Last(<<d>>) = d
    BY OneWhole
  <2> QED
    BY <2>1 DEF rmdir
<1>2. d \in Disk /\ Fine(d, I) /\ Handles(d, I)
  BY DEF WholeBy
<1>3. x \in I /\ IsDir(d, x)
  <2>1. x \in I
    BY <1>2, Found
  <2> QED
    BY <1>2, <2>1 DEF Fine, Kinds
<1>4. \A fd \in Fd : fdesc[fd].inum # x
  <2> SUFFICES ASSUME NEW fd \in Fd, fdesc[fd].inum = x PROVE FALSE
    OBVIOUS
  <2> QED
    BY <1>2 DEF Handles
<1>5. Removable(d, x)
  <2> SUFFICES ASSUME NEW j, NEW y, Leads(d, x, j, y) PROVE FALSE
    BY DEF Removable
  <2>1. DOMAIN Dentries(d, x) = 1 .. Len(Dentries(d, x)) /\ Len(Dentries(d, x)) \in Nat
    BY <1>2, <1>3, EntriesOf DEF Fine
  <2>2. j \in DOMAIN Dentries(d, x) /\ Dentries(d, x)[j].valid
    BY <2>1 DEF Leads
  <2>3. Dentries(d, x)[j].name \notin {".", ".."}
    BY <1>2, <1>3 DEF Fine, Dirs, Leads
  <2> QED
    BY <2>2, <2>3
<1>6. /\ AllWhole(gone) /\ WholeBy(e, J) /\ Runs(d, gone)
      /\ J \subseteq I /\ x \notin J /\ e.inodes = d.inodes
  <2> HIDE DEF gone, J, j0
  <2>2. gone = remove_dentry(<<d>>, p, n) /\ j0 = FirstHit(d, p, n) /\ J = LeftOf(d, I, p, j0, x)
    BY DEF gone, J, j0
  <2> QED
    BY <1>3, <1>4, <1>5, <2>2, RemoveWhole
<1> HIDE DEF gone, j0, J, v
<1>7. AllWhole(t) /\ Runs(d, t)
  <2> HIDE DEF t
  <2>1. t = free_blocks(free_inode(gone, x), v)
    BY DEF t
  <2>2. WholeBy(Last(gone), J) /\ Last(gone).inodes = d.inodes /\ v.direct = d.inodes[x].direct
    BY <1>6 DEF v
  <2> QED
    BY <1>3, <1>6, <2>1, <2>2, FreeAll
<1> QED
  BY <1>1, <1>7

-----------------------------------------------------------------------------
(* ln *)

\* What holds of a disk also between the two writes of ln.
SoundBy(d, I) == d \in Disk /\ Fine(d, I) /\ Handles(d, I)
Sound(d) == \E I : SoundBy(d, I)
AllSound(s) == s \in Seq(Disk) /\ s # <<>> /\ \A k \in 1 .. Len(s) : Sound(s[k])

LEMMA WholeSound ==
  /\ \A d : Whole(d) => Sound(d)
  /\ \A s : AllWhole(s) => AllSound(s) /\ Whole(Last(s))
<1>1. \A d : Whole(d) => Sound(d)
  BY DEF Whole, WholeBy, Sound, SoundBy
<1>2. ASSUME NEW s, AllWhole(s)
      PROVE  AllSound(s) /\ Whole(Last(s))
  <2>1. s \in Seq(Disk) /\ s # <<>> /\ \A k \in 1 .. Len(s) : Whole(s[k])
    BY <1>2 DEF AllWhole
  <2>2. Len(s) \in 1 .. Len(s) /\ Last(s) = s[Len(s)]
    BY <2>1, LastIn
  <2> QED
    BY <1>1, <2>1, <2>2 DEF AllSound
<1> QED
  BY <1>1, <1>2

LEMMA GrownSound ==
  ASSUME NEW s, NEW t, AllSound(s), Grown(s, t), Sound(Last(t))
  PROVE  AllSound(t) /\ t \in Seq(Disk) /\ t # <<>>
<1>1. Len(s) \in Nat /\ Len(t) = Len(s) + 1 /\ t \in Seq(Disk) /\ t # <<>> /\ t[Len(t)] = Last(t)
      /\ \A k \in 1 .. Len(s) : t[k] = s[k] /\ Sound(s[k])
  BY DEF Grown, AllSound
<1>2. \A k \in 1 .. (Len(s) + 1) : k \in 1 .. Len(s) \/ k = Len(s) + 1
  BY <1>1
<1> QED
  BY <1>1, <1>2 DEF AllSound

\* The blocks of v are those of inode i, or marked and not in use.
Keeps(d, I, i, v) ==
  \A k \in Direct :
    \/ v.direct[k] = d.inodes[i].direct[k]
    \/ /\ v.direct[k] \in Blk /\ Usable(v.direct[k]) /\ v.direct[k] - 1 \in d.bmap
       /\ \A j \in I, l \in Direct : d.inodes[j].direct[l] # v.direct[k]
       /\ \A l \in Direct \ {k} : v.direct[l] # v.direct[k]

\* The inode of a file in use is written, with the same references or more,
\* and with blocks that are its own.
LEMMA WriteFile ==
  ASSUME NEW s \in Seq(Disk), s # <<>>, NEW I, SoundBy(Last(s), I),
         NEW i \in I, IsFile(Last(s), i),
         NEW v \in Inode, v.type = "FILE", v.ref >= Last(s).inodes[i].ref,
         Keeps(Last(s), I, i, v),
         NEW t, t = write_inode(s, i, v)
  PROVE  /\ Grown(s, t) /\ Rest(Last(s), Last(t), {"inodes"}) /\ SoundBy(Last(t), I)
         /\ Alike(Last(s), Last(t), I)
         /\ Last(t).inodes[i] = v
         /\ \A j \in Inum \ {i} : Last(t).inodes[j] = Last(s).inodes[j]
<1> DEFINE d == Last(s)
           e == Last(t)
<1>1. d \in Disk /\ Fine(d, I) /\ Handles(d, I) /\ I \subseteq Inum /\ Own(d, I) /\ Maps(d)
  BY FineOf DEF SoundBy, Fine
<1>2. /\ Grown(s, t) /\ Rest(d, e, {"inodes"}) /\ e.inodes[i] = v
      /\ \A j \in Inum \ {i} : e.inodes[j] = d.inodes[j]
  BY <1>1, WriteInode
<1>3. /\ IsFile(d, i) /\ v.ref >= d.inodes[i].ref
      /\ \A k \in Direct :
           \/ v.direct[k] = d.inodes[i].direct[k]
           \/ /\ v.direct[k] \in Blk /\ Usable(v.direct[k]) /\ v.direct[k] - 1 \in d.bmap
              /\ \A j \in I, l \in Direct : d.inodes[j].direct[l] # v.direct[k]
              /\ \A l \in Direct \ {k} : v.direct[l] # v.direct[k]
  BY DEF Keeps
<1> HIDE DEF d, e
<1>4. e \in Disk /\ e.imap = d.imap /\ e.bmap = d.bmap /\ e.blocks = d.blocks
  BY <1>2 DEF Rest
<1>5. \A j \in I \ {i} : e.inodes[j] = d.inodes[j]
  BY <1>1, <1>2
<1>6. Alike(d, e, I)
  <2>1. \A j \in I : IsFile(d, j) => d.inodes[j].ref >= 1 /\ d.inodes[j].ref \in Nat
    BY <1>1 DEF Fine, Kinds, IsDir, IsFile, Disk, Inode
  <2>2. v.ref \in Nat
    BY DEF Inode
  <2>3. \A j \in I \ {i} : DirBlock(e, j) = DirBlock(d, j) /\ Dentries(e, j) = Dentries(d, j)
    BY <1>4, <1>5 DEF DirBlock, Dentries
  <2>4. ~ IsDir(d, i) /\ d.inodes[i].type = "FILE"
    BY <1>3 DEF IsDir, IsFile
  <2>5. e.inodes[i].ref >= 1
    BY <1>2, <1>3, <2>1, <2>2
  <2> QED
    BY <1>2, <1>5, <2>1, <2>3, <2>4, <2>5 DEF Alike
<1>7. Own(e, I)
  <2> SUFFICES ASSUME NEW j \in I
               PROVE  /\ Usable(j) /\ j - 1 \in e.imap
                      /\ \A k \in Direct : e.inodes[j].direct[k] # 0 =>
                           /\ e.inodes[j].direct[k] \in Blk /\ Usable(e.inodes[j].direct[k])
                           /\ e.inodes[j].direct[k] - 1 \in e.bmap
                           /\ \A m \in I, l \in Direct :
                                e.inodes[j].direct[k] = e.inodes[m].direct[l] => j = m /\ k = l
    BY DEF Own
  <2>1. Usable(j) /\ j - 1 \in e.imap
    BY <1>1, <1>4 DEF Own
  <2>2. ASSUME NEW k \in Direct, e.inodes[j].direct[k] # 0
        PROVE  /\ e.inodes[j].direct[k] \in Blk /\ Usable(e.inodes[j].direct[k])
               /\ e.inodes[j].direct[k] - 1 \in e.bmap
    <3>1. CASE j = i
      BY <1>1, <1>2, <1>3, <1>4, <2>2, <3>1 DEF Own
    <3>2. CASE j # i
      BY <1>1, <1>4, <1>5, <2>2, <3>2 DEF Own
    <3> QED
      BY <3>1, <3>2
  <2>3. ASSUME NEW k \in Direct, e.inodes[j].direct[k] # 0, NEW m \in I, NEW l \in Direct,
               e.inodes[j].direct[k] = e.inodes[m].direct[l]
        PROVE  j = m /\ k = l
    <3>1. CASE j = i /\ m = i
      <4>1. v.direct[k] = v.direct[l] /\ v.direct[k] # 0
        BY <1>2, <2>3, <3>1
      <4>2. CASE v.direct[k] = d.inodes[i].direct[k] /\ v.direct[l] = d.inodes[i].direct[l]
        <5>1. \A g, h \in Direct : d.inodes[i].direct[g] # 0
                /\ d.inodes[i].direct[g] = d.inodes[i].direct[h] => g = h
          BY <1>1 DEF Own
        <5> QED
          BY <3>1, <4>1, <4>2, <5>1
      <4>3. CASE ~ (v.direct[k] = d.inodes[i].direct[k] /\ v.direct[l] = d.inodes[i].direct[l])
        BY <1>3, <3>1, <4>1, <4>3
      <4> QED
        BY <4>2, <4>3
    <3>2. CASE j = i /\ m # i
      BY <1>1, <1>2, <1>3, <1>5, <2>3, <3>2 DEF Own
    <3>3. CASE j # i /\ m = i
      BY <1>1, <1>2, <1>3, <1>5, <2>3, <3>3 DEF Own
    <3>4. CASE j # i /\ m # i
      BY <1>1, <1>5, <2>3, <3>4 DEF Own
    <3> QED
      BY <3>1, <3>2, <3>3, <3>4
  <2> QED
    BY <2>1, <2>2, <2>3
<1>8. Fine(e, I)
  <2>1. Maps(e)
    BY <1>1, <1>4 DEF Maps
  <2> QED
    BY <1>1, <1>6, <1>7, <2>1, StillFine
<1>9. SoundBy(e, I)
  BY <1>1, <1>4, <1>6, <1>8, StillHandles DEF SoundBy
<1> QED
  BY <1>2, <1>6, <1>9 DEF d, e

LEMMA LnSound ==
  ASSUME NEW d, NEW I, WholeBy(d, I), NEW p \in I, IsDir(d, p), NEW src, NEW dst \in Path,
         Fits(d, p, dst), parse_path(d, p, src) # 0, IsFile(d, parse_path(d, p, src))
  PROVE  AllSound(ln(<<d>>, p, src, dst)) /\ Whole(Last(ln(<<d>>, p, src, dst)))
         /\ Runs(d, ln(<<d>>, p, src, dst))
<1> DEFINE s == <<d>>
           x == parse_path(d, p, src)
           v == [d.inodes[x] EXCEPT !.ref = @ + 1]
           u == append_dentry(s, p, dst, x)
           t == write_inode(u, x, v)
           e == Last(u)
           f == Last(t)
           l == Len(Dentries(d, p)) + 1
<1>1. s \in Seq(Disk) /\ s # <<>> /\ Last(s) = d /\ AllSound(s)
  BY OneWhole, WholeSound
<1>2. ln(s, p, src, dst) = t
  BY <1>1 DEF ln
<1>3. d \in Disk /\ Fine(d, I) /\ Linked(d, I) /\ Handles(d, I) /\ I \in SUBSET Inum
  BY FineOf DEF WholeBy
<1>4. x \in I /\ IsFile(d, x)
  BY <1>3, Found
<1> HIDE DEF s, x
<1>5. d.inodes[x] \in Inode /\ d.inodes[x].ref >= 1
  BY <1>3, <1>4 DEF Disk, Fine, Kinds, IsDir, IsFile
<1>6. Grown(s, u) /\ Added(d, e, p, x, dst)
  <2>1. Dirs(d, I) /\ x \in Nat
    BY <1>3, <1>4 DEF Fine, Inum
  <2> QED
    BY <1>1, <2>1, AppendDentry
<1> HIDE DEF u
<1>7. u \in Seq(Disk) /\ u # <<>>
  BY <1>6 DEF Grown
<1> HIDE DEF e, l
<1>8. e \in Disk /\ e.inodes = d.inodes /\ e.imap = d.imap /\ e.bmap = d.bmap
  BY <1>6 DEF Added, Rest
<1>9. Nameable(d, I, p, x)
  <2>1. I \cup {x} = I /\ Own(d, I)
    BY <1>3, <1>4 DEF Fine
  <2> QED
    BY <1>3, <1>4, <1>5, <2>1 DEF Nameable
<1>10. /\ Fine(e, I)
       /\ \A i \in I : \A j, y :
            Leads(e, i, j, y) <=> Leads(d, i, j, y) \/ (i = p /\ j = l /\ y = x)
  <2>1. I \cup {x} = I
    BY <1>4
  <2>2. /\ Fine(e, I \cup {x})
        /\ \A i \in I \cup {x} : \A j, y :
             Leads(e, i, j, y) <=> Leads(d, i, j, y) \/ (i = p /\ j = Len(Dentries(d, p)) + 1 /\ y = x)
    BY <1>3, <1>6, <1>8, <1>9, AddFine
  <2> QED
    BY <2>1, <2>2 DEF l
<1>11. SoundBy(e, I)
  <2>1. \A i \in I : (IsDir(e, i) <=> IsDir(d, i)) /\ (IsFile(e, i) <=> IsFile(d, i))
    BY <1>8 DEF IsDir, IsFile
  <2> QED
    BY <1>3, <1>8, <1>10, <2>1, HandlesOn DEF SoundBy
<1>12. AllSound(u)
  BY <1>1, <1>6, <1>11, GrownSound DEF Sound, e
<1>12a. Runs(d, u)
  <2>1. Gains(d, e, I)
    BY <1>4, <1>6, <1>9 DEF Gains
  <2>2. e.magic = d.magic
    BY <1>6 DEF Added, Rest
  <2>3. Move(d, e)
    BY <1>3, <1>8, <2>1, <2>2 DEF Move
  <2>4. Runs(d, s)
    BY <1>3, OneRuns DEF s
  <2> QED
    BY <1>1, <1>6, <2>3, <2>4, GrownRuns DEF e
<1>13. v \in Inode /\ v.type = "FILE" /\ v.ref = e.inodes[x].ref + 1 /\ v.direct = e.inodes[x].direct
       /\ e.inodes[x].ref \in Nat /\ v.size = e.inodes[x].size
  <2> DEFINE w == d.inodes[x]
  <2>1. w \in Inode /\ w.type = "FILE"
    BY <1>4, <1>5 DEF IsFile
  <2> HIDE DEF w
  <2>2. LET z == [w EXCEPT !.ref = @ + 1] IN
        z \in Inode /\ z.ref = w.ref + 1 /\ z.type = w.type /\ z.direct = w.direct /\ w.ref \in Nat
        /\ z.size = w.size
    BY <2>1 DEF Inode
  <2> QED
    BY <1>8, <2>1, <2>2 DEF w
<1> HIDE DEF v
<1>14. /\ Grown(u, t) /\ Rest(e, f, {"inodes"}) /\ SoundBy(f, I)
       /\ Alike(e, f, I) /\ f.inodes[x] = v
       /\ \A j \in Inum \ {x} : f.inodes[j] = e.inodes[j]
  <2>1. IsFile(e, x) /\ v.ref >= e.inodes[x].ref
    BY <1>4, <1>8, <1>13 DEF IsFile
  <2> HIDE DEF t
  <2>2. t = write_inode(u, x, v)
    BY DEF t
  <2>3. /\ SoundBy(Last(u), I) /\ IsFile(Last(u), x) /\ v.ref >= Last(u).inodes[x].ref
        /\ Keeps(Last(u), I, x, v)
    BY <1>11, <1>13, <2>1 DEF e, Keeps
  <2>4. /\ Grown(u, t) /\ Rest(Last(u), Last(t), {"inodes"}) /\ SoundBy(Last(t), I)
        /\ Alike(Last(u), Last(t), I) /\ Last(t).inodes[x] = v
        /\ \A j \in Inum \ {x} : Last(t).inodes[j] = Last(u).inodes[j]
    BY <1>4, <1>7, <1>13, <2>2, <2>3, WriteFile
  <2> QED
    BY <2>4 DEF e
<1> HIDE DEF t
<1>15. AllSound(t)
  BY <1>12, <1>14, GrownSound DEF Sound
<1> HIDE DEF f
<1>15a. Runs(d, t)
  <2>1. \A i \in I : f.inodes[i].size = e.inodes[i].size /\ f.inodes[i].direct = e.inodes[i].direct
    BY <1>3, <1>13, <1>14
  <2>2. f.blocks = e.blocks /\ Fine(f, I)
    BY <1>14 DEF Rest, SoundBy
  <2>3. Move(e, f)
    BY <1>8, <1>10, <1>14, <2>1, <2>2, QuietMove
  <2> QED
    BY <1>12a, <1>14, <2>3, GrownRuns DEF e, f
<1>16. f \in Disk /\ f.blocks = e.blocks /\ Fine(f, I)
  BY <1>14 DEF Rest, SoundBy
<1>17. \A i \in I : /\ f.inodes[i].type = d.inodes[i].type
                    /\ i # x => f.inodes[i].ref = d.inodes[i].ref
                    /\ DirBlock(f, i) = DirBlock(e, i) /\ Dentries(f, i) = Dentries(e, i)
  <2>1. \A i \in I \ {x} : f.inodes[i] = d.inodes[i] /\ f.inodes[i] = e.inodes[i]
    BY <1>3, <1>8, <1>14
  <2>2. f.inodes[x].type = d.inodes[x].type /\ f.inodes[x].direct = e.inodes[x].direct
    BY <1>4, <1>13, <1>14 DEF IsFile
  <2> QED
    BY <1>16, <2>1, <2>2 DEF DirBlock, Dentries
<1>18. \A i \in I : \A j, y :
         Leads(f, i, j, y) => Leads(d, i, j, y) \/ (i = p /\ j = l /\ y = x)
  <2>1. \A i \in I : \A j, y : Leads(f, i, j, y) => Leads(e, i, j, y)
    BY <1>8, <1>17 DEF Leads, IsDir
  <2> QED
    BY <1>10, <2>1
<1>19. Linked(f, I)
  <2> SUFFICES ASSUME NEW y \in I, IsFile(f, y)
               PROVE  Cardinality(NamesOf(f, I, y)) <= f.inodes[y].ref
    BY DEF Linked
  <2>1. Cardinality(NamesOf(d, I, y)) <= d.inodes[y].ref
    BY <1>3, <1>17 DEF Linked, IsFile
  <2>2. /\ Cardinality(NamesOf(d, I, y)) \in Nat /\ Cardinality(NamesOf(f, I, y)) \in Nat
        /\ d.inodes[y].ref \in Nat
    BY <1>3, <1>16, NamesFinite DEF Disk, Inode
  <2>3. Dirs(d, I) /\ Dirs(f, I)
    BY <1>3, <1>16 DEF Fine
  <2>4. CASE y = x
    <3>1. Cardinality(NamesOf(f, I, x)) <= Cardinality(NamesOf(d, I, x)) + 1
      <4>1. \A i \in I : \A j : Leads(f, i, j, x) => (i \in I /\ Leads(d, i, j, x)) \/ (i = p /\ j = l)
        BY <1>18
      <4> QED
        BY <1>3, <1>16, <2>3, <4>1, NamesMore
    <3>2. f.inodes[x].ref = d.inodes[x].ref + 1
      BY <1>8, <1>13, <1>14
    <3> QED
      BY <2>1, <2>2, <2>4, <3>1, <3>2
  <2>5. CASE y # x
    <3>1. Cardinality(NamesOf(f, I, y)) <= Cardinality(NamesOf(d, I, y))
      <4>1. \A i \in I : \A j : Leads(f, i, j, y) => Leads(d, i, j, y)
        BY <1>18, <2>5
      <4> QED
        BY <1>3, <1>16, <2>3, <4>1, NamesLess
    <3>2. f.inodes[y].ref = d.inodes[y].ref
      BY <1>17, <2>5
    <3> QED
      BY <2>1, <2>2, <3>1, <3>2
  <2> QED
    BY <2>4, <2>5
<1>20. Whole(f)
  BY <1>14, <1>16, <1>19 DEF SoundBy, Whole, WholeBy
<1> QED
  BY <1>2, <1>15, <1>15a, <1>20 DEF s, f

-----------------------------------------------------------------------------
(* fwrite *)

\* The inode of a file is written again, without a change to its references.
LEMMA KeepFile ==
  ASSUME NEW s, AllWhole(s), NEW I, WholeBy(Last(s), I),
         NEW i \in I, IsFile(Last(s), i),
         NEW v \in Inode, v.type = "FILE", v.ref = Last(s).inodes[i].ref,
         Keeps(Last(s), I, i, v),
         NEW t, t = write_inode(s, i, v)
  PROVE  /\ AllWhole(t) /\ Grown(s, t) /\ Rest(Last(s), Last(t), {"inodes"}) /\ WholeBy(Last(t), I)
         /\ Alike(Last(s), Last(t), I)
         /\ Last(t).inodes[i] = v
         /\ \A j \in Inum \ {i} : Last(t).inodes[j] = Last(s).inodes[j]
<1> DEFINE d == Last(s)
           e == Last(t)
<1>1. s \in Seq(Disk) /\ s # <<>> /\ SoundBy(d, I) /\ I \subseteq Inum
  BY FineOf DEF AllWhole, WholeBy, SoundBy
<1>2. v.ref \in Nat /\ v.ref >= d.inodes[i].ref
  BY DEF Inode
<1>3. /\ Grown(s, t) /\ Rest(d, e, {"inodes"}) /\ SoundBy(e, I) /\ Alike(d, e, I)
      /\ e.inodes[i] = v
      /\ \A j \in Inum \ {i} : e.inodes[j] = d.inodes[j]
  BY <1>1, <1>2, WriteFile
<1>4. WholeBy(e, I)
  <2>1. v.ref = d.inodes[i].ref /\ WholeBy(d, I)
    OBVIOUS
  <2> HIDE DEF d, e
  <2>2. e \in Disk /\ Fine(e, I)
    BY <1>3 DEF SoundBy
  <2>3. \A j \in I : e.inodes[j].ref \in Nat
    BY <1>1, <2>2 DEF Disk, Inode
  <2>4. \A j \in I : IsFile(d, j) => e.inodes[j].ref >= d.inodes[j].ref
    <3>1. \A j \in I : e.inodes[j].ref = d.inodes[j].ref
      BY <1>1, <1>3, <2>1
    <3> QED
      BY <2>3, <3>1
  <2> QED
    BY <1>3, <2>1, <2>2, <2>4, StillWhole
<1>5. AllWhole(t)
  BY <1>3, <1>4, GrownWhole DEF Whole
<1> QED
  BY <1>3, <1>4, <1>5

\* A block that is not one of a directory in use is written.
LEMMA KeepBlock ==
  ASSUME NEW s, AllWhole(s), NEW I, WholeBy(Last(s), I),
         NEW b \in Blk, \A i \in I : IsDir(Last(s), i) => DirBlock(Last(s), i) # b,
         NEW c \in Content, NEW t, t = write_block(s, b, c)
  PROVE  /\ AllWhole(t) /\ Grown(s, t) /\ Rest(Last(s), Last(t), {"blocks"}) /\ WholeBy(Last(t), I)
         /\ Alike(Last(s), Last(t), I)
         /\ Last(t).blocks[b] = c
         /\ \A j \in Blk \ {b} : Last(t).blocks[j] = Last(s).blocks[j]
<1> DEFINE d == Last(s)
           e == Last(t)
<1>1. s \in Seq(Disk) /\ s # <<>> /\ Fine(d, I) /\ I \subseteq Inum
  BY FineOf DEF AllWhole, WholeBy
<1>2. /\ Grown(s, t) /\ Rest(d, e, {"blocks"}) /\ e.blocks[b] = c
      /\ \A j \in Blk \ {b} : e.blocks[j] = d.blocks[j]
      /\ Fine(e, I) /\ Alike(d, e, I)
  BY <1>1, WriteSpareBlock
<1>3. WholeBy(e, I)
  <2>1. WholeBy(d, I)
    OBVIOUS
  <2> HIDE DEF d, e
  <2>2. e \in Disk /\ e.inodes = d.inodes
    BY <1>2 DEF Rest
  <2>3. \A j \in I : e.inodes[j].ref \in Nat
    BY <1>1, <2>2 DEF Disk, Inode
  <2>4. \A j \in I : IsFile(d, j) => e.inodes[j].ref >= d.inodes[j].ref
    BY <2>2, <2>3
  <2> QED
    BY <1>2, <2>1, <2>2, <2>4, StillWhole
<1>4. AllWhole(t)
  BY <1>2, <1>3, GrownWhole DEF Whole
<1> QED
  BY <1>2, <1>3, <1>4

LEMMA BlkNat == Blk \subseteq Nat \ {0}
<1>1. META \in Nat /\ BWORDS * W \in Nat
  BY Products, FsAssumption
<1> QED
  BY <1>1 DEF Blk

Named(v, k, b) == [v EXCEPT !.direct[k] = b]

\* A piece of a write to a block that the file did not have.
LEMMA FwriteNew ==
  ASSUME NEW d, NEW I, WholeBy(d, I), NEW i \in I, IsFile(d, i),
         ~ 0 .. (BWORDS * W - 1) \subseteq d.bmap,
         NEW k \in Direct, NEW v \in Inode, v.type = "FILE", v.ref = d.inodes[i].ref,
         v.direct = d.inodes[i].direct, v.direct[k] = 0, v.size >= d.inodes[i].size, NEW c \in Content,
         NEW a, a = alloc_block(<<d>>), NEW w, w = Named(v, k, a.num),
         NEW t, t = write_block(write_inode(a.s, i, w), a.num, c)
  PROVE  /\ AllWhole(t) /\ Len(t) > 1 /\ a.num \in Blk /\ w \in Inode
         /\ Last(t).inodes[i] = w /\ Last(t).blocks[a.num] = c
         /\ Runs(d, t)
<1> DEFINE s == <<d>>
           u == write_inode(a.s, i, w)
           d1 == Last(a.s)
           d2 == Last(u)
<1>1. s \in Seq(Disk) /\ s # <<>> /\ Last(s) = d /\ AllWhole(s) /\ a = alloc_block(s)
  BY OneWhole
<1>2. d \in Disk /\ Fine(d, I) /\ I \subseteq Inum
  BY FineOf DEF WholeBy
<1> HIDE DEF s
<1>3. /\ Grown(s, a.s) /\ Rest(d, d1, {"bmap"})
      /\ Fine(d1, I) /\ Alike(d, d1, I)
      /\ a.num \in Blk /\ Usable(a.num) /\ a.num - 1 \in d1.bmap
      /\ \A j \in I, l \in Direct : d1.inodes[j].direct[l] # a.num
  <2>1. Fine(Last(s), I) /\ ~ 0 .. (BWORDS * W - 1) \subseteq Last(s).bmap
    BY <1>1, <1>2
  <2>2. /\ Grown(s, a.s) /\ Rest(Last(s), Last(a.s), {"bmap"})
        /\ Fine(Last(a.s), I) /\ Alike(Last(s), Last(a.s), I)
        /\ a.num \in Blk /\ Usable(a.num) /\ a.num - 1 \in Last(a.s).bmap
        /\ \A j \in I, l \in Direct : Last(a.s).inodes[j].direct[l] # a.num
    BY <1>1, <2>1, AllocBlock, ZenonT(40)
  <2> QED
    BY <1>1, <2>2
<1>4. d1 \in Disk /\ d1.inodes = d.inodes
  BY <1>3 DEF Rest
<1>5. WholeBy(d1, I)
  <2>1. \A j \in I : d1.inodes[j].ref \in Nat
    BY <1>2, <1>4 DEF Disk, Inode
  <2>2. \A j \in I : IsFile(d, j) => d1.inodes[j].ref >= d.inodes[j].ref
    BY <1>4, <2>1
  <2> HIDE DEF d1
  <2> QED
    BY <1>3, <1>4, <2>2, StillWhole
<1>6. AllWhole(a.s)
  BY <1>1, <1>3, <1>5, GrownWhole DEF Whole
<1>6a. Runs(d, a.s)
  <2>1. Runs(d, s)
    BY <1>2, OneRuns DEF s
  <2>2. d1.blocks = d.blocks
    BY <1>3 DEF Rest
  <2>3. Move(d, d1)
    <3> HIDE DEF d1
    <3> QED
      BY <1>2, <1>3, <1>4, <2>2, MapMove
  <2> QED
    BY <1>1, <1>3, <2>1, <2>3, GrownRuns
<1>7. /\ w \in Inode /\ w.type = "FILE" /\ w.ref = d1.inodes[i].ref
      /\ w.direct[k] = a.num /\ \A l \in Direct \ {k} : w.direct[l] = d1.inodes[i].direct[l]
      /\ w.size = v.size
  <2>1. a.num \in Nat
    BY <1>3, BlkNat
  <2> DEFINE g == [v.direct EXCEPT ![k] = a.num]
  <2>2. w = [v EXCEPT !.direct = g]
    BY DEF Named
  <2>3. v.direct \in [Direct -> Nat]
    BY DEF Inode
  <2>4. g \in [Direct -> Nat] /\ g[k] = a.num /\ \A l \in Direct \ {k} : g[l] = v.direct[l]
    BY <2>1, <2>3
  <2> HIDE DEF g
  <2>5. w \in Inode /\ w.type = v.type /\ w.ref = v.ref /\ w.direct = g /\ w.size = v.size
    BY <2>2, <2>4 DEF Inode
  <2> QED
    BY <1>4, <2>4, <2>5
<1> HIDE DEF d1
<1>8. IsFile(d1, i)
  BY <1>4 DEF IsFile
<1>9. /\ AllWhole(u) /\ Rest(d1, d2, {"inodes"}) /\ WholeBy(d2, I)
      /\ Grown(a.s, u) /\ Alike(d1, d2, I)
      /\ d2.inodes[i] = w
      /\ \A j \in Inum \ {i} : d2.inodes[j] = d1.inodes[j]
  <2>1. Keeps(d1, I, i, w)
    BY <1>3, <1>7 DEF Keeps
  <2> HIDE DEF u
  <2>2. u = write_inode(a.s, i, w)
    BY DEF u
  <2> DEFINE q == a.s
  <2>3. /\ AllWhole(q) /\ WholeBy(Last(q), I) /\ IsFile(Last(q), i) /\ u = write_inode(q, i, w)
        /\ w.ref = Last(q).inodes[i].ref
        /\ Keeps(Last(q), I, i, w)
    BY <1>5, <1>6, <1>7, <1>8, <2>1, <2>2 DEF d1
  <2> HIDE DEF q
  <2>4. /\ AllWhole(u) /\ Rest(Last(q), Last(u), {"inodes"}) /\ WholeBy(Last(u), I)
        /\ Grown(q, u) /\ Alike(Last(q), Last(u), I)
        /\ Last(u).inodes[i] = w
        /\ \A j \in Inum \ {i} : Last(u).inodes[j] = Last(q).inodes[j]
    BY <1>7, <2>3, KeepFile
  <2> QED
    BY <2>4 DEF d1, q
<1>9a. Runs(d, u)
  <2>1. Fine(d2, I)
    BY <1>9 DEF WholeBy
  <2> HIDE DEF d2
  <2>2. \A j \in I \ {i} : d2.inodes[j] = d1.inodes[j]
    BY <1>2, <1>9
  <2>3. d2.inodes[i].size >= d1.inodes[i].size /\ d2.inodes[i].direct[k] # 0
    BY <1>3, <1>4, <1>7, <1>9, BlkNat
  <2>4. \A l \in Direct \ {k} : d2.inodes[i].direct[l] = d1.inodes[i].direct[l]
    BY <1>7, <1>9
  <2>5. Move(d1, d2)
    BY <1>3, <1>4, <1>8, <1>9, <2>1, <2>2, <2>3, <2>4, PutInode
  <2> QED
    BY <1>6a, <1>9, <2>5, GrownRuns DEF d1, d2
<1> HIDE DEF u
<1>10. \A j \in I : IsDir(d2, j) => DirBlock(d2, j) # a.num
  <2>1. 1 \in Direct
    BY FsAssumption DEF Direct
  <2>2. ~ IsDir(d2, i)
    BY <1>7, <1>9 DEF IsDir
  <2> QED
    BY <1>2, <1>3, <1>9, <2>1, <2>2 DEF DirBlock
<1>11. /\ AllWhole(t) /\ Grown(u, t) /\ Rest(d2, Last(t), {"blocks"}) /\ Last(t).blocks[a.num] = c
       /\ WholeBy(Last(t), I) /\ Alike(d2, Last(t), I)
       /\ \A j \in Blk \ {a.num} : Last(t).blocks[j] = d2.blocks[j]
  <2>1. t = write_block(u, a.num, c)
    BY DEF u
  <2> QED
    BY <1>3, <1>9, <1>10, <2>1, KeepBlock
<1>12. Last(t).inodes[i] = w
  BY <1>9, <1>11 DEF Rest
<1>13. Len(t) > 1
  <2>1. u \in Seq(Disk) /\ u # <<>>
    BY <1>9 DEF AllWhole
  <2>2. Len(u) \in Nat \ {0}
    BY <2>1
  <2> QED
    BY <1>11, <2>2 DEF Grown
<1>14. Runs(d, t)
  <2> DEFINE e == Last(t)
  <2>1. /\ Rest(d2, e, {"blocks"}) /\ Alike(d2, e, I) /\ Fine(e, I) /\ d2 \in Disk /\ Fine(d2, I)
    BY <1>9, <1>11 DEF WholeBy
  <2>2. IsFile(d2, i) /\ d2.inodes[i].direct[k] = a.num /\ a.num # 0
    BY <1>3, <1>7, <1>9, BlkNat DEF IsFile
  <2>3. \A j \in Blk \ {d2.inodes[i].direct[k]} : e.blocks[j] = d2.blocks[j]
    BY <1>11, <2>2
  <2> HIDE DEF e, d2
  <2>4. Move(d2, e)
    BY <2>1, <2>2, <2>3, PutBlock
  <2> QED
    BY <1>9a, <1>11, <2>4, GrownRuns DEF d2, e
<1> QED
  BY <1>3, <1>7, <1>11, <1>12, <1>13, <1>14

\* Direct block k of inode i is b.
Points(d, i, k, b) == b = d.inodes[i].direct[k] /\ b # 0

\* A piece of a write to a block of the file.
LEMMA FwriteOver ==
  ASSUME NEW d, NEW I, WholeBy(d, I), NEW i \in I, IsFile(d, i),
         NEW k \in Direct, NEW b, Points(d, i, k, b), NEW c \in Content,
         NEW t, t = write_block(<<d>>, b, c)
  PROVE  /\ AllWhole(t) /\ Len(t) > 1 /\ b \in Blk
         /\ Last(t).inodes = d.inodes /\ Last(t).blocks[b] = c
         /\ Runs(d, t)
<1> DEFINE s == <<d>>
<1>1. s \in Seq(Disk) /\ s # <<>> /\ Last(s) = d /\ AllWhole(s) /\ t = write_block(s, b, c)
  BY OneWhole
<1>2. Fine(d, I) /\ Own(d, I) /\ b = d.inodes[i].direct[k] /\ b # 0
  BY DEF WholeBy, Fine, Points
<1> HIDE DEF s
<1>3. b \in Blk
  BY <1>2 DEF Own
<1>4. \A j \in I : IsDir(d, j) => DirBlock(d, j) # b
  <2> SUFFICES ASSUME NEW j \in I, IsDir(d, j), DirBlock(d, j) = b PROVE FALSE
    OBVIOUS
  <2>1. 1 \in Direct
    BY FsAssumption DEF Direct
  <2>2. i = j
    BY <1>2, <2>1 DEF Own, DirBlock
  <2> QED
    BY <2>2 DEF IsDir, IsFile
<1>5. AllWhole(t) /\ Grown(s, t) /\ Rest(d, Last(t), {"blocks"}) /\ Last(t).blocks[b] = c
      /\ WholeBy(Last(t), I) /\ Alike(d, Last(t), I)
      /\ \A j \in Blk \ {b} : Last(t).blocks[j] = d.blocks[j]
  <2>1. WholeBy(Last(s), I) /\ \A j \in I : IsDir(Last(s), j) => DirBlock(Last(s), j) # b
    BY <1>1, <1>4
  <2>2. AllWhole(s) /\ t = write_block(s, b, c)
    BY <1>1
  <2>3. AllWhole(t) /\ Grown(s, t) /\ Rest(Last(s), Last(t), {"blocks"}) /\ Last(t).blocks[b] = c
    BY <1>3, <2>1, <2>2, KeepBlock
  <2>4. WholeBy(Last(t), I) /\ Alike(Last(s), Last(t), I)
    BY <1>3, <2>1, <2>2, KeepBlock
  <2>5. \A j \in Blk \ {b} : Last(t).blocks[j] = Last(s).blocks[j]
    BY <1>3, <2>1, <2>2, KeepBlock
  <2> QED
    BY <1>1, <2>3, <2>4, <2>5
<1>6. Len(s) \in Nat \ {0}
  BY <1>1
<1>7. Len(t) > 1
  BY <1>5, <1>6 DEF Grown
<1>8. Runs(d, t)
  <2> DEFINE e == Last(t)
  <2>1. /\ Rest(d, e, {"blocks"}) /\ Alike(d, e, I) /\ Fine(e, I) /\ d \in Disk /\ Fine(d, I)
    BY <1>2, <1>5 DEF WholeBy
  <2>2. \A j \in Blk \ {d.inodes[i].direct[k]} : e.blocks[j] = d.blocks[j]
    BY <1>2, <1>5
  <2> HIDE DEF e
  <2>3. Move(d, e)
    BY <1>2, <2>1, <2>2, PutBlock
  <2>4. Runs(d, s)
    BY <2>1, OneRuns DEF s
  <2> QED
    BY <1>1, <1>5, <2>3, <2>4, GrownRuns DEF e
<1> QED
  BY <1>3, <1>5, <1>7, <1>8 DEF Rest

-----------------------------------------------------------------------------
(* mkfs *)

\* The numbers below one of a lower half make a map of halves.
LEMMA HalvesBelow ==
  ASSUME NEW n \in Nat, Place(n) < H
  PROVE  Halves(0 .. (n - 1))
<1>1. H \in Nat /\ H > 1 /\ W = 2 * H
  BY Places
<1>2. Word(n) \in Nat /\ Place(n) \in 0 .. (W - 1) /\ n = At(Word(n), Place(n))
  BY Places
<1>3. ASSUME NEW b \in Nat, Place(b) >= H - 1
      PROVE  b < n <=> Word(b) < Word(n)
  <2>1. Word(b) \in Nat /\ Place(b) \in 0 .. (W - 1) /\ b = At(Word(b), Place(b))
    BY Places
  <2>2. CASE Word(b) < Word(n)
    <3> DEFINE z == Word(n) * W
    <3>1. z \in Nat /\ \A c \in Nat : Word(c) < Word(n) <=> c < z
      BY <1>2, WordBelow
    <3> HIDE DEF z
    <3>2. b < z /\ ~ n < z
      BY <1>2, <2>1, <2>2, <3>1
    <3> QED
      BY <2>2, <3>1, <3>2
  <2>3. CASE Word(n) < Word(b)
    <3> DEFINE z == Word(b) * W
    <3>1. z \in Nat /\ \A c \in Nat : Word(c) < Word(b) <=> c < z
      BY <2>1, WordBelow
    <3> HIDE DEF z
    <3>2. n < z /\ ~ b < z
      BY <1>2, <2>1, <2>3, <3>1
    <3> QED
      BY <1>2, <2>1, <2>3, <3>1, <3>2
  <2>4. CASE Word(n) = Word(b)
    <3>1. At(Word(n), Place(b)) = At(Word(n), Place(n)) + (Place(b) - Place(n))
      BY <1>2, <2>1, Places
    <3>2. b = n + (Place(b) - Place(n))
      BY <1>2, <2>1, <2>4, <3>1
    <3>3. Place(b) >= Place(n)
      BY <1>1, <1>2, <1>3, <2>1
    <3>4. ~ b < n
      BY <1>2, <2>1, <3>2, <3>3
    <3> QED
      BY <1>2, <2>4, <3>4
  <2> QED
    BY <1>2, <2>1, <2>2, <2>3, <2>4
<1>4. \A b \in Nat : b \in 0 .. (n - 1) <=> b < n
  OBVIOUS
<1> QED
  BY <1>3, <1>4 DEF Halves

LEMMA PlaceBefore ==
  ASSUME NEW m \in Nat \ {0}, Usable(m)
  PROVE  m - 1 \in Nat /\ Place(m - 1) < H /\ Place(m - 1) = Place(m) - 1
<1>1. H \in Nat /\ H > 1 /\ W = 2 * H
  BY Places
<1>2. Word(m) \in Nat /\ m = At(Word(m), Place(m)) /\ Place(m) \in 1 .. H
  BY Places DEF Usable
<1>3. PICK l \in 0 .. (W - 1) : l = Place(m) - 1
  BY <1>1, <1>2
<1>4. Place(m) \in 0 .. (W - 1)
  BY <1>1, <1>2
<1>5. At(Word(m), l) = At(Word(m), Place(m)) + (l - Place(m))
  BY <1>2, <1>4, Places
<1>6. m - 1 = At(Word(m), l)
  BY <1>2, <1>3, <1>5
<1>7. Place(m - 1) = l
  BY <1>2, <1>6, Places
<1> QED
  BY <1>1, <1>2, <1>3, <1>7

\* Inodes and blocks are taken in order.
LEMMA TakeInode ==
  ASSUME NEW s \in Seq(Disk), s # <<>>, Halves(Last(s).imap),
         ~ 0 .. (IWORDS * W - 1) \subseteq Last(s).imap,
         NEW a, a = alloc_inode(s)
  PROVE  /\ Grown(s, a.s) /\ Rest(Last(s), Last(a.s), {"imap"}) /\ Halves(Last(a.s).imap)
         /\ Last(s).imap \subseteq Last(a.s).imap
         /\ \E b \in 0 .. (IWORDS * W - 1) :
              /\ a.num = b + 1 /\ b \notin Last(s).imap /\ 0 .. (b - 1) \subseteq Last(s).imap
              /\ Last(a.s).imap = Taken(Last(s).imap, b) /\ b \in Last(a.s).imap
<1> DEFINE d == Last(s)
           b == FirstOf(d.imap, IWORDS)
           m == Taken(d.imap, b)
           t == Write(s, "imap", m)
<1>1. a.s = t /\ a.num = b + 1
  BY DEF alloc_inode, FirstOf, Taken
<1>2. d \in Disk
  BY LastIn
<1>3. IWORDS \in Nat /\ d.imap \subseteq AllBits(IWORDS) /\ ~ AllBits(IWORDS) \subseteq d.imap
  BY <1>2, FsAssumption DEF Disk, AllBits
<1>4. Halves(d.imap)
  OBVIOUS
<1> HIDE DEF d
<1>5. /\ b \in AllBits(IWORDS) /\ b \notin d.imap /\ 0 .. (b - 1) \subseteq d.imap
      /\ b \in m /\ d.imap \subseteq m
      /\ m \subseteq AllBits(IWORDS) /\ Halves(m)
  BY <1>3, <1>4, TakeBit
<1> HIDE DEF m, b
<1>6. Grown(s, t) /\ Rest(d, Last(t), {"imap"}) /\ Last(t).imap = m
  BY <1>5, WriteImap DEF d, AllBits
<1> HIDE DEF t
<1> QED
  BY <1>1, <1>5, <1>6 DEF d, m, AllBits

LEMMA TakeBlock ==
  ASSUME NEW s \in Seq(Disk), s # <<>>, Halves(Last(s).bmap),
         ~ 0 .. (BWORDS * W - 1) \subseteq Last(s).bmap,
         NEW a, a = alloc_block(s)
  PROVE  /\ Grown(s, a.s) /\ Rest(Last(s), Last(a.s), {"bmap"})
         /\ \E b \in 0 .. (BWORDS * W - 1) :
              a.num = b + 1 /\ b \notin Last(s).bmap /\ 0 .. (b - 1) \subseteq Last(s).bmap
<1> DEFINE d == Last(s)
           b == FirstOf(d.bmap, BWORDS)
           m == Taken(d.bmap, b)
           t == Write(s, "bmap", m)
<1>1. a.s = t /\ a.num = b + 1
  BY DEF alloc_block, FirstOf, Taken
<1>2. d \in Disk
  BY LastIn
<1>3. BWORDS \in Nat /\ d.bmap \subseteq AllBits(BWORDS) /\ ~ AllBits(BWORDS) \subseteq d.bmap
  BY <1>2, FsAssumption DEF Disk, AllBits
<1>4. Halves(d.bmap)
  OBVIOUS
<1> HIDE DEF d
<1>5. /\ b \in AllBits(BWORDS) /\ b \notin d.bmap /\ 0 .. (b - 1) \subseteq d.bmap
      /\ m \subseteq AllBits(BWORDS)
  BY <1>3, <1>4, TakeBit
<1> HIDE DEF m, b
<1>6. Grown(s, t) /\ Rest(d, Last(t), {"bmap"})
  BY <1>5, WriteBmap DEF d, AllBits
<1> HIDE DEF t
<1> QED
  BY <1>1, <1>5, <1>6 DEF d, AllBits

\* What mkfs makes: the root directory, and in it the name of the test file.
RootEntries ==
  <<[valid |-> TRUE, inum |-> ROOT_DIR_INUM, name |-> "."],
    [valid |-> TRUE, inum |-> ROOT_DIR_INUM, name |-> ".."]>>

FreshEntries ==
  Append(RootEntries, [valid |-> TRUE, inum |-> TEST_BIG_FILE_INUM, name |-> BigName])

Fresh(e) ==
  /\ e \in Disk /\ e.magic
  /\ Halves(e.imap) /\ 0 \in e.imap /\ 1 \in e.imap
  /\ e.bmap = 0 .. (META + BIGDATA)
  /\ IsDir(e, ROOT_DIR_INUM) /\ DirBlock(e, ROOT_DIR_INUM) = META + 1
  /\ \A k \in Direct \ {1} : e.inodes[ROOT_DIR_INUM].direct[k] = 0
  /\ IsFile(e, TEST_BIG_FILE_INUM) /\ e.inodes[TEST_BIG_FILE_INUM].ref = 1
  /\ \A k \in Direct : e.inodes[TEST_BIG_FILE_INUM].direct[k] = META + 1 + k
  /\ Dentries(e, ROOT_DIR_INUM) = FreshEntries

LEMMA Entries3 ==
  /\ Len(FreshEntries) = 3 /\ DOMAIN FreshEntries = 1 .. 3
  /\ FreshEntries[1] = [valid |-> TRUE, inum |-> ROOT_DIR_INUM, name |-> "."]
  /\ FreshEntries[2] = [valid |-> TRUE, inum |-> ROOT_DIR_INUM, name |-> ".."]
  /\ FreshEntries[3] = [valid |-> TRUE, inum |-> TEST_BIG_FILE_INUM, name |-> BigName]
<1> DEFINE a == [valid |-> TRUE, inum |-> ROOT_DIR_INUM, name |-> "."]
           b == [valid |-> TRUE, inum |-> ROOT_DIR_INUM, name |-> ".."]
           c == [valid |-> TRUE, inum |-> TEST_BIG_FILE_INUM, name |-> BigName]
<1>1. FreshEntries = Append(<<a, b>>, c)
  BY DEF FreshEntries, RootEntries
<1> HIDE DEF a, b, c
<1>2. <<a, b>> \in Seq({a, b}) /\ Len(<<a, b>>) = 2 /\ <<a, b>>[1] = a /\ <<a, b>>[2] = b
  OBVIOUS
<1>3. Len(FreshEntries) = 3 /\ FreshEntries[1] = a /\ FreshEntries[2] = b /\ FreshEntries[3] = c
  BY <1>1, <1>2
<1>4. DOMAIN FreshEntries = 1 .. 3
  BY <1>1, <1>2
<1> QED
  BY <1>3, <1>4 DEF a, b, c

\* The layout of mkfs in numbers: 1 and 2 are inodes, the blocks are blocks.
LEMMA Layout ==
  /\ ROOT_DIR_INUM \in Inum /\ TEST_BIG_FILE_INUM \in Inum
  /\ Usable(ROOT_DIR_INUM) /\ Usable(TEST_BIG_FILE_INUM)
  /\ 1 \in Direct /\ META \in Nat \ {0} /\ BIGDATA \in Nat
  /\ META + 1 \in Blk /\ Usable(META + 1)
  /\ \A k \in Direct : META + 1 + k \in Blk /\ Usable(META + 1 + k) /\ META + k \in 0 .. (META + BIGDATA)
  /\ 0 .. (META + BIGDATA) \subseteq 0 .. (BWORDS * W - 1)
  /\ Halves(0 .. (META + BIGDATA)) /\ Halves(0 .. (META - 1))
<1>1. H \in Nat /\ H > 1 /\ W = 2 * H /\ W \in Nat /\ W >= 4
  BY Places
<1>2. IWORDS * W \in Nat /\ IWORDS * W >= W
  <2>1. IWORDS \in Nat /\ 0 < IWORDS /\ 0 * W = 0
    BY <1>1, FsAssumption
  <2>2. IWORDS * W >= 0 * W + W
    BY <1>1, <2>1, Products
  <2>3. IWORDS * W \in Nat
    BY <1>1, <2>1, Products
  <2> QED
    BY <1>1, <2>1, <2>2, <2>3
<1>3. ROOT_DIR_INUM \in Inum /\ TEST_BIG_FILE_INUM \in Inum
  BY <1>1, <1>2 DEF Inum, ROOT_DIR_INUM, TEST_BIG_FILE_INUM
<1>4. ASSUME NEW i \in 0 .. (W - 1)
      PROVE  Place(i) = i
  <2>1. 0 * W + i = i
    BY <1>1
  <2> QED
    BY <2>1, WordOf DEF Place
<1>5. Usable(ROOT_DIR_INUM) /\ Usable(TEST_BIG_FILE_INUM)
  <2>1. 1 \in 0 .. (W - 1) /\ 2 \in 0 .. (W - 1) /\ 1 \in 1 .. H /\ 2 \in 1 .. H
    BY <1>1
  <2> QED
    BY <1>4, <2>1 DEF Usable, ROOT_DIR_INUM, TEST_BIG_FILE_INUM
<1>6. /\ META \in Nat \ {0} /\ BIGDATA \in Nat /\ NDIRECT_BLOCKS \in Nat \ {0}
      /\ BIGDATA >= NDIRECT_BLOCKS /\ BWORDS \in Nat
  <2>1. /\ META \in Nat \ {0} /\ BIGDATA \in Nat /\ NDIRECT_BLOCKS \in Nat \ {0}
        /\ NINDIRECT_BLOCKS \in Nat /\ BWORDS \in Nat
        /\ BIGDATA - NDIRECT_BLOCKS - NINDIRECT_BLOCKS \in 0 .. NINDIRECT_BLOCKS
    BY FsAssumption
  <2> QED
    BY <2>1
<1>7. 1 \in Direct
  BY <1>6 DEF Direct
<1> DEFINE z == BWORDS * W
<1>8. z \in Nat /\ META + BIGDATA + 4 <= z
  BY <1>1, <1>6, FsAssumption, Products
<1>9. \A k \in 0 .. NDIRECT_BLOCKS : Usable(META + 1 + k)
  BY LayoutAssumption DEF Usable, Place
<1>10. Usable(META + 1)
  <2>1. 0 \in 0 .. NDIRECT_BLOCKS /\ META + 1 + 0 = META + 1
    BY <1>6
  <2> QED
    BY <1>9, <2>1
<1>11. Place(META + BIGDATA + 1) < H /\ META + BIGDATA + 1 \in Nat
  BY <1>6, LayoutAssumption DEF Place
<1>12. Halves(0 .. (META + BIGDATA))
  <2>1. PICK n \in Nat : n = META + BIGDATA + 1
    BY <1>11
  <2>2. Halves(0 .. (n - 1))
    BY <1>11, <2>1, HalvesBelow
  <2>3. n - 1 = META + BIGDATA
    BY <1>6, <2>1
  <2> QED
    BY <2>2, <2>3
<1>13. Halves(0 .. (META - 1))
  <2>1. PICK m \in Nat \ {0} : m = META + 1
    BY <1>6
  <2>2. Place(m - 1) < H
    BY <1>10, <2>1, PlaceBefore
  <2>3. m - 1 = META
    BY <1>6, <2>1
  <2>4. Place(META) < H
    BY <2>2, <2>3
  <2> QED
    BY <1>6, <2>4, HalvesBelow
<1> HIDE DEF z
<1>14. Blk = (META + 1) .. z
  BY DEF Blk, z
<1>15. META + 1 \in Blk /\ 0 .. (META + BIGDATA) \subseteq 0 .. (z - 1)
  BY <1>6, <1>8, <1>14
<1>16. ASSUME NEW k \in Direct
       PROVE  META + 1 + k \in Blk /\ Usable(META + 1 + k) /\ META + k \in 0 .. (META + BIGDATA)
  <2>1. k \in 0 .. NDIRECT_BLOCKS /\ k \in Nat /\ 1 <= k /\ k <= BIGDATA
    BY <1>6 DEF Direct
  <2>2. Usable(META + 1 + k)
    BY <1>9, <2>1
  <2>3. META + 1 + k \in (META + 1) .. z /\ META + k \in 0 .. (META + BIGDATA)
    BY <1>6, <1>8, <2>1
  <2> QED
    BY <1>14, <2>2, <2>3
<1> QED
  BY <1>3, <1>5, <1>6, <1>7, <1>10, <1>12, <1>13, <1>15, <1>16 DEF z

LEMMA FreshFine ==
  ASSUME NEW e, Fresh(e), NEW I, I = {ROOT_DIR_INUM, TEST_BIG_FILE_INUM}
  PROVE  Fine(e, I) /\ Linked(e, I)
<1> DEFINE r == ROOT_DIR_INUM
           x == TEST_BIG_FILE_INUM
<1>1. e \in Disk /\ IsDir(e, r) /\ IsFile(e, x) /\ r # x /\ ~ IsDir(e, x) /\ ~ IsFile(e, r)
  BY DEF Fresh, IsDir, IsFile, ROOT_DIR_INUM, TEST_BIG_FILE_INUM
<1>2. /\ Dentries(e, r) = FreshEntries /\ Len(Dentries(e, r)) = 3 /\ DOMAIN Dentries(e, r) = 1 .. 3
      /\ Dentries(e, r)[1] = [valid |-> TRUE, inum |-> r, name |-> "."]
      /\ Dentries(e, r)[2] = [valid |-> TRUE, inum |-> r, name |-> ".."]
      /\ Dentries(e, r)[3] = [valid |-> TRUE, inum |-> x, name |-> BigName]
  BY Entries3 DEF Fresh
<1>3. BigName \notin {".", ".."} /\ NDENTRIES \in Nat /\ NDENTRIES > 2 /\ r \in Nat /\ x \in Nat \ {0}
  BY FsAssumption DEF ROOT_DIR_INUM, TEST_BIG_FILE_INUM
<1>4. I = {r, x} /\ r \in Inum /\ x \in Inum
  BY Layout
<1>5. r = ROOT_DIR_INUM /\ x = TEST_BIG_FILE_INUM
  OBVIOUS
<1> HIDE DEF r, x
<1>6. \A i \in I : \A y : Kid(e, i, y) <=> i = r /\ y \in {r, x}
  <2>1. \A y : Kid(e, r, y) <=> \E j \in 1 .. 3 : Dentries(e, r)[j].valid /\ Dentries(e, r)[j].inum = y
    BY <1>1, <1>2 DEF Kid
  <2>2. \A j \in 1 .. 3 : j = 1 \/ j = 2 \/ j = 3
    OBVIOUS
  <2>3. \A y : Kid(e, r, y) <=> y \in {r, x}
    BY <1>2, <2>1, <2>2
  <2>4. \A y : ~ Kid(e, x, y)
    BY <1>1 DEF Kid
  <2> QED
    BY <1>1, <1>4, <2>3, <2>4
<1>7. Reach(e, I)
  <2>1. I \subseteq Made(e)
    BY <1>1, <1>4, MadeOf
  <2>2. r \in I /\ \A i \in I : \A y : Kid(e, i, y) => y \in I
    BY <1>4, <1>6
  <2>3. ASSUME NEW V \in SUBSET Inum, r \in V, \A i \in V : \A y : Kid(e, i, y) => y \in V
        PROVE  I \subseteq V
    BY <1>4, <1>6, <2>3
  <2> QED
    BY <1>5, <2>1, <2>2, <2>3, ReachBy
<1>8. \A i \in I : \A j, y : Leads(e, i, j, y) <=> i = r /\ j = 3 /\ y = x
  <2>1. ASSUME NEW j, NEW y
        PROVE  Leads(e, r, j, y) <=> j = 3 /\ y = x
    BY <1>1, <1>2 DEF Leads
  <2>2. \A j, y : ~ Leads(e, x, j, y)
    BY <1>1 DEF Leads
  <2> QED
    BY <1>1, <1>4, <2>1, <2>2
<1>9. Kinds(e, I)
  BY <1>1, <1>4, <1>5 DEF Kinds, Fresh
<1>10. Dirs(e, I)
  <2>1. DirBlock(e, r) \in Blk
    BY <1>5, Layout DEF Fresh
  <2>2. \A j \in 3 .. Len(Dentries(e, r)) : Dentries(e, r)[j].name \notin {".", ".."}
    BY <1>2, <1>3
  <2>3. 3 \in 2 .. NDENTRIES
    BY <1>3
  <2>4. /\ Len(Dentries(e, r)) \in 2 .. NDENTRIES
        /\ Dentries(e, r)[1] = [valid |-> TRUE, inum |-> r, name |-> "."]
        /\ Dentries(e, r)[2].valid /\ Dentries(e, r)[2].name = ".."
    BY <1>2, <2>3
  <2>5. \A i \in I : IsDir(e, i) => i = r
    BY <1>1, <1>4
  <2> QED
    BY <2>1, <2>2, <2>4, <2>5 DEF Dirs
<1>11. OneName(e, I)
  BY <1>1, <1>2, <1>4, <1>5, <1>8 DEF OneName
<1>12. Distinct(e, I)
  <2>1. \A j \in 1 .. 3 : j = 1 \/ j = 2 \/ j = 3
    OBVIOUS
  <2>2. /\ Dentries(e, r)[1].name = "." /\ Dentries(e, r)[2].name = ".."
        /\ Dentries(e, r)[3].name = BigName /\ "." # ".."
    BY <1>2
  <2>3. \A j, k \in 1 .. 3 : Dentries(e, r)[j].name = Dentries(e, r)[k].name => j = k
    BY <1>3, <2>1, <2>2
  <2> QED
    BY <1>1, <1>2, <1>4, <2>3 DEF Distinct
<1>13. Own(e, I)
  <2>1. /\ 1 \in Direct /\ e.inodes[r].direct[1] = META + 1
        /\ \A k \in Direct \ {1} : e.inodes[r].direct[k] = 0
        /\ \A k \in Direct : e.inodes[x].direct[k] = META + 1 + k
        /\ e.bmap = 0 .. (META + BIGDATA)
    BY <1>5, Layout DEF Fresh, DirBlock
  <2>2. /\ META \in Nat \ {0} /\ BIGDATA \in Nat
        /\ META + 1 \in Blk /\ Usable(META + 1)
        /\ \A k \in Direct : META + 1 + k \in Blk /\ Usable(META + 1 + k) /\ META + k \in 0 .. (META + BIGDATA)
    BY Layout
  <2>3. \A k \in Direct : k \in Nat /\ k >= 1
    BY DEF Direct
  <2>4. Usable(r) /\ Usable(x) /\ r - 1 \in e.imap /\ x - 1 \in e.imap
    BY Layout DEF Fresh, ROOT_DIR_INUM, TEST_BIG_FILE_INUM, r, x
  <2>5. ASSUME NEW k \in Direct, e.inodes[r].direct[k] # 0
        PROVE  k = 1 /\ e.inodes[r].direct[k] = META + 1
    BY <2>1, <2>5
  <2>6. META \in 0 .. (META + BIGDATA) /\ (META + 1) - 1 = META
    BY <2>2
  <2>7. ASSUME NEW k \in Direct
        PROVE  /\ META + 1 # META + 1 + k /\ (META + 1 + k) - 1 = META + k
               /\ META + 1 + k # 0
               /\ \A l \in Direct : META + 1 + k = META + 1 + l => k = l
    BY <2>2, <2>3
  <2>8. ASSUME NEW k \in Direct, e.inodes[r].direct[k] # 0
        PROVE  /\ e.inodes[r].direct[k] \in Blk /\ Usable(e.inodes[r].direct[k])
               /\ e.inodes[r].direct[k] - 1 \in e.bmap
               /\ \A j \in I, l \in Direct :
                    e.inodes[r].direct[k] = e.inodes[j].direct[l] => r = j /\ k = l
    <3>1. e.inodes[r].direct[k] \in Blk /\ Usable(e.inodes[r].direct[k])
      BY <2>2, <2>5, <2>8
    <3>2. e.inodes[r].direct[k] - 1 \in e.bmap
      BY <2>1, <2>5, <2>6, <2>8
    <3>3. \A l \in Direct : e.inodes[x].direct[l] # e.inodes[r].direct[k]
      BY <2>1, <2>5, <2>7, <2>8
    <3>4. \A l \in Direct : e.inodes[r].direct[k] = e.inodes[r].direct[l] => k = l
      BY <2>1, <2>5, <2>8
    <3> QED
      BY <1>4, <3>1, <3>2, <3>3, <3>4
  <2>9. ASSUME NEW k \in Direct
        PROVE  /\ e.inodes[x].direct[k] \in Blk /\ Usable(e.inodes[x].direct[k])
               /\ e.inodes[x].direct[k] - 1 \in e.bmap
               /\ \A j \in I, l \in Direct :
                    e.inodes[x].direct[k] = e.inodes[j].direct[l] => x = j /\ k = l
    <3>0. e.inodes[x].direct[k] = META + 1 + k
      BY <2>1
    <3>1. e.inodes[x].direct[k] \in Blk /\ Usable(e.inodes[x].direct[k])
      BY <2>2, <3>0
    <3>2. e.inodes[x].direct[k] - 1 \in e.bmap
      BY <2>1, <2>2, <2>7, <3>0
    <3>3. \A l \in Direct : e.inodes[r].direct[l] # e.inodes[x].direct[k]
      <4> SUFFICES ASSUME NEW l \in Direct, e.inodes[r].direct[l] = e.inodes[x].direct[k]
                   PROVE  FALSE
        OBVIOUS
      <4>1. e.inodes[r].direct[l] # 0
        BY <2>7, <3>0
      <4> QED
        BY <2>5, <2>7, <3>0, <4>1
    <3>4. \A l \in Direct : e.inodes[x].direct[k] = e.inodes[x].direct[l] => k = l
      BY <2>1, <2>7
    <3> QED
      BY <1>4, <3>1, <3>2, <3>3, <3>4
  <2> QED
    BY <1>1, <1>4, <2>4, <2>8, <2>9 DEF Own
<1>14. Maps(e)
  <2>1. 0 .. (META - 1) \subseteq 0 .. (META + BIGDATA)
    BY Layout
  <2> QED
    BY <2>1, Layout DEF Maps, Fresh
<1>15. First(e)
  BY <1>1, <1>2, <1>5 DEF First
<1>16. Linked(e, I)
  <2> SUFFICES ASSUME NEW y \in I, IsFile(e, y)
               PROVE  Cardinality(NamesOf(e, I, y)) <= e.inodes[y].ref
    BY DEF Linked
  <2>1. y = x /\ e.inodes[y].ref = 1
    BY <1>1, <1>4, <1>5 DEF Fresh
  <2>2. NamesOf(e, I, y) \subseteq {<<r, 3>>}
    <3> SUFFICES ASSUME NEW m \in NamesOf(e, I, y) PROVE m = <<r, 3>>
      OBVIOUS
    <3>1. PICK i, j : m = <<i, j>>
      BY DEF NamesOf
    <3>2. i \in I /\ Leads(e, i, j, y)
      BY <1>1, <1>4, <1>10, <3>1, NamesAre
    <3> QED
      BY <1>8, <3>1, <3>2
  <2>3. IsFiniteSet({<<r, 3>>}) /\ Cardinality({<<r, 3>>}) = 1
    BY FS_Singleton
  <2> DEFINE N == NamesOf(e, I, y)
             one == {<<r, 3>>}
  <2> HIDE DEF N, one
  <2>4. Cardinality(N) <= Cardinality(one)
    <3>1. N \subseteq one /\ IsFiniteSet(one)
      BY <2>2, <2>3 DEF N, one
    <3> QED
      BY <3>1, FS_Subset
  <2> QED
    BY <2>1, <2>3, <2>4 DEF N, one
<1> QED
  BY <1>7, <1>9, <1>10, <1>11, <1>12, <1>13, <1>14, <1>15, <1>16 DEF Fine

\* The root directory, on a disk with empty maps.
Rooted(e, es) ==
  /\ e \in Disk /\ e.magic /\ Halves(e.imap) /\ 0 \in e.imap
  /\ IsDir(e, ROOT_DIR_INUM) /\ DirBlock(e, ROOT_DIR_INUM) = META + 1
  /\ \A k \in Direct \ {1} : e.inodes[ROOT_DIR_INUM].direct[k] = 0
  /\ Dentries(e, ROOT_DIR_INUM) = es

LEMMA GrownOn ==
  ASSUME NEW s \in Seq(Disk), NEW t, NEW F, Grown(s, t), Rest(Last(s), Last(t), F)
  PROVE  t \in Seq(Disk) /\ t # <<>> /\ Last(t) \in Disk /\ Last(t).magic = Last(s).magic
BY DEF Grown, Rest

LEMMA MkfsMaps ==
  ASSUME NEW d \in Disk,
         NEW t, t = Write(Write(Write(<<d>>, "magic", TRUE), "bmap", 0 .. (META - 1)), "imap", {})
  PROVE  /\ t \in Seq(Disk) /\ t # <<>>
         /\ Last(t).magic /\ Last(t).bmap = 0 .. (META - 1) /\ Last(t).imap = {}
<1> DEFINE e == [d EXCEPT !["magic"] = TRUE]
           s == Write(<<d>>, "magic", TRUE)
           u == Write(s, "bmap", 0 .. (META - 1))
<1>1. e \in Disk /\ e.magic
  BY DEF Disk
<1>2. Last(<<d>>) = d /\ <<d>> \in Seq(Disk)
  BY DEF Last
<1>3. s = Append(<<d>>, e)
  BY <1>2 DEF Write
<1> HIDE DEF e
<1>4. Grown(<<d>>, s) /\ Last(s) = e
  BY <1>1, <1>2, <1>3, AppendGrown
<1>5. s \in Seq(Disk) /\ s # <<>> /\ Last(s).magic
  BY <1>1, <1>4 DEF Grown
<1>6. 0 .. (META - 1) \in SUBSET (0 .. (BWORDS * W - 1))
  <2>1. 0 .. (META - 1) \subseteq 0 .. (META + BIGDATA)
    BY Layout
  <2> QED
    BY <2>1, Layout
<1> HIDE DEF s
<1>9. t = Write(u, "imap", {})
  BY DEF s
<1> HIDE DEF u
<1>7. Grown(s, u) /\ Rest(Last(s), Last(u), {"bmap"}) /\ Last(u).bmap = 0 .. (META - 1)
  BY <1>5, <1>6, WriteBmap DEF u
<1>8. u \in Seq(Disk) /\ u # <<>> /\ Last(u).magic
  BY <1>5, <1>7, GrownOn
<1>10. Grown(u, t) /\ Rest(Last(u), Last(t), {"imap"}) /\ Last(t).imap = {}
  BY <1>8, <1>9, WriteImap
<1>11. t \in Seq(Disk) /\ t # <<>> /\ Last(t).magic = Last(u).magic
  BY <1>8, <1>10, GrownOn
<1>12. Last(t).bmap = 0 .. (META - 1)
  BY <1>7, <1>10 DEF Rest
<1> QED
  BY <1>8, <1>10, <1>11, <1>12

LEMMA MkfsRoot ==
  ASSUME NEW s \in Seq(Disk), s # <<>>,
         Last(s).magic, Last(s).bmap = 0 .. (META - 1), Last(s).imap = {},
         NEW new, new = init_dir_inode(s, ROOT_DIR_INUM)
  PROVE  /\ new.s \in Seq(Disk) /\ new.s # <<>>
         /\ Rooted(Last(new.s), RootEntries) /\ 1 \notin Last(new.s).imap
<1> DEFINE a == alloc_inode(s)
           b == alloc_block(a.s)
           v == [ZeroInode EXCEPT !.type = "DIRECTORY", !.ref = 1, !.direct[1] = b.num]
           es == <<[valid |-> TRUE, inum |-> a.num, name |-> "."],
                   [valid |-> TRUE, inum |-> ROOT_DIR_INUM, name |-> ".."]>>
           c == [ZeroBlock EXCEPT !.dentries = es]
           t == write_inode(b.s, a.num, v)
           u == write_block(t, b.num, c)
           d1 == Last(a.s)
           d2 == Last(b.s)
           d3 == Last(t)
           d4 == Last(u)
<1>1. new.s = u
  BY DEF init_dir_inode
<1>2. /\ IWORDS * W \in Nat /\ 0 \in 0 .. (IWORDS * W - 1) /\ META \in 0 .. (BWORDS * W - 1)
      /\ META \in Nat /\ META \notin 0 .. (META - 1)
  <2>1. IWORDS * W \in Nat
    BY FsAssumption, Products
  <2>2. ROOT_DIR_INUM \in Inum /\ META \in Nat /\ BIGDATA \in Nat
    BY Layout
  <2>3. 0 \in 0 .. (IWORDS * W - 1)
    BY <2>1, <2>2 DEF Inum, ROOT_DIR_INUM
  <2>4. META \in 0 .. (META + BIGDATA)
    BY <2>2
  <2> QED
    BY <2>1, <2>2, <2>3, <2>4, Layout
<1>3. /\ Grown(s, a.s) /\ Rest(Last(s), d1, {"imap"}) /\ Halves(d1.imap)
      /\ \E f \in 0 .. (IWORDS * W - 1) :
           /\ a.num = f + 1 /\ f \notin Last(s).imap /\ 0 .. (f - 1) \subseteq Last(s).imap
           /\ d1.imap = Taken(Last(s).imap, f) /\ f \in d1.imap
  <2>1. Halves(Last(s).imap) /\ ~ 0 .. (IWORDS * W - 1) \subseteq Last(s).imap
    BY <1>2 DEF Halves
  <2>2. a = alloc_inode(s)
    OBVIOUS
  <2> HIDE DEF a
  <2> QED
    BY <2>1, <2>2, TakeInode
<1>3a. PICK f \in 0 .. (IWORDS * W - 1) :
         /\ a.num = f + 1 /\ f \notin Last(s).imap /\ 0 .. (f - 1) \subseteq Last(s).imap
         /\ d1.imap = Taken(Last(s).imap, f) /\ f \in d1.imap
  BY <1>3
<1>4. f = 0 /\ a.num = 1 /\ a.num = ROOT_DIR_INUM
  <2>1. f \in Nat /\ 0 .. (f - 1) \subseteq {}
    BY <1>2, <1>3a
  <2>2. f > 0 => 0 \in 0 .. (f - 1)
    BY <2>1
  <2>3. f = 0
    BY <2>1, <2>2
  <2>4. a.num = f + 1
    BY <1>3a
  <2> HIDE DEF a
  <2> QED
    BY <2>3, <2>4 DEF ROOT_DIR_INUM
<1>5. 1 \notin d1.imap
  <2>1. H \in Nat /\ H > 1 /\ W = 2 * H /\ 0 \in 0 .. (W - 1) /\ 0 * W + 0 = 0
    BY Places
  <2>2. Place(0) = 0
    BY <2>1, WordOf DEF Place
  <2>3. BitsAt(Word(0), Place(0)) = Bits(0)
    BY <2>1, <2>2, BitsAtIs
  <2>4. 1 \notin Bits(0)
    BY <2>1, <2>2 DEF Bits
  <2>5. d1.imap = BitsAt(Word(0), Place(0))
    BY <1>3a, <1>4 DEF Taken, Word, Place
  <2> QED
    BY <2>3, <2>4, <2>5
<1> HIDE DEF a
<1>6. a.s \in Seq(Disk) /\ a.s # <<>> /\ d1.bmap = 0 .. (META - 1) /\ d1.magic
  BY <1>3 DEF Grown, Rest
<1>7. /\ Grown(a.s, b.s) /\ Rest(d1, d2, {"bmap"})
      /\ \E g \in 0 .. (BWORDS * W - 1) :
           b.num = g + 1 /\ g \notin d1.bmap /\ 0 .. (g - 1) \subseteq d1.bmap
  <2>1. Halves(d1.bmap)
    BY <1>6, Layout
  <2>2. ~ 0 .. (BWORDS * W - 1) \subseteq d1.bmap
    BY <1>2, <1>6
  <2>3. b = alloc_block(a.s)
    OBVIOUS
  <2> HIDE DEF b
  <2> QED
    BY <1>6, <2>1, <2>2, <2>3, TakeBlock
<1>8. b.num = META + 1
  <2>1. PICK g \in 0 .. (BWORDS * W - 1) :
           b.num = g + 1 /\ g \notin d1.bmap /\ 0 .. (g - 1) \subseteq d1.bmap
    BY <1>7
  <2>2. g \in Nat /\ g \notin 0 .. (META - 1) /\ 0 .. (g - 1) \subseteq 0 .. (META - 1)
    BY <1>2, <1>6, <2>1
  <2>3. g >= META
    BY <1>2, <2>2
  <2>4. ~ g > META
    BY <1>2, <2>2
  <2> QED
    BY <1>2, <2>1, <2>2, <2>3, <2>4
<1> HIDE DEF b, d1
<1>9. /\ b.s \in Seq(Disk) /\ b.s # <<>> /\ d2.magic /\ d2.imap = d1.imap
  BY <1>6, <1>7 DEF Grown, Rest
<1>10. /\ v \in Inode /\ v.type = "DIRECTORY"
       /\ v.direct[1] = META + 1 /\ \A k \in Direct \ {1} : v.direct[k] = 0
  <2>1. 1 \in Direct /\ META + 1 \in Nat
    BY Layout
  <2> QED
    BY <1>8, <2>1 DEF ZeroInode, Inode
<1> HIDE DEF v
<1>11. a.num \in Inum /\ META + 1 \in Blk
  BY <1>4, Layout
<1>12. /\ Grown(b.s, t) /\ Rest(d2, d3, {"inodes"}) /\ d3.inodes[ROOT_DIR_INUM] = v
  <2> HIDE DEF t
  <2> QED
    BY <1>4, <1>9, <1>10, <1>11, WriteInode DEF t
<1> HIDE DEF t, d2
<1>13. t \in Seq(Disk) /\ t # <<>> /\ d3.magic /\ d3.imap = d1.imap
  BY <1>9, <1>12 DEF Grown, Rest
<1>14. es = RootEntries /\ es \in Seq(Dentry)
  <2>1. es = RootEntries
    BY <1>4 DEF RootEntries
  <2>2. ROOT_DIR_INUM \in Nat /\ "." \in Path /\ ".." \in Path
    BY DEF Path, ROOT_DIR_INUM
  <2>3. /\ [valid |-> TRUE, inum |-> ROOT_DIR_INUM, name |-> "."] \in Dentry
        /\ [valid |-> TRUE, inum |-> ROOT_DIR_INUM, name |-> ".."] \in Dentry
    BY <2>2 DEF Dentry
  <2>4. RootEntries \in Seq(Dentry)
    BY <2>3 DEF RootEntries
  <2> QED
    BY <2>1, <2>4
<1> HIDE DEF es
<1>15. c \in Content /\ c.dentries = RootEntries
  BY <1>14, Contents
<1> HIDE DEF c
<1>16. Grown(t, u) /\ Rest(d3, d4, {"blocks"}) /\ d4.blocks[META + 1] = c
  <2> HIDE DEF u
  <2>1. u = write_block(t, b.num, c) /\ b.num \in Blk
    BY <1>8, <1>11 DEF u
  <2>2. Grown(t, u) /\ Rest(Last(t), Last(u), {"blocks"}) /\ Last(u).blocks[b.num] = c
    BY <1>13, <1>15, <2>1, WriteBlock
  <2> QED
    BY <1>8, <2>2
<1> HIDE DEF u, d3
<1>17. /\ u \in Seq(Disk) /\ u # <<>>
       /\ d4 \in Disk /\ d4.magic /\ d4.imap = d1.imap /\ d4.inodes = d3.inodes
  BY <1>13, <1>16 DEF Grown, Rest
<1> HIDE DEF d4
<1>18. IsDir(d4, ROOT_DIR_INUM) /\ DirBlock(d4, ROOT_DIR_INUM) = META + 1
  BY <1>10, <1>12, <1>17 DEF IsDir, DirBlock
<1>19. Dentries(d4, ROOT_DIR_INUM) = RootEntries
  BY <1>15, <1>16, <1>18 DEF Dentries
<1>20. Rooted(d4, RootEntries)
  BY <1>3, <1>3a, <1>4, <1>10, <1>12, <1>17, <1>18, <1>19 DEF Rooted, d1
<1> QED
  BY <1>1, <1>5, <1>17, <1>20 DEF d4

LEMMA MkfsTouch ==
  ASSUME NEW s \in Seq(Disk), s # <<>>, Rooted(Last(s), RootEntries), 1 \notin Last(s).imap,
         NEW t, t = touch(s, ROOT_DIR_INUM, BigName)
  PROVE  /\ t \in Seq(Disk) /\ t # <<>>
         /\ Rooted(Last(t), FreshEntries) /\ 1 \in Last(t).imap
         /\ IsFile(Last(t), TEST_BIG_FILE_INUM) /\ Last(t).inodes[TEST_BIG_FILE_INUM].ref = 1
<1> DEFINE a == alloc_inode(s)
           v == [ZeroInode EXCEPT !.type = "FILE", !.ref = 1]
           u == write_inode(a.s, a.num, v)
           d1 == Last(a.s)
           d2 == Last(u)
           d3 == Last(t)
           es == Append(Dentries(d2, ROOT_DIR_INUM), [valid |-> TRUE, inum |-> a.num, name |-> BigName])
           c == [ZeroBlock EXCEPT !.dentries = es]
<1>1. t = write_block(u, DirBlock(d2, ROOT_DIR_INUM), c)
  BY DEF touch, append_dentry
<1>2. IWORDS * W \in Nat /\ 1 \in 0 .. (IWORDS * W - 1)
  <2>1. IWORDS * W \in Nat
    BY FsAssumption, Products
  <2>2. TEST_BIG_FILE_INUM \in Inum
    BY Layout
  <2> QED
    BY <2>1, <2>2 DEF Inum, TEST_BIG_FILE_INUM
<1>3. /\ Grown(s, a.s) /\ Rest(Last(s), d1, {"imap"}) /\ Halves(d1.imap)
      /\ Last(s).imap \subseteq d1.imap
      /\ \E b \in 0 .. (IWORDS * W - 1) :
           /\ a.num = b + 1 /\ b \notin Last(s).imap /\ 0 .. (b - 1) \subseteq Last(s).imap
           /\ d1.imap = Taken(Last(s).imap, b) /\ b \in d1.imap
  <2>1. Halves(Last(s).imap) /\ ~ 0 .. (IWORDS * W - 1) \subseteq Last(s).imap
    BY <1>2 DEF Rooted
  <2>2. a = alloc_inode(s)
    OBVIOUS
  <2> HIDE DEF a
  <2> QED
    BY <2>1, <2>2, TakeInode
<1>4. a.num = 2 /\ 1 \in d1.imap
  <2>1. PICK b \in 0 .. (IWORDS * W - 1) :
           /\ a.num = b + 1 /\ b \notin Last(s).imap /\ 0 .. (b - 1) \subseteq Last(s).imap
           /\ d1.imap = Taken(Last(s).imap, b) /\ b \in d1.imap
    BY <1>3
  <2>2. b \in Nat /\ 0 \in Last(s).imap
    BY <1>2, <2>1 DEF Rooted
  <2>3. b > 1 => 1 \in 0 .. (b - 1)
    BY <2>2
  <2>4. b # 0
    BY <2>1, <2>2
  <2>5. ~ b > 1
    BY <2>1, <2>2, <2>3
  <2>6. b = 1
    BY <2>2, <2>4, <2>5
  <2> HIDE DEF a, d1
  <2> QED
    BY <2>1, <2>6
<1>5. a.num = TEST_BIG_FILE_INUM /\ TEST_BIG_FILE_INUM # ROOT_DIR_INUM
  BY <1>4 DEF TEST_BIG_FILE_INUM, ROOT_DIR_INUM
<1> HIDE DEF a
<1>6. /\ a.s \in Seq(Disk) /\ a.s # <<>> /\ d1.magic /\ d1 \in Disk
      /\ d1.inodes = Last(s).inodes /\ d1.blocks = Last(s).blocks
  BY <1>3, GrownOn DEF Rooted, Rest
<1>7. Rooted(d1, RootEntries)
  BY <1>3, <1>6 DEF Rooted, IsDir, DirBlock, Dentries
<1> HIDE DEF d1
<1>8. v \in Inode /\ v.type = "FILE" /\ v.ref = 1
  <2>1. ZeroInode \in Inode
    BY Contents
  <2> QED
    BY DEF ZeroInode, Inode
<1> HIDE DEF v
<1>9. u = write_inode(a.s, TEST_BIG_FILE_INUM, v)
  BY <1>5
<1> HIDE DEF u
<1>10. /\ Grown(a.s, u) /\ Rest(d1, d2, {"inodes"}) /\ d2.inodes[TEST_BIG_FILE_INUM] = v
       /\ d2.inodes[ROOT_DIR_INUM] = d1.inodes[ROOT_DIR_INUM]
  BY <1>5, <1>6, <1>8, <1>9, Layout, WriteInode DEF d1
<1>11. u \in Seq(Disk) /\ u # <<>> /\ d2.magic /\ d2 \in Disk
       /\ d2.imap = d1.imap /\ d2.blocks = d1.blocks
  <2>1. u \in Seq(Disk) /\ u # <<>> /\ Last(u) \in Disk /\ Last(u).magic = Last(a.s).magic
    BY <1>6, <1>10, GrownOn DEF d1
  <2> QED
    BY <1>6, <1>10, <2>1 DEF d1, Rest
<1> HIDE DEF d2
<1>12. Rooted(d2, RootEntries)
  BY <1>7, <1>10, <1>11 DEF Rooted, IsDir, DirBlock, Dentries
<1>13. es = FreshEntries /\ es \in Seq(Dentry)
  <2>1. es = Append(RootEntries, [valid |-> TRUE, inum |-> TEST_BIG_FILE_INUM, name |-> BigName])
    BY <1>5, <1>12 DEF Rooted
  <2>2. es = FreshEntries
    BY <2>1 DEF FreshEntries
  <2>3. /\ ROOT_DIR_INUM \in Nat /\ TEST_BIG_FILE_INUM \in Nat
        /\ "." \in Path /\ ".." \in Path /\ BigName \in Path
    BY DEF Path, ROOT_DIR_INUM, TEST_BIG_FILE_INUM
  <2>4. /\ [valid |-> TRUE, inum |-> ROOT_DIR_INUM, name |-> "."] \in Dentry
        /\ [valid |-> TRUE, inum |-> ROOT_DIR_INUM, name |-> ".."] \in Dentry
        /\ [valid |-> TRUE, inum |-> TEST_BIG_FILE_INUM, name |-> BigName] \in Dentry
    BY <2>3 DEF Dentry
  <2>5. FreshEntries \in Seq(Dentry)
    BY <2>4 DEF FreshEntries, RootEntries
  <2> QED
    BY <2>2, <2>5
<1> HIDE DEF es
<1>14. c \in Content /\ c.dentries = FreshEntries
  BY <1>13, Contents
<1> HIDE DEF c
<1>15. META + 1 \in Blk /\ t = write_block(u, META + 1, c)
  BY <1>1, <1>12, Layout DEF Rooted
<1>16. Grown(u, t) /\ Rest(d2, d3, {"blocks"}) /\ d3.blocks[META + 1] = c
  <2>1. PICK m \in Blk : m = META + 1
    BY <1>15
  <2>2. Grown(u, t) /\ Rest(Last(u), Last(t), {"blocks"}) /\ Last(t).blocks[m] = c
    BY <1>11, <1>14, <1>15, <2>1, WriteBlock
  <2> QED
    BY <2>1, <2>2 DEF d2
<1>17. t \in Seq(Disk) /\ t # <<>> /\ d3.magic /\ d3 \in Disk
       /\ d3.imap = d2.imap /\ d3.inodes = d2.inodes
  <2>1. t \in Seq(Disk) /\ t # <<>> /\ Last(t) \in Disk /\ Last(t).magic = Last(u).magic
    BY <1>11, <1>16, GrownOn DEF d2
  <2> QED
    BY <1>11, <1>16, <2>1 DEF d2, Rest
<1> HIDE DEF d3
<1>18. Rooted(d3, FreshEntries)
  <2>1. IsDir(d3, ROOT_DIR_INUM) /\ DirBlock(d3, ROOT_DIR_INUM) = META + 1
    BY <1>12, <1>17 DEF Rooted, IsDir, DirBlock
  <2>2. Dentries(d3, ROOT_DIR_INUM) = FreshEntries
    BY <1>14, <1>16, <2>1 DEF Dentries
  <2> QED
    BY <1>12, <1>17, <2>1, <2>2 DEF Rooted
<1>19. IsFile(d3, TEST_BIG_FILE_INUM) /\ d3.inodes[TEST_BIG_FILE_INUM].ref = 1 /\ 1 \in d3.imap
  BY <1>4, <1>8, <1>10, <1>11, <1>17 DEF IsFile, d1
<1> QED
  BY <1>17, <1>18, <1>19 DEF d3

LEMMA MkfsBig ==
  ASSUME NEW s \in Seq(Disk), s # <<>>, Rooted(Last(s), FreshEntries), 1 \in Last(s).imap,
         IsFile(Last(s), TEST_BIG_FILE_INUM), Last(s).inodes[TEST_BIG_FILE_INUM].ref = 1,
         NEW t, t = init_bigfile(s)
  PROVE  t \in Seq(Disk) /\ t # <<>> /\ Fresh(Last(t))
<1> DEFINE at == META + 2 + NDIRECT_BLOCKS
           double == at + NINDIRECT_BLOCKS + 1
           old == Last(s).inodes[TEST_BIG_FILE_INUM]
           inode == [old EXCEPT
                       !.direct = [k \in Direct |-> META + 1 + k], !.indirect = at,
                       !.double_indirect = double, !.size = BIGDATA * NBYTES_PER_BLOCK]
           table(n) == [ZeroBlock EXCEPT !.ptrs = n]
           Ptr == 1 .. NINDIRECT_BLOCKS
           rest == BIGDATA - NDIRECT_BLOCKS - NINDIRECT_BLOCKS
           c1 == table([j \in Ptr |-> at + j])
           c2 == table([j \in Ptr |-> IF j = 1 THEN double + 1 ELSE 0])
           c3 == table([j \in Ptr |-> IF j <= rest THEN double + 1 + j ELSE 0])
           b == Write(s, "bmap", 0 .. (META + BIGDATA))
           t1 == write_block(b, at, c1)
           t2 == write_block(t1, double, c2)
           t3 == write_block(t2, double + 1, c3)
<1>1. t = write_inode(t3, TEST_BIG_FILE_INUM, inode)
  BY DEF init_bigfile
<1>2. /\ META \in Nat \ {0} /\ BIGDATA \in Nat /\ NDIRECT_BLOCKS \in Nat /\ NINDIRECT_BLOCKS \in Nat \ {0}
      /\ NBYTES_PER_BLOCK \in Nat /\ rest \in Nat /\ BIGDATA >= NDIRECT_BLOCKS + NINDIRECT_BLOCKS
  <2>1. /\ META \in Nat \ {0} /\ BIGDATA \in Nat /\ NDIRECT_BLOCKS \in Nat /\ NINDIRECT_BLOCKS \in Nat \ {0}
        /\ NBYTES_PER_BLOCK \in Nat
        /\ BIGDATA - NDIRECT_BLOCKS - NINDIRECT_BLOCKS \in 0 .. NINDIRECT_BLOCKS
    BY FsAssumption
  <2> QED
    BY <2>1
<1>3. at \in Nat /\ double \in Nat /\ BIGDATA * NBYTES_PER_BLOCK \in Nat
  BY <1>2, Products
<1>4. /\ at \in Blk /\ double \in Blk /\ double + 1 \in Blk
      /\ at # META + 1 /\ double # META + 1 /\ double + 1 # META + 1
  <2> DEFINE z == BWORDS * W
  <2>1. z \in Nat /\ META + BIGDATA + 4 <= z /\ Blk = (META + 1) .. z
    BY FsAssumption, Products DEF Blk
  <2> HIDE DEF z
  <2> QED
    BY <1>2, <2>1
<1>5. c1 \in Content /\ c2 \in Content /\ c3 \in Content
  <2>1. ASSUME NEW n \in [Ptr -> Nat] PROVE table(n) \in Content
    BY Contents DEF Content
  <2> HIDE DEF table
  <2>2. [j \in Ptr |-> at + j] \in [Ptr -> Nat]
    BY <1>3
  <2>3. [j \in Ptr |-> IF j = 1 THEN double + 1 ELSE 0] \in [Ptr -> Nat]
    BY <1>3
  <2>4. [j \in Ptr |-> IF j <= rest THEN double + 1 + j ELSE 0] \in [Ptr -> Nat]
    BY <1>3
  <2> QED
    BY <2>1, <2>2, <2>3, <2>4
<1>6. /\ inode \in Inode /\ inode.type = "FILE" /\ inode.ref = 1
      /\ \A k \in Direct : inode.direct[k] = META + 1 + k
  <2>1. old \in Inode /\ old.type = "FILE" /\ old.ref = 1
    <3>1. Last(s) \in Disk
      BY LastIn
    <3> QED
      BY <3>1, Layout DEF Disk, IsFile
  <2>2. [k \in Direct |-> META + 1 + k] \in [Direct -> Nat]
    BY <1>2 DEF Direct
  <2> HIDE DEF old, at, double
  <2> QED
    BY <1>3, <2>1, <2>2 DEF Inode
<1> HIDE DEF inode, c1, c2, c3
<1> DEFINE two == double + 1
<1>7. at \in Blk /\ double \in Blk /\ two \in Blk
      /\ at # META + 1 /\ double # META + 1 /\ two # META + 1 /\ META + 1 \in Blk
      /\ t3 = write_block(t2, two, c3)
  BY <1>4, Layout
<1> HIDE DEF at, double, two
<1>8. 0 .. (META + BIGDATA) \in SUBSET (0 .. (BWORDS * W - 1))
  BY Layout
<1>9. Grown(s, b) /\ Rest(Last(s), Last(b), {"bmap"}) /\ Last(b).bmap = 0 .. (META + BIGDATA)
  BY <1>8, WriteBmap
<1>10. b \in Seq(Disk) /\ b # <<>>
  BY <1>9, GrownOn
<1> HIDE DEF b
<1>11. /\ Grown(b, t1) /\ Rest(Last(b), Last(t1), {"blocks"})
       /\ \A j \in Blk \ {at} : Last(t1).blocks[j] = Last(b).blocks[j]
  <2> HIDE DEF t1
  <2> QED
    BY <1>5, <1>7, <1>10, WriteBlock DEF t1
<1>12. t1 \in Seq(Disk) /\ t1 # <<>>
  BY <1>10, <1>11, GrownOn
<1> HIDE DEF t1
<1>13. /\ Grown(t1, t2) /\ Rest(Last(t1), Last(t2), {"blocks"})
       /\ \A j \in Blk \ {double} : Last(t2).blocks[j] = Last(t1).blocks[j]
  <2> HIDE DEF t2
  <2> QED
    BY <1>5, <1>7, <1>12, WriteBlock DEF t2
<1>14. t2 \in Seq(Disk) /\ t2 # <<>>
  BY <1>12, <1>13, GrownOn
<1> HIDE DEF t2, t3
<1>15. /\ Grown(t2, t3) /\ Rest(Last(t2), Last(t3), {"blocks"})
       /\ \A j \in Blk \ {two} : Last(t3).blocks[j] = Last(t2).blocks[j]
  BY <1>5, <1>7, <1>14, WriteBlock
<1>16. t3 \in Seq(Disk) /\ t3 # <<>>
  BY <1>14, <1>15, GrownOn
<1>17. TEST_BIG_FILE_INUM \in Inum /\ ROOT_DIR_INUM \in Inum \ {TEST_BIG_FILE_INUM}
  BY Layout DEF TEST_BIG_FILE_INUM, ROOT_DIR_INUM
<1>18. /\ Grown(t3, t) /\ Rest(Last(t3), Last(t), {"inodes"})
       /\ Last(t).inodes[TEST_BIG_FILE_INUM] = inode
       /\ Last(t).inodes[ROOT_DIR_INUM] = Last(t3).inodes[ROOT_DIR_INUM]
  BY <1>1, <1>6, <1>16, <1>17, WriteInode
<1>19. t \in Seq(Disk) /\ t # <<>>
  BY <1>16, <1>18, GrownOn
<1> DEFINE d == Last(s)
           e == Last(t)
<1>20. /\ e \in Disk /\ e.magic = d.magic /\ e.imap = d.imap /\ e.bmap = 0 .. (META + BIGDATA)
       /\ e.inodes[ROOT_DIR_INUM] = d.inodes[ROOT_DIR_INUM]
  BY <1>9, <1>11, <1>13, <1>15, <1>18 DEF Rest
<1>21. e.blocks[META + 1] = d.blocks[META + 1]
  <2>1. PICK m \in Blk : m = META + 1
    BY <1>7
  <2>2. m \in Blk \ {at} /\ m \in Blk \ {double} /\ m \in Blk \ {two}
    BY <1>7, <2>1
  <2>3. e.blocks[m] = d.blocks[m]
    BY <1>9, <1>11, <1>13, <1>15, <1>18, <2>2 DEF Rest
  <2> QED
    BY <2>1, <2>3
<1>22. e.inodes[TEST_BIG_FILE_INUM] = inode
  BY <1>18
<1>23. Rooted(d, FreshEntries) /\ 1 \in d.imap
  OBVIOUS
<1> HIDE DEF d, e
<1>24. IsDir(e, ROOT_DIR_INUM) /\ DirBlock(e, ROOT_DIR_INUM) = META + 1
       /\ Dentries(e, ROOT_DIR_INUM) = FreshEntries
  BY <1>20, <1>21, <1>23 DEF Rooted, IsDir, DirBlock, Dentries
<1>25. Fresh(e)
  BY <1>6, <1>20, <1>22, <1>23, <1>24 DEF Rooted, Fresh, IsFile
<1> QED
  BY <1>19, <1>25 DEF e

\* mkfs makes a file system of any disk.
LEMMA MkfsFresh ==
  ASSUME NEW d \in Disk, NEW t, t = mkfs(<<d>>)
  PROVE  t \in Seq(Disk) /\ t # <<>> /\ Fresh(Last(t))
<1> DEFINE maps == Write(Write(Write(<<d>>, "magic", TRUE), "bmap", 0 .. (META - 1)), "imap", {})
           root == init_dir_inode(maps, ROOT_DIR_INUM)
           u == touch(root.s, ROOT_DIR_INUM, BigName)
<1>1. t = init_bigfile(u)
  BY DEF mkfs
<1>2. /\ maps \in Seq(Disk) /\ maps # <<>>
      /\ Last(maps).magic /\ Last(maps).bmap = 0 .. (META - 1) /\ Last(maps).imap = {}
  BY MkfsMaps
<1> HIDE DEF maps
<1>3. /\ root.s \in Seq(Disk) /\ root.s # <<>>
      /\ Rooted(Last(root.s), RootEntries) /\ 1 \notin Last(root.s).imap
  BY <1>2, MkfsRoot
<1> HIDE DEF root
<1>4. /\ u \in Seq(Disk) /\ u # <<>>
      /\ Rooted(Last(u), FreshEntries) /\ 1 \in Last(u).imap
      /\ IsFile(Last(u), TEST_BIG_FILE_INUM) /\ Last(u).inodes[TEST_BIG_FILE_INUM].ref = 1
  BY <1>3, MkfsTouch
<1> HIDE DEF u
<1> QED
  BY <1>1, <1>4, MkfsBig

-----------------------------------------------------------------------------
(* mkfs of a file system in use *)

\* With no name but that of the test file, the root and that file are all.
LEMMA OneFile ==
  ASSUME NEW d \in Disk, NEW I, Fine(d, I), Len(Dentries(d, ROOT_DIR_INUM)) = 3
  PROVE  \A i \in I : (IsDir(d, i) => i = ROOT_DIR_INUM) /\ (IsFile(d, i) => i = TEST_BIG_FILE_INUM)
<1> DEFINE r == ROOT_DIR_INUM
           x == TEST_BIG_FILE_INUM
           V == IF Dentries(d, r)[3].valid THEN {r, x} ELSE {r}
<1>1. r \in I /\ IsDir(d, r) /\ r \in Inum /\ x \in Inum
  BY FineOf, Layout DEF Fine, Kinds
<1>2. /\ Dentries(d, r)[2].inum = r /\ Dentries(d, r)[3].inum = x
      /\ Dentries(d, r)[3].valid => IsFile(d, x)
  BY DEF Fine, OneName, First
<1>3. Len(Dentries(d, r)) = 3
  OBVIOUS
<1>4. r = ROOT_DIR_INUM /\ x = TEST_BIG_FILE_INUM
  OBVIOUS
<1> HIDE DEF r, x
<1>5. \A y : Kid(d, r, y) => y = r \/ (y = x /\ Dentries(d, r)[3].valid)
  <2> SUFFICES ASSUME NEW y, Kid(d, r, y)
               PROVE  y = r \/ (y = x /\ Dentries(d, r)[3].valid)
    OBVIOUS
  <2>1. y = r \/ y = Dentries(d, r)[2].inum \/ \E j \in Nat : Leads(d, r, j, y)
    BY <1>1, KidIs
  <2>2. ASSUME NEW j \in Nat, Leads(d, r, j, y)
        PROVE  y = x /\ Dentries(d, r)[3].valid
    <3>1. j = 3
      BY <1>3, <2>2 DEF Leads
    <3> QED
      BY <1>2, <2>2, <3>1 DEF Leads
  <2> QED
    BY <1>2, <2>1, <2>2
<1>6. IsFile(d, x) => \A y : ~ Kid(d, x, y)
  BY DEF Kid, IsFile, IsDir
<1>7. I \subseteq V
  <2>1. r \in V /\ V \subseteq Inum /\ \A i \in V : \A y : Kid(d, i, y) => y \in V
    BY <1>1, <1>2, <1>5, <1>6
  <2>2. \A U \in SUBSET Inum :
          ROOT_DIR_INUM \in U /\ (\A i \in U : \A y : Kid(d, i, y) => y \in U) => I \subseteq U
    BY ReachOf DEF Fine
  <2> HIDE DEF V
  <2> QED
    BY <1>4, <2>1, <2>2
<1> SUFFICES ASSUME NEW i \in I
             PROVE  (IsDir(d, i) => i = r) /\ (IsFile(d, i) => i = x)
  BY <1>4
<1>8. i = r \/ (i = x /\ IsFile(d, x))
  BY <1>2, <1>7
<1> QED
  BY <1>1, <1>8 DEF IsDir, IsFile

-----------------------------------------------------------------------------
(* The invariant *)

\* Handles, WholeBy and SoundBy for any working directories c and descriptors f.
HandlesAt(d, I, c, f) ==
  /\ \A p \in Proc : c[p] # 0 => c[p] \in I /\ IsDir(d, c[p])
  /\ \A fd \in Fd : f[fd].inum # 0 => f[fd].inum \in I /\ IsFile(d, f[fd].inum)

SoundAt(d, c, f) == \E I : d \in Disk /\ Fine(d, I) /\ HandlesAt(d, I, c, f)
WholeAt(d, c, f) == \E I : d \in Disk /\ Fine(d, I) /\ Linked(d, I) /\ HandlesAt(d, I, c, f)

LEMMA AtIs ==
  /\ \A d : Whole(d) <=> WholeAt(d, cwd, fdesc)
  /\ \A d : Sound(d) <=> SoundAt(d, cwd, fdesc)
  /\ \A d, c, f : WholeAt(d, c, f) => SoundAt(d, c, f)
<1>1. \A d, I : Handles(d, I) <=> HandlesAt(d, I, cwd, fdesc)
  BY DEF Handles, HandlesAt
<1>2. \A d : Whole(d) <=> WholeAt(d, cwd, fdesc)
  BY <1>1 DEF Whole, WholeBy, WholeAt
<1>3. \A d : Sound(d) <=> SoundAt(d, cwd, fdesc)
  BY <1>1 DEF Sound, SoundBy, SoundAt
<1> QED
  BY <1>2, <1>3 DEF WholeAt, SoundAt

Files == [Fd -> [inum : Nat, read : BOOLEAN, write : BOOLEAN, offset : Nat]]

\* A file system, with no handles: what init_superblock finds.
Made0(d) == \E I : Fine(d, I) /\ Linked(d, I)

Typed ==
  /\ disk \in Disk /\ todo \in Seq(Disk)
  /\ fdesc \in Files /\ cwd \in [Proc -> Nat]
  /\ \A fd \in Fd : fdesc[fd].read \/ fdesc[fd].write => fdesc[fd].inum # 0

Powered ==
  /\ doing.op = "off" =>
       /\ doing = Off /\ todo = <<>>
       /\ \A p \in Proc : cwd[p] = 0
       /\ \A fd \in Fd : fdesc[fd].inum = 0
       /\ disk.magic => Made0(disk)
  /\ doing.op = "idle" => todo = <<>>

\* Every disk that a running call leaves is sound, also if the power fails;
\* the last one has its references, also after ln and mkfs.
Served ==
  /\ Mounted => SoundAt(disk, cwd, fdesc) /\ \A k \in 1 .. Len(todo) : SoundAt(todo[k], cwd, fdesc)
  /\ Mounted /\ doing.op # "ln" =>
       WholeAt(disk, cwd, fdesc) /\ \A k \in 1 .. Len(todo) : WholeAt(todo[k], cwd, fdesc)
  /\ todo # <<>> => WholeAt(Last(todo), cwd, fdesc)

\* The bytes of buf are at `off' in file i.
Stored(d, i, off, buf) ==
  \A j \in DOMAIN buf :
    LET blk == offset_to_blk(d, off + j - 1, d.inodes[i])
    IN  blk # 0 /\ Bytes(d.blocks[blk])[((off + j - 1) % NBYTES_PER_BLOCK) + 1] = buf[j]

\* The disk when the writes to come are done.
Later == IF todo = <<>> THEN disk ELSE Last(todo)
File == fdesc[doing.fd].inum

\* A record of the fields of `doing'.
IsCall(c) == c = [op |-> c.op, fd |-> c.fd, inode |-> c.inode, off |-> c.off, buf |-> c.buf,
                  done |-> c.done]

Written ==
  /\ doing.op \in {"fwrite", "fwrite_end"} =>
       /\ doing.fd \in Fd /\ File # 0 /\ doing.off \in Nat
       /\ doing.buf \in Seq(Nat) /\ doing.buf # <<>>
  /\ doing.op = "fwrite" =>
       /\ IsCall(doing)
       /\ PieceLen(doing.off, Len(doing.buf)) = Len(doing.buf)
       /\ doing.off + Len(doing.buf) <= NDIRECT_BLOCKS * NBYTES_PER_BLOCK
       /\ doing.done \in {0, Len(doing.buf)}
       /\ todo # <<>> => doing.done = Len(doing.buf)
       /\ doing.inode \in Inode
       /\ doing.inode.type = "FILE" /\ doing.inode.ref = Later.inodes[File].ref
       /\ doing.inode.direct = Later.inodes[File].direct
       /\ doing.inode.size >= Later.inodes[File].size
       /\ doing.done = Len(doing.buf) => Stored(Later, File, doing.off, doing.buf)
  /\ doing.op = "fwrite_end" =>
       /\ Stored(disk, File, doing.off, doing.buf)
       /\ \A k \in 1 .. Len(todo) : Stored(todo[k], File, doing.off, doing.buf)

FsInv == Typed /\ Powered /\ Served /\ Written

LEMMA TailIs ==
  ASSUME NEW S, NEW s \in Seq(S), s # <<>>
  PROVE  /\ Tail(s) \in Seq(S) /\ Head(s) \in S /\ Head(s) = s[1]
         /\ \A k \in 1 .. Len(Tail(s)) : Tail(s)[k] = s[k + 1] /\ k + 1 \in 1 .. Len(s)
         /\ Tail(s) # <<>> => Last(Tail(s)) = Last(s)
         /\ Tail(s) = <<>> => Head(s) = Last(s)
         /\ Tail(s) = <<>> <=> Len(s) <= 1
         /\ 1 \in 1 .. Len(s)
<1>1. Len(s) \in Nat \ {0} /\ Len(Tail(s)) = Len(s) - 1 /\ Tail(s) \in Seq(S)
  OBVIOUS
<1>2. \A k \in 1 .. Len(Tail(s)) : Tail(s)[k] = s[k + 1]
  OBVIOUS
<1>3. Tail(s) = <<>> <=> Len(s) = 1
  <2>1. \A u \in Seq(S) : u = <<>> <=> Len(u) = 0
    OBVIOUS
  <2>2. Tail(s) = <<>> <=> Len(Tail(s)) = 0
    BY <1>1, <2>1
  <2> QED
    BY <1>1, <2>2
<1>4. ASSUME Tail(s) # <<>>
      PROVE  Last(Tail(s)) = Last(s)
  <2>1. Len(Tail(s)) \in 1 .. Len(Tail(s)) /\ Len(Tail(s)) + 1 = Len(s)
    BY <1>1, <1>3, <1>4
  <2>2. Tail(s)[Len(Tail(s))] = s[Len(s)]
    BY <1>1, <1>2, <2>1
  <2> QED
    BY <2>2 DEF Last
<1>5. Head(s) \in S /\ Head(s) = s[1]
  OBVIOUS
<1>6. Tail(s) = <<>> => Head(s) = Last(s)
  BY <1>3, <1>5 DEF Last
<1>7. \A k \in 1 .. Len(Tail(s)) : k + 1 \in 1 .. Len(s)
  BY <1>1
<1>8. (Tail(s) = <<>> <=> Len(s) <= 1) /\ 1 \in 1 .. Len(s)
  BY <1>1, <1>3
<1> QED
  BY <1>1, <1>2, <1>4, <1>5, <1>6, <1>7, <1>8

LEMMA StateIs ==
  /\ \A op : State(op).op = op
  /\ Idle.op = "idle" /\ Off.op = "off"
BY DEF State, Idle, Off

\* The empty disk is a disk.
LEMMA InitInv ==
  ASSUME Init
  PROVE  FsInv
<1>1. disk \in Disk
  <2>1. ZeroInode \in Inode /\ ZeroBlock \in Content
    BY Contents
  <2> QED
    BY <2>1 DEF Init, Disk
<1>2. todo \in Seq(Disk) /\ todo = <<>> /\ doing = Off /\ doing.op = "off" /\ ~ disk.magic
  BY StateIs DEF Init
<1>3. fdesc \in Files /\ cwd \in [Proc -> Nat]
      /\ (\A p \in Proc : cwd[p] = 0)
      /\ (\A fd \in Fd : fdesc[fd].inum = 0 /\ ~ fdesc[fd].read /\ ~ fdesc[fd].write)
  BY DEF Init, Files, NoFile
<1>4. Typed
  BY <1>1, <1>2, <1>3 DEF Typed
<1>5. Powered
  BY <1>2, <1>3 DEF Powered
<1>6. Served
  BY <1>2 DEF Served, Mounted
<1>7. Written
  BY <1>2 DEF Written
<1> QED
  BY <1>4, <1>5, <1>6, <1>7 DEF FsInv

\* What a call starts from.
LEMMA InCall ==
  ASSUME FsInv, NEW p \in Proc, Call(p)
  PROVE  /\ todo = <<>> /\ Mounted /\ doing.op = "idle" /\ doing = Idle
         /\ disk \in Disk /\ fdesc \in Files /\ cwd \in [Proc -> Nat]
         /\ Whole(disk)
         /\ \A I : WholeBy(disk, I) => cwd[p] \in I /\ IsDir(disk, cwd[p])
<1>1. doing = Idle /\ doing.op = "idle" /\ cwd[p] # 0
  BY StateIs DEF Call
<1>2. todo = <<>> /\ Mounted
  BY <1>1 DEF FsInv, Powered, Mounted
<1>3. Whole(disk)
  BY <1>1, <1>2, AtIs DEF FsInv, Served
<1>4. disk \in Disk /\ fdesc \in Files /\ cwd \in [Proc -> Nat]
  BY DEF FsInv, Typed
<1>5. \A I : WholeBy(disk, I) => cwd[p] \in I /\ IsDir(disk, cwd[p])
  BY <1>1 DEF WholeBy, Handles
<1> QED
  BY <1>1, <1>2, <1>3, <1>4, <1>5

\* A call that writes whole disks.
LEMMA Starts ==
  ASSUME FsInv, NEW p \in Proc, Call(p), NEW t, AllWhole(t), UNCHANGED memory,
         NEW op, op \notin {"off", "idle", "mkfs", "ln", "fwrite", "fwrite_end"}, Start(op, t)
  PROVE  FsInv'
<1>1. /\ disk' = disk /\ todo' = Tail(t) /\ doing'.op = op /\ cwd' = cwd /\ fdesc' = fdesc
  BY StateIs DEF Start, memory
<1>2. t \in Seq(Disk) /\ t # <<>> /\ \A k \in 1 .. Len(t) : WholeAt(t[k], cwd', fdesc')
  BY <1>1, AtIs DEF AllWhole
<1>3. /\ todo' \in Seq(Disk)
      /\ \A k \in 1 .. Len(todo') : todo'[k] = t[k + 1] /\ k + 1 \in 1 .. Len(t)
      /\ todo' # <<>> => Last(todo') = Last(t)
  BY <1>1, <1>2, TailIs
<1>4. \A k \in 1 .. Len(todo') : WholeAt(todo'[k], cwd', fdesc')
  <2> SUFFICES ASSUME NEW k \in 1 .. Len(todo') PROVE WholeAt(todo'[k], cwd', fdesc')
    OBVIOUS
  <2>1. PICK l \in 1 .. Len(t) : l = k + 1
    BY <1>3
  <2>2. todo'[k] = t[l]
    BY <1>3, <2>1
  <2> QED
    BY <1>2, <2>2
<1>5. WholeAt(Last(t), cwd', fdesc')
  <2>1. Last(t) = t[Len(t)] /\ Len(t) \in 1 .. Len(t)
    BY <1>2, LastIn
  <2> QED
    BY <1>2, <2>1
<1>6. WholeAt(disk', cwd', fdesc')
  BY <1>1, InCall, AtIs
<1>7. Typed'
  BY <1>1, <1>3 DEF FsInv, Typed
<1>8. Powered'
  BY <1>1 DEF Powered
<1>9. Served'
  BY <1>3, <1>4, <1>5, <1>6, AtIs DEF Served
<1>10. Written'
  BY <1>1 DEF Written
<1> QED
  BY <1>7, <1>8, <1>9, <1>10 DEF FsInv

\* A call that only changes memory.
LEMMA Silents ==
  ASSUME FsInv, NEW p \in Proc, Call(p), Silent,
         cwd' \in [Proc -> Nat], fdesc' \in Files, WholeAt(disk, cwd', fdesc'),
         \A fd \in Fd : fdesc'[fd].read \/ fdesc'[fd].write => fdesc'[fd].inum # 0
  PROVE  FsInv'
<1>1. /\ disk' = disk /\ todo' = todo /\ doing' = doing
      /\ todo = <<>> /\ doing.op = "idle" /\ Len(todo) = 0
  BY InCall DEF Silent
<1>2. Typed'
  BY <1>1 DEF FsInv, Typed
<1>3. Powered'
  BY <1>1 DEF Powered
<1>4. Served'
  BY <1>1, AtIs DEF Served
<1>5. Written'
  BY <1>1 DEF Written
<1> QED
  BY <1>2, <1>3, <1>4, <1>5 DEF FsInv

-----------------------------------------------------------------------------
(* The calls keep the invariant *)

\* The uses that the code handles, and the calls that a power failure spares:
\* mkfs, and ln, which writes the name before the count.
Careful == Unsafe = {} /\ "mkfs" \notin CrashIn /\ "ln" \notin CrashIn

LEMMA NamesAre2 ==
  Names \subseteq Path /\ \A n \in Names : n \notin {".", ".."}
BY FsAssumption DEF Path

LEMMA TouchOf ==
  ASSUME FsInv, NEW p \in Proc, NEW n \in Names, do_touch(p, n)
  PROVE  \E t : AllWhole(t) /\ Runs(disk, t) /\ Start("touch", t) /\ UNCHANGED memory
<1> DEFINE t == touch(<<disk>>, cwd[p], n)
<1>1. /\ Call(p) /\ parse_path(disk, cwd[p], n) = 0 /\ Start("touch", t) /\ UNCHANGED memory
      /\ ~ 0 .. (IWORDS * W - 1) \subseteq disk.imap /\ Len(Dentries(disk, cwd[p])) < NDENTRIES
  BY DEF do_touch, InodeLeft, Room
<1>2. PICK I : WholeBy(disk, I)
  BY <1>1, InCall DEF Whole
<1>3. cwd[p] \in I /\ IsDir(disk, cwd[p]) /\ n \in Path /\ n \notin {".", ".."}
  BY <1>1, <1>2, InCall, NamesAre2
<1>4. Fits(disk, cwd[p], n)
  BY <1>1, <1>2, <1>3, NotFound DEF WholeBy
<1>5. AllWhole(t) /\ Runs(disk, t)
  BY <1>1, <1>2, <1>3, <1>4, TouchWhole
<1> HIDE DEF t
<1> QED
  BY <1>1, <1>5

LEMMA DoTouch ==
  ASSUME FsInv, NEW p \in Proc, NEW n \in Names, do_touch(p, n)
  PROVE  FsInv'
<1>1. Call(p)
  BY DEF do_touch
<1> QED
  BY <1>1, TouchOf, Starts

LEMMA MkdirOf ==
  ASSUME FsInv, NEW p \in Proc, NEW n \in Names, do_mkdir(p, n)
  PROVE  \E t : AllWhole(t) /\ Runs(disk, t) /\ Start("mkdir", t) /\ UNCHANGED memory
<1> DEFINE t == mkdir(<<disk>>, cwd[p], n)
<1>1. /\ Call(p) /\ parse_path(disk, cwd[p], n) = 0 /\ Start("mkdir", t) /\ UNCHANGED memory
      /\ ~ 0 .. (IWORDS * W - 1) \subseteq disk.imap /\ ~ 0 .. (BWORDS * W - 1) \subseteq disk.bmap
      /\ Len(Dentries(disk, cwd[p])) < NDENTRIES
  BY DEF do_mkdir, InodeLeft, BlockLeft, Room
<1>2. PICK I : WholeBy(disk, I)
  BY <1>1, InCall DEF Whole
<1>3. cwd[p] \in I /\ IsDir(disk, cwd[p]) /\ n \in Path /\ n \notin {".", ".."}
  BY <1>1, <1>2, InCall, NamesAre2
<1>4. Fits(disk, cwd[p], n)
  BY <1>1, <1>2, <1>3, NotFound DEF WholeBy
<1>5. AllWhole(t) /\ Runs(disk, t)
  BY <1>1, <1>2, <1>3, <1>4, MkdirWhole
<1> HIDE DEF t
<1> QED
  BY <1>1, <1>5

LEMMA DoMkdir ==
  ASSUME FsInv, NEW p \in Proc, NEW n \in Names, do_mkdir(p, n)
  PROVE  FsInv'
<1>1. Call(p)
  BY DEF do_mkdir
<1> QED
  BY <1>1, MkdirOf, Starts

LEMMA RmOf ==
  ASSUME FsInv, Careful, NEW p \in Proc, NEW n \in Targets, do_rm(p, n)
  PROVE  \E t : AllWhole(t) /\ Runs(disk, t) /\ Start("rm", t) /\ UNCHANGED memory
<1> DEFINE t == rm(<<disk>>, cwd[p], n)
           x == parse_path(disk, cwd[p], n)
<1>1. /\ Call(p) /\ x # 0 /\ IsFile(disk, x) /\ Start("rm", t) /\ UNCHANGED memory
      /\ \A fd \in Fd : fdesc[fd].inum # x
  BY DEF do_rm, IsFile, IsOpen, Careful
<1>2. PICK I : WholeBy(disk, I)
  BY <1>1, InCall DEF Whole
<1>3. cwd[p] \in I /\ IsDir(disk, cwd[p])
  BY <1>1, <1>2, InCall
<1>4. AllWhole(t) /\ Runs(disk, t)
  BY <1>1, <1>2, <1>3, RmWhole
<1> HIDE DEF t
<1> QED
  BY <1>1, <1>4

LEMMA DoRm ==
  ASSUME FsInv, Careful, NEW p \in Proc, NEW n \in Targets, do_rm(p, n)
  PROVE  FsInv'
<1>1. Call(p)
  BY DEF do_rm
<1> QED
  BY <1>1, RmOf, Starts

LEMMA RmdirOf ==
  ASSUME FsInv, Careful, NEW p \in Proc, NEW n \in Targets, do_rmdir(p, n)
  PROVE  \E t : AllWhole(t) /\ Runs(disk, t) /\ Start("rmdir", t) /\ UNCHANGED memory
<1> DEFINE t == rmdir(<<disk>>, cwd[p], n)
           x == parse_path(disk, cwd[p], n)
<1>1. /\ Call(p) /\ x # 0 /\ ~ IsFile(disk, x) /\ Start("rmdir", t) /\ UNCHANGED memory
      /\ n \notin {".", ".."}
      /\ \A j \in DOMAIN Dentries(disk, x) :
           Dentries(disk, x)[j].valid => Dentries(disk, x)[j].name \in {".", ".."}
      /\ \A q \in Proc : cwd[q] # x
  BY DEF do_rmdir, IsFile, Careful
<1>2. PICK I : WholeBy(disk, I)
  BY <1>1, InCall DEF Whole
<1>3. cwd[p] \in I /\ IsDir(disk, cwd[p])
  BY <1>1, <1>2, InCall
<1>4. AllWhole(t) /\ Runs(disk, t)
  BY <1>1, <1>2, <1>3, RmdirWhole
<1> HIDE DEF t
<1> QED
  BY <1>1, <1>4

LEMMA DoRmdir ==
  ASSUME FsInv, Careful, NEW p \in Proc, NEW n \in Targets, do_rmdir(p, n)
  PROVE  FsInv'
<1>1. Call(p)
  BY DEF do_rmdir
<1> QED
  BY <1>1, RmdirOf, Starts

\* Between its two writes ln has a name too many.
LEMMA LnOf ==
  ASSUME FsInv, Careful, NEW p \in Proc, NEW n \in Targets, NEW m \in Names, do_ln(p, n, m)
  PROVE  \E t : AllSound(t) /\ Whole(Last(t)) /\ Runs(disk, t) /\ Start("ln", t) /\ UNCHANGED memory
<1> DEFINE t == ln(<<disk>>, cwd[p], n, m)
           x == parse_path(disk, cwd[p], n)
<1>1. /\ Call(p) /\ x # 0 /\ IsFile(disk, x) /\ Start("ln", t) /\ UNCHANGED memory
      /\ parse_path(disk, cwd[p], m) = 0 /\ Len(Dentries(disk, cwd[p])) < NDENTRIES
  BY DEF do_ln, IsFile, Careful, Room
<1>2. PICK I : WholeBy(disk, I)
  BY <1>1, InCall DEF Whole
<1>3. cwd[p] \in I /\ IsDir(disk, cwd[p]) /\ m \in Path /\ m \notin {".", ".."}
  BY <1>1, <1>2, InCall, NamesAre2
<1>4. Fits(disk, cwd[p], m)
  BY <1>1, <1>2, <1>3, NotFound DEF WholeBy
<1>5. AllSound(t) /\ Whole(Last(t)) /\ Runs(disk, t)
  BY <1>1, <1>2, <1>3, <1>4, LnSound
<1> HIDE DEF t
<1> QED
  BY <1>1, <1>5

LEMMA DoLn ==
  ASSUME FsInv, Careful, NEW p \in Proc, NEW n \in Targets, NEW m \in Names, do_ln(p, n, m)
  PROVE  FsInv'
<1>1. Call(p)
  BY DEF do_ln
<1>5. PICK t : AllSound(t) /\ Whole(Last(t)) /\ Start("ln", t) /\ UNCHANGED memory
  BY LnOf
<1>6. /\ disk' = disk /\ todo' = Tail(t) /\ doing'.op = "ln" /\ cwd' = cwd /\ fdesc' = fdesc
  BY <1>5, StateIs DEF Start, memory
<1>7. t \in Seq(Disk) /\ t # <<>> /\ \A k \in 1 .. Len(t) : SoundAt(t[k], cwd', fdesc')
  BY <1>5, <1>6, AtIs DEF AllSound
<1>8. /\ todo' \in Seq(Disk)
      /\ \A k \in 1 .. Len(todo') : todo'[k] = t[k + 1] /\ k + 1 \in 1 .. Len(t)
      /\ todo' # <<>> => Last(todo') = Last(t)
  BY <1>6, <1>7, TailIs
<1>9. \A k \in 1 .. Len(todo') : SoundAt(todo'[k], cwd', fdesc')
  <2> SUFFICES ASSUME NEW k \in 1 .. Len(todo') PROVE SoundAt(todo'[k], cwd', fdesc')
    OBVIOUS
  <2>1. PICK l \in 1 .. Len(t) : l = k + 1
    BY <1>8
  <2>2. todo'[k] = t[l]
    BY <1>8, <2>1
  <2> QED
    BY <1>7, <2>2
<1>10. WholeAt(Last(t), cwd', fdesc')
  BY <1>5, <1>6, AtIs
<1>11. SoundAt(disk', cwd', fdesc')
  BY <1>1, <1>6, InCall, AtIs
<1>12. Typed'
  BY <1>6, <1>8 DEF FsInv, Typed
<1>13. Powered'
  BY <1>6 DEF Powered
<1>14. Served'
  BY <1>6, <1>8, <1>9, <1>10, <1>11 DEF Served
<1>15. Written'
  BY <1>6 DEF Written
<1> QED
  BY <1>12, <1>13, <1>14, <1>15 DEF FsInv

\* What mkfs leaves, for handles of the root and of the test file.
LEMMA MkfsLater ==
  ASSUME FsInv, Start("mkfs", mkfs(<<disk>>)), cwd' \in [Proc -> Nat], fdesc' = fdesc,
         \A p \in Proc : cwd'[p] \in {0, ROOT_DIR_INUM},
         \A fd \in Fd : fdesc[fd].inum \in {0, TEST_BIG_FILE_INUM}
  PROVE  FsInv'
<1> DEFINE t == mkfs(<<disk>>)
           I == {ROOT_DIR_INUM, TEST_BIG_FILE_INUM}
<1>1. disk' = disk /\ todo' = Tail(t) /\ doing'.op = "mkfs"
  BY StateIs DEF Start
<1>2. disk \in Disk /\ fdesc \in Files
      /\ \A fd \in Fd : fdesc[fd].read \/ fdesc[fd].write => fdesc[fd].inum # 0
  BY DEF FsInv, Typed
<1>3. t \in Seq(Disk) /\ t # <<>> /\ Fresh(Last(t))
  BY <1>2, MkfsFresh
<1> HIDE DEF t
<1>4. Fine(Last(t), I) /\ Linked(Last(t), I)
  BY <1>3, FreshFine
<1>5. Last(t) \in Disk /\ IsDir(Last(t), ROOT_DIR_INUM) /\ IsFile(Last(t), TEST_BIG_FILE_INUM)
  BY <1>3 DEF Fresh
<1>6. HandlesAt(Last(t), I, cwd', fdesc')
  BY <1>5 DEF HandlesAt
<1>7. WholeAt(Last(t), cwd', fdesc')
  BY <1>4, <1>5, <1>6 DEF WholeAt
<1>8. todo' \in Seq(Disk) /\ (todo' # <<>> => Last(todo') = Last(t))
  BY <1>1, <1>3, TailIs
<1>9. Typed'
  BY <1>1, <1>2, <1>8 DEF Typed
<1>10. Powered'
  BY <1>1 DEF Powered
<1>11. Served'
  BY <1>1, <1>7, <1>8 DEF Served, Mounted
<1>12. Written'
  BY <1>1 DEF Written
<1> QED
  BY <1>9, <1>10, <1>11, <1>12 DEF FsInv

LEMMA DoMkfs ==
  ASSUME FsInv, Careful, NEW p \in Proc, do_mkfs(p)
  PROVE  FsInv'
<1>1. /\ Call(p) /\ Len(Dentries(disk, ROOT_DIR_INUM)) = 3
      /\ Start("mkfs", mkfs(<<disk>>))
      /\ cwd' = [cwd EXCEPT ![p] = ROOT_DIR_INUM] /\ fdesc' = fdesc
  BY DEF do_mkfs, Careful
<1>2. disk \in Disk /\ cwd \in [Proc -> Nat] /\ fdesc \in Files
  BY <1>1, InCall
<1>3. PICK I : WholeBy(disk, I)
  BY <1>1, InCall DEF Whole
<1>4. \A i \in I : (IsDir(disk, i) => i = ROOT_DIR_INUM) /\ (IsFile(disk, i) => i = TEST_BIG_FILE_INUM)
  BY <1>1, <1>2, <1>3, OneFile DEF WholeBy
<1>5. \A q \in Proc : cwd[q] \in {0, ROOT_DIR_INUM}
  BY <1>3, <1>4 DEF WholeBy, Handles
<1>6. \A fd \in Fd : fdesc[fd].inum \in {0, TEST_BIG_FILE_INUM}
  BY <1>3, <1>4 DEF WholeBy, Handles
<1>7. cwd' \in [Proc -> Nat] /\ \A q \in Proc : cwd'[q] \in {0, ROOT_DIR_INUM}
  BY <1>1, <1>2, <1>5 DEF ROOT_DIR_INUM
<1> QED
  BY <1>1, <1>6, <1>7, MkfsLater

LEMMA DoCd ==
  ASSUME FsInv, NEW p \in Proc, NEW n \in Targets, do_cd(p, n)
  PROVE  FsInv'
<1> DEFINE i == parse_path(disk, cwd[p], n)
<1>1. /\ Call(p) /\ i # 0 /\ ~ IsFile(disk, i)
      /\ cwd' = [cwd EXCEPT ![p] = i] /\ Silent /\ fdesc' = fdesc
  BY DEF do_cd, IsFile
<1>2. disk \in Disk /\ cwd \in [Proc -> Nat] /\ fdesc \in Files
  BY <1>1, InCall
<1>3. PICK I : WholeBy(disk, I)
  BY <1>1, InCall DEF Whole
<1>4. cwd[p] \in I /\ IsDir(disk, cwd[p])
  BY <1>1, <1>3, InCall
<1>5. i \in I
  BY <1>1, <1>2, <1>3, <1>4, Found DEF WholeBy
<1> HIDE DEF i
<1>6. i \in Nat /\ IsDir(disk, i)
  <2>1. i \in Inum
    BY <1>3, <1>5, FineOf DEF WholeBy
  <2> QED
    BY <1>1, <1>3, <1>5, <2>1 DEF WholeBy, Fine, Kinds, Inum
<1>7. cwd' \in [Proc -> Nat] /\ \A q \in Proc : cwd'[q] = IF q = p THEN i ELSE cwd[q]
  BY <1>1, <1>2, <1>6
<1>8. HandlesAt(disk, I, cwd', fdesc')
  BY <1>1, <1>3, <1>5, <1>6, <1>7 DEF WholeBy, Handles, HandlesAt
<1>9. WholeAt(disk, cwd', fdesc')
  BY <1>2, <1>3, <1>8 DEF WholeBy, WholeAt
<1>10. fdesc' \in Files /\ \A fd \in Fd : fdesc'[fd].read \/ fdesc'[fd].write => fdesc'[fd].inum # 0
  BY <1>1 DEF FsInv, Typed
<1> QED
  BY <1>1, <1>7, <1>9, <1>10, Silents

\* A descriptor changes, to one that leads where it led or nowhere, or to a
\* file in use.
LEMMA OneFd ==
  ASSUME FsInv, NEW p \in Proc, Call(p), Silent, cwd' = cwd,
         NEW fd \in Fd, NEW v \in [inum : Nat, read : BOOLEAN, write : BOOLEAN, offset : Nat],
         fdesc' = [fdesc EXCEPT ![fd] = v],
         v.read \/ v.write => v.inum # 0,
         \A I : WholeBy(disk, I) => v.inum = 0 \/ (v.inum \in I /\ IsFile(disk, v.inum))
  PROVE  FsInv'
<1>1. disk \in Disk /\ cwd \in [Proc -> Nat] /\ fdesc \in Files
  BY InCall
<1>2. PICK I : WholeBy(disk, I)
  BY InCall DEF Whole
<1>3. fdesc' \in Files /\ \A e \in Fd : fdesc'[e] = IF e = fd THEN v ELSE fdesc[e]
  BY <1>1 DEF Files
<1>4. HandlesAt(disk, I, cwd', fdesc')
  BY <1>2, <1>3 DEF WholeBy, Handles, HandlesAt
<1>5. WholeAt(disk, cwd', fdesc')
  BY <1>1, <1>2, <1>4 DEF WholeBy, WholeAt
<1>6. \A e \in Fd : fdesc'[e].read \/ fdesc'[e].write => fdesc'[e].inum # 0
  BY <1>3 DEF FsInv, Typed
<1> QED
  BY <1>1, <1>3, <1>5, <1>6, Silents

LEMMA DoFopen ==
  ASSUME FsInv, Careful, NEW p \in Proc, NEW n \in Targets, NEW mode \in Modes, do_fopen(p, n, mode)
  PROVE  FsInv'
<1> DEFINE i == parse_path(disk, cwd[p], n)
           r == mode \in {"O_RDONLY", "O_RDWR"}
           w == mode \in {"O_WRONLY", "O_RDWR"}
<1>1. PICK fd \in Fd :
        /\ Call(p) /\ i # 0 /\ IsFile(disk, i)
        /\ fdesc' = [fdesc EXCEPT ![fd].inum = i, ![fd].read = r, ![fd].write = w]
        /\ Silent /\ cwd' = cwd
  BY DEF do_fopen, IsFile, Careful
<1>2. disk \in Disk /\ cwd \in [Proc -> Nat] /\ fdesc \in Files
  BY <1>1, InCall
<1>3. \A I : WholeBy(disk, I) => i \in I /\ i \in Nat
  <2> SUFFICES ASSUME NEW I, WholeBy(disk, I) PROVE i \in I /\ i \in Nat
    OBVIOUS
  <2>1. cwd[p] \in I /\ IsDir(disk, cwd[p])
    BY <1>1, InCall
  <2>2. i \in I
    BY <1>1, <1>2, <2>1, Found DEF WholeBy
  <2> HIDE DEF i
  <2>3. i \in Inum
    BY <2>2, FineOf DEF WholeBy
  <2> QED
    BY <2>2, <2>3 DEF Inum
<1>4. i \in Nat
  BY <1>1, <1>3, InCall DEF Whole
<1> DEFINE g == fdesc[fd]
           v == [g EXCEPT !.inum = i, !.read = r, !.write = w]
<1> HIDE DEF i
<1>5. r \in BOOLEAN /\ w \in BOOLEAN
  OBVIOUS
<1> HIDE DEF r, w
<1>6. fdesc[fd] \in [inum : Nat, read : BOOLEAN, write : BOOLEAN, offset : Nat]
  BY <1>2 DEF Files
<1>7. v \in [inum : Nat, read : BOOLEAN, write : BOOLEAN, offset : Nat] /\ v.inum = i
  BY <1>4, <1>5, <1>6
<1>8. fdesc' = [fdesc EXCEPT ![fd] = v]
  <2> HIDE DEF v
  <2>1. [fdesc EXCEPT ![fd].inum = i, ![fd].read = r, ![fd].write = w] = [fdesc EXCEPT ![fd] = v]
    BY <1>2 DEF Files, v
  <2> QED
    BY <1>1, <2>1
<1> HIDE DEF v
<1> QED
  BY <1>1, <1>3, <1>7, <1>8, OneFd

LEMMA DoFclose ==
  ASSUME FsInv, NEW p \in Proc, NEW fd \in Fd, do_fclose(p, fd)
  PROVE  FsInv'
<1>1. Call(p) /\ fdesc' = [fdesc EXCEPT ![fd] = NoFile] /\ Silent /\ cwd' = cwd
  BY DEF do_fclose
<1>2. /\ NoFile \in [inum : Nat, read : BOOLEAN, write : BOOLEAN, offset : Nat]
      /\ NoFile.inum = 0 /\ ~ NoFile.read /\ ~ NoFile.write
  BY DEF NoFile
<1> QED
  BY <1>1, <1>2, OneFd

\* The offset of a descriptor that is open changes.
LEMMA OneOffset ==
  ASSUME FsInv, NEW p \in Proc, Call(p), Silent, cwd' = cwd,
         NEW fd \in Fd, NEW o \in Nat, fdesc' = [fdesc EXCEPT ![fd].offset = o]
  PROVE  FsInv'
<1>1. fdesc \in Files /\ (fdesc[fd].read \/ fdesc[fd].write => fdesc[fd].inum # 0)
  BY DEF FsInv, Typed
<1> DEFINE v == [fdesc[fd] EXCEPT !.offset = o]
<1>2. v \in [inum : Nat, read : BOOLEAN, write : BOOLEAN, offset : Nat]
      /\ v.inum = fdesc[fd].inum /\ v.read = fdesc[fd].read /\ v.write = fdesc[fd].write
  BY <1>1 DEF Files
<1>3. fdesc' = [fdesc EXCEPT ![fd] = v]
  OBVIOUS
<1> HIDE DEF v
<1>4. \A I : WholeBy(disk, I) => v.inum = 0 \/ (v.inum \in I /\ IsFile(disk, v.inum))
  BY <1>2 DEF WholeBy, Handles
<1>5. v.read \/ v.write => v.inum # 0
  BY <1>1, <1>2
<1> QED
  BY <1>2, <1>3, <1>4, <1>5, OneFd

LEMMA DoLseek ==
  ASSUME FsInv, NEW p \in Proc, NEW fd \in Fd, NEW offset \in Offsets,
         NEW whence \in {"SEEK_SET", "SEEK_CUR", "SEEK_END"}, do_lseek(p, fd, offset, whence)
  PROVE  FsInv'
<1> DEFINE size == disk.inodes[fdesc[fd].inum].size
           cur == fdesc[fd].offset
           o == Seek(whence, offset, cur, size)
<1>1. /\ Call(p) /\ fdesc[fd].inum # 0 /\ Silent /\ cwd' = cwd
      /\ fdesc' = [fdesc EXCEPT ![fd].offset = o]
  BY DEF do_lseek
<1>2. cur \in Nat /\ offset \in Int
  BY <1>1, InCall, FsAssumption DEF Files
<1>3. size \in Nat
  <2>1. PICK I : WholeBy(disk, I)
    BY <1>1, InCall DEF Whole
  <2>2. fdesc[fd].inum \in Inum
    BY <1>1, <2>1, FineOf DEF WholeBy, Handles
  <2> QED
    BY <1>1, <2>2, InCall DEF Disk, Inode
<1> HIDE DEF cur, size
<1>4. o \in Nat
  <2>1. CASE whence = "SEEK_SET"
    BY <1>2, <1>3, <2>1 DEF Seek
  <2>2. CASE whence = "SEEK_CUR"
    BY <1>2, <1>3, <2>2 DEF Seek
  <2>3. CASE whence = "SEEK_END"
    BY <1>2, <1>3, <2>3 DEF Seek
  <2> QED
    BY <2>1, <2>2, <2>3
<1> HIDE DEF o
<1> QED
  BY <1>1, <1>4, OneOffset

\* A set of numbers with a bound has a greatest one.
LEMMA GreatestOf ==
  ASSUME NEW n \in Nat, NEW S, S \subseteq 0 .. n, S # {}
  PROVE  Max(S) \in S
<1> DEFINE T == {m \in Nat : \A y \in S : m >= y}
<1>1. T \subseteq Nat /\ T # {}
  <2>1. n \in T
    OBVIOUS
  <2> QED
    BY <2>1
<1>2. PICK x \in T : \A y \in T : x <= y
  BY <1>1, LeastOf
<1>3. x \in S
  <2> SUFFICES ASSUME x \notin S PROVE FALSE
    OBVIOUS
  <2>1. x \in Nat /\ \A y \in S : y \in Nat /\ x > y
    OBVIOUS
  <2>2. x - 1 \in Nat
    <3>1. PICK y \in S : TRUE
      OBVIOUS
    <3> QED
      BY <2>1, <3>1
  <2>3. x - 1 \in T
    BY <2>1, <2>2
  <2> QED
    BY <1>2, <2>1, <2>3
<1>4. \A y \in S : x >= y
  OBVIOUS
<1> QED
  BY <1>3, <1>4 DEF Max

LEMMA DoFread ==
  ASSUME FsInv, NEW p \in Proc, NEW fd \in Fd, NEW length \in Lengths, do_fread(p, fd, length)
  PROVE  FsInv'
<1> DEFINE off == fdesc[fd].offset
           S == fread(disk, fdesc[fd].inum, off, length)
           o == off + Max(S)
<1>1. /\ Call(p) /\ Silent /\ cwd' = cwd
      /\ fdesc' = [fdesc EXCEPT ![fd].offset = o]
  BY DEF do_fread
<1>2. off \in Nat /\ length \in Nat
  BY <1>1, InCall, FsAssumption DEF Files
<1> HIDE DEF off
<1>3. S \subseteq 0 .. length /\ 0 \in S
  <2>1. 0 \in 0 .. length /\ off .. (off + 0 - 1) = {}
    BY <1>2
  <2> QED
    BY <2>1 DEF fread
<1>4. Max(S) \in 0 .. length
  <2> HIDE DEF S
  <2> QED
    BY <1>2, <1>3, GreatestOf
<1>5. o \in Nat
  <2> HIDE DEF S
  <2> QED
    BY <1>2, <1>4
<1> HIDE DEF o
<1> QED
  BY <1>1, <1>5, OneOffset

LEMMA DoExec ==
  ASSUME FsInv, NEW p \in Proc, NEW q \in Proc, do_exec(p, q)
  PROVE  FsInv'
<1>1. Call(p) /\ cwd' = [cwd EXCEPT ![q] = cwd[p]] /\ Silent /\ fdesc' = fdesc
  BY DEF do_exec
<1>2. disk \in Disk /\ cwd \in [Proc -> Nat] /\ fdesc \in Files
  BY <1>1, InCall
<1>3. PICK I : WholeBy(disk, I)
  BY <1>1, InCall DEF Whole
<1>4. cwd' \in [Proc -> Nat] /\ \A x \in Proc : cwd'[x] = IF x = q THEN cwd[p] ELSE cwd[x]
  BY <1>1, <1>2
<1>5. WholeAt(disk, cwd', fdesc')
  BY <1>1, <1>2, <1>3, <1>4 DEF WholeBy, Handles, HandlesAt, WholeAt
<1>6. fdesc' \in Files /\ \A fd \in Fd : fdesc'[fd].read \/ fdesc'[fd].write => fdesc'[fd].inum # 0
  BY <1>1 DEF FsInv, Typed
<1> QED
  BY <1>1, <1>4, <1>5, <1>6, Silents

LEMMA DoExit ==
  ASSUME FsInv, NEW p \in Proc, do_exit(p)
  PROVE  FsInv'
<1>1. Call(p) /\ cwd' = [cwd EXCEPT ![p] = 0] /\ Silent /\ fdesc' = fdesc
  BY DEF do_exit
<1>2. disk \in Disk /\ cwd \in [Proc -> Nat] /\ fdesc \in Files
  BY <1>1, InCall
<1>3. PICK I : WholeBy(disk, I)
  BY <1>1, InCall DEF Whole
<1>4. cwd' \in [Proc -> Nat] /\ \A x \in Proc : cwd'[x] = IF x = p THEN 0 ELSE cwd[x]
  BY <1>1, <1>2
<1>5. WholeAt(disk, cwd', fdesc')
  BY <1>1, <1>2, <1>3, <1>4 DEF WholeBy, Handles, HandlesAt, WholeAt
<1>6. fdesc' \in Files /\ \A fd \in Fd : fdesc'[fd].read \/ fdesc'[fd].write => fdesc'[fd].inum # 0
  BY <1>1 DEF FsInv, Typed
<1> QED
  BY <1>1, <1>4, <1>5, <1>6, Silents

LEMMA DoWrite ==
  ASSUME FsInv, bios_sdwrite
  PROVE  FsInv'
<1>1. /\ todo # <<>> /\ disk' = Head(todo) /\ todo' = Tail(todo)
      /\ doing' = IF Len(todo) > 1 \/ doing.op = "fwrite" THEN doing ELSE Idle
      /\ cwd' = cwd /\ fdesc' = fdesc
  BY DEF bios_sdwrite, memory
<1>2. doing.op # "off" /\ doing.op # "idle"
  BY <1>1 DEF FsInv, Powered
<1>3. todo \in Seq(Disk)
  BY DEF FsInv, Typed
<1>4. /\ todo' \in Seq(Disk) /\ disk' \in Disk /\ disk' = todo[1] /\ 1 \in 1 .. Len(todo)
      /\ \A k \in 1 .. Len(todo') : todo'[k] = todo[k + 1] /\ k + 1 \in 1 .. Len(todo)
      /\ todo' # <<>> => Last(todo') = Last(todo)
      /\ todo' = <<>> => disk' = Last(todo)
      /\ todo' = <<>> <=> Len(todo) <= 1
  BY <1>1, <1>3, TailIs
<1>5. \A k \in 1 .. Len(todo') : \E l \in 1 .. Len(todo) : todo'[k] = todo[l]
  <2> SUFFICES ASSUME NEW k \in 1 .. Len(todo') PROVE \E l \in 1 .. Len(todo) : todo'[k] = todo[l]
    OBVIOUS
  <2>1. PICK l \in 1 .. Len(todo) : l = k + 1
    BY <1>4
  <2>2. todo'[k] = todo[l]
    BY <1>4, <2>1
  <2> QED
    BY <2>2
<1>6. Len(todo) \in Nat
  BY <1>3
<1>7. Len(todo) > 1 \/ Len(todo) <= 1
  BY <1>6
<1>8. Typed'
  BY <1>1, <1>4 DEF FsInv, Typed
<1>9. doing' = doing \/ (doing' = Idle /\ doing'.op = "idle" /\ todo' = <<>>)
  BY <1>1, <1>4, <1>7, StateIs
<1>10. Powered'
  BY <1>2, <1>9 DEF Powered
<1>11. Served'
  <2>1. todo # <<>> => WholeAt(Last(todo), cwd, fdesc)
    BY DEF FsInv, Served
  <2>2. CASE doing' = doing
    <3>1. Mounted => /\ SoundAt(disk', cwd', fdesc')
                     /\ \A k \in 1 .. Len(todo') : SoundAt(todo'[k], cwd', fdesc')
      BY <1>1, <1>4, <1>5 DEF FsInv, Served
    <3>2. Mounted /\ doing.op # "ln" =>
            /\ WholeAt(disk', cwd', fdesc')
            /\ \A k \in 1 .. Len(todo') : WholeAt(todo'[k], cwd', fdesc')
      BY <1>1, <1>4, <1>5 DEF FsInv, Served
    <3>3. Mounted' <=> Mounted
      BY <2>2 DEF Mounted
    <3> QED
      BY <1>1, <1>4, <2>1, <2>2, <3>1, <3>2, <3>3 DEF Served
  <2>3. CASE doing' = Idle /\ doing'.op = "idle" /\ todo' = <<>>
    <3>1. WholeAt(disk', cwd', fdesc') /\ SoundAt(disk', cwd', fdesc')
      BY <1>1, <1>4, <2>1, <2>3, AtIs
    <3>2. Len(todo') = 0
      BY <2>3
    <3> QED
      BY <2>3, <3>1, <3>2 DEF Served
  <2> QED
    BY <1>9, <2>2, <2>3
<1>12. Written'
  <2>1. CASE doing' = doing
    <3>1. File' = File
      BY <1>1, <2>1 DEF File
    <3>2. Later' = Later
      BY <1>1, <1>4 DEF Later
    <3>3. doing.op = "fwrite_end" =>
            /\ Stored(disk', File, doing.off, doing.buf)
            /\ \A k \in 1 .. Len(todo') : Stored(todo'[k], File, doing.off, doing.buf)
      BY <1>4, <1>5 DEF FsInv, Written
    <3> QED
      BY <1>1, <2>1, <3>1, <3>2, <3>3 DEF FsInv, Written
  <2>2. CASE doing'.op = "idle"
    BY <2>2 DEF Written
  <2> QED
    BY <1>9, <2>1, <2>2
<1> QED
  BY <1>8, <1>10, <1>11, <1>12 DEF FsInv

\* The power fails: the disk is a file system, or not one yet.
LEMMA DoPowerFail ==
  ASSUME FsInv, Careful, PowerFail
  PROVE  FsInv'
<1>1. /\ doing.op # "mkfs" /\ doing.op # "ln"
      /\ doing' = Off /\ doing'.op = "off" /\ todo' = <<>> /\ disk' = disk
      /\ fdesc' = [fd \in Fd |-> NoFile] /\ cwd' = [p \in Proc |-> 0]
  BY StateIs DEF PowerFail, Careful
<1>2. disk.magic => Made0(disk)
  <2>1. CASE doing.op = "off"
    BY <2>1 DEF FsInv, Powered
  <2>2. CASE doing.op # "off"
    BY <1>1, <2>2 DEF FsInv, Served, Mounted, WholeAt, Made0
  <2> QED
    BY <2>1, <2>2
<1>3. /\ NoFile \in [inum : Nat, read : BOOLEAN, write : BOOLEAN, offset : Nat]
      /\ NoFile.inum = 0 /\ ~ NoFile.read /\ ~ NoFile.write
  BY DEF NoFile
<1>4. /\ fdesc' \in Files /\ cwd' \in [Proc -> Nat] /\ \A p \in Proc : cwd'[p] = 0
      /\ \A fd \in Fd : fdesc'[fd].inum = 0 /\ ~ fdesc'[fd].read /\ ~ fdesc'[fd].write
  BY <1>1, <1>3 DEF Files
<1>5. disk \in Disk
  BY DEF FsInv, Typed
<1>6. Typed'
  BY <1>1, <1>4, <1>5 DEF Typed
<1>7. Powered'
  BY <1>1, <1>2, <1>4 DEF Powered
<1>8. Served'
  BY <1>1 DEF Served, Mounted
<1>9. Written'
  BY <1>1 DEF Written
<1> QED
  BY <1>6, <1>7, <1>8, <1>9 DEF FsInv

LEMMA DoInit ==
  ASSUME FsInv, init_superblock
  PROVE  FsInv'
<1>1. /\ doing = Off /\ doing.op = "off" /\ fdesc' = fdesc
      /\ cwd' = [cwd EXCEPT ![Task0] = ROOT_DIR_INUM]
      /\ \/ disk.magic /\ doing' = Idle /\ disk' = disk /\ todo' = todo
         \/ Start("mkfs", mkfs(<<disk>>))
  BY StateIs DEF init_superblock
<1>2. /\ todo = <<>> /\ \A p \in Proc : cwd[p] = 0
      /\ \A fd \in Fd : fdesc[fd].inum = 0
      /\ disk.magic => Made0(disk)
  BY <1>1 DEF FsInv, Powered
<1>3. disk \in Disk /\ cwd \in [Proc -> Nat] /\ fdesc \in Files
      /\ \A fd \in Fd : fdesc[fd].read \/ fdesc[fd].write => fdesc[fd].inum # 0
  BY DEF FsInv, Typed
<1>4. cwd' \in [Proc -> Nat] /\ \A p \in Proc : cwd'[p] \in {0, ROOT_DIR_INUM}
  BY <1>1, <1>2, <1>3 DEF ROOT_DIR_INUM
<1>5. CASE Start("mkfs", mkfs(<<disk>>))
  BY <1>1, <1>2, <1>4, <1>5, MkfsLater
<1>6. CASE disk.magic /\ doing' = Idle /\ disk' = disk /\ todo' = todo
  <2>1. doing'.op = "idle" /\ todo' = <<>> /\ Len(todo') = 0
    BY <1>2, <1>6, StateIs
  <2>2. PICK I : Fine(disk, I) /\ Linked(disk, I)
    BY <1>2, <1>6 DEF Made0
  <2>3. ROOT_DIR_INUM \in I /\ IsDir(disk, ROOT_DIR_INUM)
    BY <2>2, FineOf DEF Fine, Kinds
  <2>4. HandlesAt(disk, I, cwd', fdesc')
    BY <1>1, <1>2, <1>4, <2>3 DEF HandlesAt
  <2>5. WholeAt(disk', cwd', fdesc') /\ SoundAt(disk', cwd', fdesc')
    BY <1>3, <1>6, <2>2, <2>4, AtIs DEF WholeAt
  <2>6. Typed'
    BY <1>1, <1>3, <1>4, <1>6, <2>1 DEF Typed
  <2>7. Powered'
    BY <2>1 DEF Powered
  <2>8. Served'
    BY <2>1, <2>5 DEF Served
  <2>9. Written'
    BY <2>1 DEF Written
  <2> QED
    BY <2>6, <2>7, <2>8, <2>9 DEF FsInv
<1> QED
  BY <1>1, <1>5, <1>6

-----------------------------------------------------------------------------
(* fwrite keeps the invariant *)

\* The block of the file in which a byte lies, and its place there.
Row(o) == o \div NBYTES_PER_BLOCK
Cell(o) == o % NBYTES_PER_BLOCK

\* n bytes that lie in one of the direct blocks.
Piece(off, n) ==
  /\ off \in Nat /\ n \in Nat \ {0}
  /\ PieceLen(off, n) = n /\ off + n <= NDIRECT_BLOCKS * NBYTES_PER_BLOCK

LEMMA PieceAt ==
  ASSUME NEW off, NEW n, Piece(off, n)
  PROVE  /\ Row(off) \in Nat /\ Row(off) + 1 \in Direct /\ Cell(off) \in Nat
         /\ Cell(off) + n <= NBYTES_PER_BLOCK
         /\ \A j \in 1 .. n : Row(off + j - 1) = Row(off) /\ Cell(off + j - 1) = Cell(off) + (j - 1)
<1> DEFINE N == NBYTES_PER_BLOCK
           r == Row(off)
           c == Cell(off)
<1>1. N \in Nat \ {0} /\ NDIRECT_BLOCKS \in Nat \ {0} /\ off \in Nat /\ n \in Nat \ {0}
  BY FsAssumption DEF Piece
<1>2. /\ \A b \in Nat : /\ Row(b) \in Nat /\ Cell(b) \in 0 .. (N - 1)
                        /\ b = Row(b) * N + Cell(b)
      /\ \A w \in Nat, k \in 0 .. (N - 1) : Row(w * N + k) = w /\ Cell(w * N + k) = k
  BY <1>1, Division DEF Row, Cell
<1>3. (IF n > N - c THEN N - c ELSE n) = n /\ off + n <= NDIRECT_BLOCKS * N
  BY DEF Piece, PieceLen, Cell
<1> HIDE DEF N
<1>4. r \in Nat /\ c \in 0 .. (N - 1) /\ off = r * N + c
  BY <1>1, <1>2
<1> HIDE DEF r, c
<1>5. c + n <= N
  BY <1>1, <1>3, <1>4
<1>6. r < NDIRECT_BLOCKS
  <2> SUFFICES ASSUME r >= NDIRECT_BLOCKS PROVE FALSE
    BY <1>1, <1>4
  <2> DEFINE a == r * N
             z == NDIRECT_BLOCKS * N
  <2>1. a \in Nat /\ z \in Nat
    BY <1>1, <1>4, Products
  <2>2. NDIRECT_BLOCKS < r => a >= z + N
    BY <1>1, <1>4, Products
  <2>3. NDIRECT_BLOCKS = r => a = z
    OBVIOUS
  <2>4. off = a + c /\ off + n <= z
    BY <1>3, <1>4
  <2> HIDE DEF a, z
  <2> QED
    BY <1>1, <1>4, <2>1, <2>2, <2>3, <2>4
<1>7. ASSUME NEW j \in 1 .. n
      PROVE  Row(off + j - 1) = r /\ Cell(off + j - 1) = c + (j - 1)
  <2>1. PICK k \in 0 .. (N - 1) : k = c + (j - 1)
    BY <1>1, <1>4, <1>5
  <2> DEFINE a == r * N
  <2>2. a \in Nat /\ off = a + c
    BY <1>1, <1>4, Products
  <2>3. Row(a + k) = r /\ Cell(a + k) = k
    BY <1>2, <1>4
  <2> HIDE DEF a
  <2>4. off + j - 1 = a + k
    BY <1>1, <1>4, <2>1, <2>2
  <2> QED
    BY <2>1, <2>3, <2>4
<1> QED
  BY <1>1, <1>4, <1>5, <1>6, <1>7 DEF Direct, N, r, c

LEMMA BlkOf ==
  ASSUME NEW d, NEW o, NEW inode, Row(o) \in Nat, Row(o) < NDIRECT_BLOCKS
  PROVE  offset_to_blk(d, o, inode) = inode.direct[Row(o) + 1]
BY DEF offset_to_blk, Row

\* The bytes of buf are in direct block k of file i, from place `at'.
InBlock(d, i, k, at, buf) ==
  \A j \in 1 .. Len(buf) :
    d.inodes[i].direct[k] # 0 /\ Bytes(d.blocks[d.inodes[i].direct[k]])[at + j] = buf[j]

\* The bytes of a piece, each in the block that will be looked up for it.
LEMMA StoredIs ==
  ASSUME NEW d, NEW i, NEW off, NEW buf \in Seq(Nat), Piece(off, Len(buf))
  PROVE  Stored(d, i, off, buf) <=> InBlock(d, i, Row(off) + 1, Cell(off), buf)
<1> DEFINE k == Row(off) + 1
<1>1. /\ Row(off) \in Nat /\ k \in Direct /\ Cell(off) \in Nat
      /\ \A j \in 1 .. Len(buf) :
           Row(off + j - 1) = Row(off) /\ Cell(off + j - 1) = Cell(off) + (j - 1)
  BY PieceAt
<1>2. DOMAIN buf = 1 .. Len(buf) /\ Len(buf) \in Nat /\ Row(off) < NDIRECT_BLOCKS
  BY <1>1, FsAssumption DEF Direct
<1>3. ASSUME NEW j \in 1 .. Len(buf)
      PROVE  /\ offset_to_blk(d, off + j - 1, d.inodes[i]) = d.inodes[i].direct[k]
             /\ ((off + j - 1) % NBYTES_PER_BLOCK) + 1 = Cell(off) + j
  <2> DEFINE o == off + j - 1
  <2>1. Row(o) = Row(off) /\ Cell(o) = Cell(off) + (j - 1) /\ j \in Nat
    BY <1>1, <1>2
  <2> HIDE DEF o
  <2>2. offset_to_blk(d, o, d.inodes[i]) = d.inodes[i].direct[Row(o) + 1]
    BY <1>1, <1>2, <2>1, BlkOf
  <2>3. Cell(o) + 1 = Cell(off) + j
    BY <1>1, <2>1
  <2>4. offset_to_blk(d, o, d.inodes[i]) = d.inodes[i].direct[k]
    BY <2>1, <2>2
  <2> QED
    BY <2>3, <2>4 DEF Cell, o
<1> HIDE DEF k
<1> QED
  BY <1>2, <1>3 DEF Stored, InBlock, k

\* A piece that is stored has a block.
LEMMA RowStored ==
  ASSUME NEW d, NEW i, NEW off, NEW buf \in Seq(Nat), Piece(off, Len(buf)), Stored(d, i, off, buf)
  PROVE  Row(off) + 1 \in Direct /\ d.inodes[i].direct[Row(off) + 1] # 0
<1>1. 1 \in 1 .. Len(buf)
  BY DEF Piece
<1>2. InBlock(d, i, Row(off) + 1, Cell(off), buf)
  BY StoredIs
<1> QED
  BY <1>1, <1>2, PieceAt DEF InBlock

LEMMA CopiedIn ==
  ASSUME NEW off, NEW buf \in Seq(Nat), Piece(off, Len(buf)),
         NEW bs \in [1 .. NBYTES_PER_BLOCK -> Int]
  PROVE  Copied(bs, Cell(off), buf, Len(buf)) \in [1 .. NBYTES_PER_BLOCK -> Int]
<1> DEFINE at == Cell(off)
           n == Len(buf)
<1>1. at \in Nat /\ n \in Nat /\ at + n <= NBYTES_PER_BLOCK /\ n = Len(buf)
  BY PieceAt
<1> HIDE DEF at, n
<1>2. Copied(bs, at, buf, n) \in [1 .. NBYTES_PER_BLOCK -> Int]
  <2> SUFFICES ASSUME NEW j \in 1 .. NBYTES_PER_BLOCK, j \in (at + 1) .. (at + n)
               PROVE  buf[j - at] \in Int
    BY DEF Copied
  <2>1. PICK l \in 1 .. n : l = j - at
    BY <1>1
  <2>2. buf[l] \in Nat
    BY <1>1, <2>1
  <2> QED
    BY <2>1, <2>2
<1> QED
  BY <1>2 DEF at, n

\* The block that a piece writes: buf is copied into the bytes bs.
Filled(bs, off, buf) == [ZeroBlock EXCEPT !.bytes = Copied(bs, Cell(off), buf, Len(buf))]

LEMMA StoredBy ==
  ASSUME NEW d, NEW i, NEW off, NEW buf \in Seq(Nat), Piece(off, Len(buf)),
         NEW b, Points(d, i, Row(off) + 1, b),
         NEW bs \in [1 .. NBYTES_PER_BLOCK -> Int],
         d.blocks[b] = Filled(bs, off, buf)
  PROVE  Stored(d, i, off, buf)
<1> DEFINE n == Len(buf)
           at == Cell(off)
           k == Row(off) + 1
           new == Copied(bs, at, buf, n)
           c == [ZeroBlock EXCEPT !.bytes = new]
<1>1. at \in Nat /\ n \in Nat \ {0} /\ at + n <= NBYTES_PER_BLOCK /\ NBYTES_PER_BLOCK \in Nat
  BY PieceAt, FsAssumption DEF Piece
<1>2. /\ b = d.inodes[i].direct[k] /\ b # 0
      /\ n = Len(buf) /\ at = Cell(off) /\ k = Row(off) + 1
  BY DEF Points
<1>3. d.blocks[b] = c
  BY DEF Filled
<1>4. new \in [1 .. NBYTES_PER_BLOCK -> Int]
  BY CopiedIn
<1> HIDE DEF at, n, k
<1>5. ASSUME NEW j \in 1 .. n PROVE new[at + j] = buf[j]
  <2>1. PICK m \in 1 .. NBYTES_PER_BLOCK : m = at + j /\ m \in (at + 1) .. (at + n) /\ m - at = j
    BY <1>1
  <2>2. DOMAIN bs = 1 .. NBYTES_PER_BLOCK
    OBVIOUS
  <2>3. new[m] = IF m \in (at + 1) .. (at + n) THEN buf[m - at] ELSE bs[m]
    BY <2>1, <2>2 DEF Copied
  <2> HIDE DEF new
  <2> QED
    BY <2>1, <2>3
<1> HIDE DEF new
<1>6. Bytes(c) = new
  BY <1>4, Contents DEF Bytes
<1> HIDE DEF c
<1>7. InBlock(d, i, k, at, buf)
  BY <1>2, <1>3, <1>5, <1>6 DEF InBlock
<1> QED
  BY <1>2, <1>7, StoredIs

LEMMA StoredSame ==
  ASSUME NEW d, NEW e, NEW i, NEW off, NEW buf \in Seq(Nat), Piece(off, Len(buf)),
         Stored(d, i, off, buf), e.inodes[i].direct = d.inodes[i].direct, e.blocks = d.blocks
  PROVE  Stored(e, i, off, buf)
<1>1. InBlock(d, i, Row(off) + 1, Cell(off), buf)
  BY StoredIs
<1>2. InBlock(e, i, Row(off) + 1, Cell(off), buf)
  BY <1>1 DEF InBlock
<1> QED
  BY <1>2, StoredIs

LEMMA BytesIn ==
  ASSUME NEW c \in Content
  PROVE  Bytes(c) \in [1 .. NBYTES_PER_BLOCK -> Int]
<1>1. Junk \in [1 .. NBYTES_PER_BLOCK -> Int]
  BY DEF Junk
<1>2. c.bytes \in [1 .. NBYTES_PER_BLOCK -> Int]
  BY DEF Content
<1> QED
  BY <1>1, <1>2 DEF Bytes

-----------------------------------------------------------------------------

\* A descriptor opened for writing leads to a file.
LEMMA FwriteFile ==
  ASSUME FsInv, Mounted, doing.op # "ln", NEW fd \in Fd, fdesc[fd].inum # 0
  PROVE  \E I : WholeBy(disk, I) /\ fdesc[fd].inum \in I /\ IsFile(disk, fdesc[fd].inum)
               /\ fdesc[fd].inum \in Inum
<1>1. Whole(disk)
  BY AtIs DEF FsInv, Served
<1>2. PICK I : WholeBy(disk, I)
  BY <1>1 DEF Whole
<1>3. fdesc[fd].inum \in I /\ IsFile(disk, fdesc[fd].inum)
  BY <1>2 DEF WholeBy, Handles
<1>4. I \subseteq Inum
  BY <1>2, FineOf DEF WholeBy
<1> QED
  BY <1>2, <1>3, <1>4

LEMMA DoFwrite ==
  ASSUME FsInv, Careful, NEW p \in Proc, NEW fd \in Fd, NEW buf \in Buffers, do_fwrite(p, fd, buf)
  PROVE  FsInv'
<1> DEFINE i == fdesc[fd].inum
           v == disk.inodes[i]
           off == fdesc[fd].offset
           end == off + Len(buf)
           size == IF end > v.size THEN end ELSE v.size
           w == [v EXCEPT !.size = size]
           f == [fdesc[fd] EXCEPT !.offset = end]
<1>1. /\ Call(p) /\ fdesc[fd].write /\ disk' = disk /\ todo' = todo /\ cwd' = cwd
      /\ fdesc' = [fdesc EXCEPT ![fd] = f]
      /\ InReach(off, Len(buf), v)
  BY DEF do_fwrite
<1>2. /\ doing'.op = "fwrite" /\ doing'.fd = fd /\ doing'.off = off /\ doing'.buf = buf
      /\ doing'.done = 0 /\ doing'.inode = w /\ IsCall(doing')
  <2>1. doing' = [op |-> "fwrite", fd |-> fd, off |-> off, buf |-> buf, done |-> 0, inode |-> w]
    BY DEF do_fwrite
  <2> HIDE DEF w, off
  <2> QED
    BY <2>1 DEF IsCall
<1>3. /\ todo = <<>> /\ Mounted /\ doing.op = "idle" /\ disk \in Disk /\ fdesc \in Files
      /\ cwd \in [Proc -> Nat] /\ i # 0
      /\ \A e \in Fd : fdesc[e].read \/ fdesc[e].write => fdesc[e].inum # 0
  BY <1>1, InCall DEF FsInv, Typed
<1>4. PICK I : WholeBy(disk, I) /\ i \in I /\ IsFile(disk, i) /\ i \in Inum
  BY <1>3, FwriteFile
<1>5. v \in Inode /\ v.type = "FILE"
  BY <1>3, <1>4 DEF Disk, IsFile
<1>6. buf \in Seq(Nat) /\ buf # <<>> /\ Len(buf) \in Nat \ {0}
  BY FsAssumption
<1>7. off \in Nat /\ end \in Nat
  BY <1>3, <1>6 DEF Files
<1>8. w \in Inode /\ w.type = "FILE" /\ w.ref = v.ref /\ w.direct = v.direct /\ w.size >= v.size
  <2>1. v.size \in Nat
    BY <1>5 DEF Inode
  <2> HIDE DEF v, end
  <2>2. size \in Nat /\ size >= v.size
    BY <1>7, <2>1
  <2> HIDE DEF size
  <2> QED
    BY <1>5, <2>2 DEF Inode
<1>9. PieceLen(off, Len(buf)) = Len(buf) /\ off + Len(buf) <= NDIRECT_BLOCKS * NBYTES_PER_BLOCK
  BY <1>1 DEF InReach, Careful
<1>10. f \in [inum : Nat, read : BOOLEAN, write : BOOLEAN, offset : Nat]
       /\ f.inum = i /\ f.read = fdesc[fd].read /\ f.write = fdesc[fd].write
  <2> HIDE DEF end
  <2> QED
    BY <1>3, <1>7 DEF Files
<1> HIDE DEF f, w, v, end
<1>11. fdesc' \in Files /\ fdesc'[fd] = f /\ \A e \in Fd : e # fd => fdesc'[e] = fdesc[e]
  BY <1>1, <1>3, <1>10 DEF Files
<1>12. \A e \in Fd : fdesc'[e].inum = fdesc[e].inum
                     /\ fdesc'[e].read = fdesc[e].read /\ fdesc'[e].write = fdesc[e].write
  BY <1>10, <1>11
<1>13. WholeAt(disk', cwd', fdesc') /\ SoundAt(disk', cwd', fdesc')
  <2>1. HandlesAt(disk, I, cwd', fdesc')
    BY <1>1, <1>4, <1>12 DEF WholeBy, Handles, HandlesAt
  <2> QED
    BY <1>1, <1>4, <2>1, AtIs DEF WholeBy, WholeAt
<1>14. todo' = <<>> /\ Len(todo') = 0 /\ Later' = disk
  BY <1>1, <1>3 DEF Later
<1>15. Typed'
  BY <1>1, <1>3, <1>11, <1>12 DEF Typed
<1>16. Powered'
  BY <1>2 DEF Powered
<1>17. Served'
  BY <1>13, <1>14 DEF Served
<1>18. Written'
  <2>1. File' = i
    BY <1>2, <1>12 DEF File
  <2>2. Later'.inodes[File'] = v
    BY <1>14, <2>1 DEF v
  <2>3. doing'.done # Len(doing'.buf)
    BY <1>2, <1>6
  <2> HIDE DEF i, off
  <2> QED
    BY <1>2, <1>3, <1>6, <1>7, <1>8, <1>9, <1>14, <2>1, <2>2, <2>3 DEF Written
<1> QED
  BY <1>15, <1>16, <1>17, <1>18 DEF FsInv

LEMMA CallSame ==
  ASSUME NEW c, IsCall(c)
  PROVE  /\ \A o : /\ [c EXCEPT !.op = o].op = o /\ [c EXCEPT !.op = o].fd = c.fd
                   /\ [c EXCEPT !.op = o].inode = c.inode /\ [c EXCEPT !.op = o].off = c.off
                   /\ [c EXCEPT !.op = o].buf = c.buf /\ [c EXCEPT !.op = o].done = c.done
BY DEF IsCall

SetDone(c, n) == [c EXCEPT !.done = n]
SetDirect(c, g) == [c EXCEPT !.inode.direct = g]

LEMMA CallMore ==
  ASSUME NEW c, IsCall(c), NEW n, NEW e, e = SetDone(c, n)
  PROVE  /\ IsCall(e)
         /\ e.op = c.op /\ e.fd = c.fd /\ e.inode = c.inode /\ e.off = c.off
         /\ e.buf = c.buf /\ e.done = n
<1>1. e = [op |-> c.op, fd |-> c.fd, inode |-> c.inode, off |-> c.off, buf |-> c.buf, done |-> n]
  BY DEF IsCall, SetDone
<1> QED
  BY <1>1 DEF IsCall

LEMMA CallNode ==
  ASSUME NEW c, IsCall(c), NEW g, NEW e, e = SetDirect(c, g)
  PROVE  /\ IsCall(e)
         /\ e.op = c.op /\ e.fd = c.fd /\ e.off = c.off
         /\ e.buf = c.buf /\ e.done = c.done
         /\ e.inode = [c.inode EXCEPT !.direct = g]
<1> DEFINE v == [c.inode EXCEPT !.direct = g]
<1>1. e = [c EXCEPT !.inode = v]
  BY DEF SetDirect
<1> HIDE DEF v
<1>2. e = [op |-> c.op, fd |-> c.fd, inode |-> v, off |-> c.off, buf |-> c.buf, done |-> c.done]
  BY <1>1 DEF IsCall
<1>3. IsCall(e) /\ e.op = c.op /\ e.fd = c.fd /\ e.off = c.off
      /\ e.buf = c.buf /\ e.done = c.done /\ e.inode = v
  BY <1>2 DEF IsCall
<1> QED
  BY <1>3 DEF v

LEMMA EndOf ==
  ASSUME FsInv, FwriteEnd
  PROVE  \E t : /\ AllWhole(t) /\ Grown(<<disk>>, t) /\ Rest(disk, Last(t), {"inodes"})
                /\ Last(t).inodes[File] = doing.inode
                /\ Runs(disk, t) /\ todo' = Tail(t)
<1> DEFINE i == File
           v == doing.inode
           s == <<disk>>
           t == write_inode(s, i, v)
           off == doing.off
           buf == doing.buf
<1>1. /\ doing.op = "fwrite" /\ todo = <<>> /\ doing.done = Len(buf)
      /\ todo' = Tail(t) /\ disk' = disk /\ fdesc' = fdesc /\ cwd' = cwd
      /\ doing' = [doing EXCEPT !.op = "fwrite_end"]
  BY DEF FwriteEnd, memory, File
<1>2. /\ disk \in Disk /\ Mounted /\ IsCall(doing)
      /\ doing.fd \in Fd /\ i # 0 /\ off \in Nat /\ buf \in Seq(Nat) /\ buf # <<>>
      /\ v \in Inode /\ v.type = "FILE" /\ v.ref = disk.inodes[i].ref
      /\ v.direct = disk.inodes[i].direct /\ v.size >= disk.inodes[i].size
      /\ Stored(disk, i, off, buf)
  BY <1>1 DEF FsInv, Typed, Written, Later, Mounted
<1>3. Piece(off, Len(buf))
  <2>1. Len(buf) \in Nat \ {0}
    BY <1>2
  <2> QED
    BY <1>1, <1>2, <2>1 DEF FsInv, Written, Piece
<1>4. /\ doing'.op = "fwrite_end" /\ doing'.fd = doing.fd /\ doing'.off = off /\ doing'.buf = buf
  BY <1>1, <1>2, CallSame
<1>5. PICK I : WholeBy(disk, I) /\ i \in I /\ IsFile(disk, i) /\ i \in Inum
  BY <1>1, <1>2, FwriteFile DEF File
<1>6. s \in Seq(Disk) /\ s # <<>> /\ Last(s) = disk /\ AllWhole(s) /\ Len(s) = 1 /\ s[1] = disk
  BY <1>2, <1>5, OneWhole
<1> HIDE DEF s, v, i, off, buf
<1>7. Keeps(disk, I, i, v)
  BY <1>2 DEF Keeps
<1>8. /\ AllWhole(t) /\ Grown(s, t) /\ Rest(disk, Last(t), {"inodes"})
      /\ Last(t).inodes[i] = v /\ Alike(disk, Last(t), I) /\ WholeBy(Last(t), I)
      /\ \A j \in Inum \ {i} : Last(t).inodes[j] = disk.inodes[j]
  <2> HIDE DEF t
  <2>1. t = write_inode(s, i, v)
    BY DEF t
  <2> QED
    BY <1>2, <1>5, <1>6, <1>7, <2>1, KeepFile
<1> HIDE DEF t
<1>9. Runs(disk, t)
  <2> DEFINE e == Last(t)
             k == Row(off) + 1
  <2>1. k \in Direct /\ v.direct[k] # 0
    BY <1>2, <1>3, RowStored
  <2>2. /\ disk \in Disk /\ Fine(disk, I) /\ Fine(e, I) /\ I \subseteq Inum
    BY <1>2, <1>5, <1>8, FineOf DEF WholeBy
  <2> HIDE DEF e, k
  <2>3. /\ Rest(disk, e, {"inodes"}) /\ Alike(disk, e, I) /\ e.inodes[i] = v
        /\ \A j \in I \ {i} : e.inodes[j] = disk.inodes[j]
    BY <1>8, <2>2 DEF e
  <2>4. Move(disk, e)
    BY <1>2, <1>5, <2>1, <2>2, <2>3, PutInode
  <2> QED
    BY <1>6, <1>8, <2>2, <2>4, OneRuns, GrownRuns DEF e, s
<1> QED
  BY <1>1, <1>8, <1>9 DEF s, i, v

LEMMA DoEnd ==
  ASSUME FsInv, FwriteEnd
  PROVE  FsInv'
<1> DEFINE i == File
           v == doing.inode
           s == <<disk>>
           off == doing.off
           buf == doing.buf
<1>1. /\ doing.op = "fwrite" /\ todo = <<>> /\ doing.done = Len(buf)
      /\ disk' = disk /\ fdesc' = fdesc /\ cwd' = cwd
      /\ doing' = [doing EXCEPT !.op = "fwrite_end"]
  BY DEF FwriteEnd, memory, File
<1>2. /\ disk \in Disk /\ Mounted /\ IsCall(doing)
      /\ doing.fd \in Fd /\ i # 0 /\ off \in Nat /\ buf \in Seq(Nat) /\ buf # <<>>
      /\ v \in Inode /\ v.type = "FILE" /\ v.ref = disk.inodes[i].ref
      /\ v.direct = disk.inodes[i].direct
      /\ Stored(disk, i, off, buf)
  BY <1>1 DEF FsInv, Typed, Written, Later, Mounted
<1>3. Piece(off, Len(buf))
  <2>1. Len(buf) \in Nat \ {0}
    BY <1>2
  <2> QED
    BY <1>1, <1>2, <2>1 DEF FsInv, Written, Piece
<1>4. /\ doing'.op = "fwrite_end" /\ doing'.fd = doing.fd /\ doing'.off = off /\ doing'.buf = buf
  BY <1>1, <1>2, CallSame
<1>5. PICK I : WholeBy(disk, I) /\ i \in I /\ IsFile(disk, i) /\ i \in Inum
  BY <1>1, <1>2, FwriteFile DEF File
<1>6. s \in Seq(Disk) /\ s # <<>> /\ Last(s) = disk /\ AllWhole(s) /\ Len(s) = 1 /\ s[1] = disk
  BY <1>2, <1>5, OneWhole
<1> HIDE DEF s, v, i, off, buf
<1>8. PICK t : /\ AllWhole(t) /\ Grown(s, t) /\ Rest(disk, Last(t), {"inodes"})
               /\ Last(t).inodes[i] = v /\ todo' = Tail(t)
  BY EndOf DEF s, i, v
<1>9. Stored(Last(t), i, off, buf)
  BY <1>2, <1>3, <1>8, StoredSame DEF Rest
<1>10. t \in Seq(Disk) /\ t # <<>> /\ \A k \in 1 .. Len(t) : WholeAt(t[k], cwd', fdesc')
  BY <1>1, <1>8, AtIs DEF AllWhole
<1>11. /\ todo' \in Seq(Disk)
       /\ \A k \in 1 .. Len(todo') : todo'[k] = t[k + 1] /\ k + 1 \in 1 .. Len(t)
       /\ todo' # <<>> => Last(todo') = Last(t)
  BY <1>8, <1>10, TailIs
<1>12. \A k \in 1 .. Len(todo') : todo'[k] = Last(t)
  <2> SUFFICES ASSUME NEW k \in 1 .. Len(todo') PROVE todo'[k] = Last(t)
    OBVIOUS
  <2>1. Len(t) = 2 /\ t[Len(t)] = Last(t)
    BY <1>6, <1>8 DEF Grown
  <2>2. k + 1 = 2
    BY <1>11, <2>1
  <2> QED
    BY <1>11, <2>1, <2>2
<1>13. WholeAt(Last(t), cwd', fdesc')
  <2>1. Last(t) = t[Len(t)] /\ Len(t) \in 1 .. Len(t)
    BY <1>10, LastIn
  <2> QED
    BY <1>10, <2>1
<1>14. WholeAt(disk', cwd', fdesc')
  BY <1>1, <1>5, AtIs DEF Whole
<1>15. Typed'
  BY <1>1, <1>11 DEF FsInv, Typed
<1>16. Powered'
  BY <1>4 DEF Powered
<1>17. Served'
  BY <1>11, <1>12, <1>13, <1>14, AtIs DEF Served
<1>18. Written'
  <2>1. File' = i
    BY <1>1, <1>4 DEF File, i
  <2>2. doing'.op # "fwrite"
    BY <1>4
  <2>3. doing'.fd \in Fd /\ File' # 0 /\ doing'.off \in Nat /\ doing'.buf \in Seq(Nat) /\ doing'.buf # <<>>
    BY <1>2, <1>4, <2>1
  <2>4. /\ Stored(disk', File', doing'.off, doing'.buf)
        /\ \A k \in 1 .. Len(todo') : Stored(todo'[k], File', doing'.off, doing'.buf)
    BY <1>1, <1>2, <1>4, <1>9, <1>12, <2>1
  <2> QED
    BY <2>2, <2>3, <2>4 DEF Written
<1> QED
  BY <1>15, <1>16, <1>17, <1>18 DEF FsInv

LEMMA FilledIn ==
  ASSUME NEW off, NEW buf \in Seq(Nat), Piece(off, Len(buf)),
         NEW bs \in [1 .. NBYTES_PER_BLOCK -> Int]
  PROVE  Filled(bs, off, buf) \in Content
<1> DEFINE new == Copied(bs, Cell(off), buf, Len(buf))
<1>1. new \in [1 .. NBYTES_PER_BLOCK -> Int]
  BY CopiedIn
<1> HIDE DEF new
<1>2. [ZeroBlock EXCEPT !.bytes = new] \in Content
  BY <1>1, Contents
<1> QED
  BY <1>2 DEF Filled, new

\* A piece of a write: t is the sequence of its disks.
LEMMA DoneAs ==
  ASSUME FsInv, Mounted, doing.op = "fwrite", todo = <<>>, UNCHANGED <<disk, memory>>,
         NEW t, AllWhole(t), Len(t) > 1, todo' = Tail(t),
         IsCall(doing'), doing'.op = "fwrite", doing'.fd = doing.fd, doing'.off = doing.off,
         doing'.buf = doing.buf, doing'.done = Len(doing.buf),
         doing'.inode \in Inode, doing'.inode.type = "FILE",
         doing'.inode.ref = Last(t).inodes[File].ref,
         doing'.inode.direct = Last(t).inodes[File].direct,
         doing'.inode.size >= Last(t).inodes[File].size,
         Stored(Last(t), File, doing.off, doing.buf)
  PROVE  FsInv'
<1>1. disk' = disk /\ fdesc' = fdesc /\ cwd' = cwd
  BY DEF memory
<1>2. t \in Seq(Disk) /\ t # <<>> /\ \A k \in 1 .. Len(t) : WholeAt(t[k], cwd', fdesc')
  BY <1>1, AtIs DEF AllWhole
<1>3. /\ todo' \in Seq(Disk) /\ todo' # <<>> /\ Last(todo') = Last(t)
      /\ \A k \in 1 .. Len(todo') : todo'[k] = t[k + 1] /\ k + 1 \in 1 .. Len(t)
  <2>1. Len(t) \in Nat
    BY <1>2
  <2>2. ~ Len(t) <= 1
    BY <2>1
  <2> QED
    BY <1>2, <2>2, TailIs
<1>4. \A k \in 1 .. Len(todo') : WholeAt(todo'[k], cwd', fdesc')
  <2> SUFFICES ASSUME NEW k \in 1 .. Len(todo') PROVE WholeAt(todo'[k], cwd', fdesc')
    OBVIOUS
  <2>1. PICK l \in 1 .. Len(t) : l = k + 1
    BY <1>3
  <2>2. todo'[k] = t[l]
    BY <1>3, <2>1
  <2> QED
    BY <1>2, <2>2
<1>5. WholeAt(Last(t), cwd', fdesc')
  <2>1. Last(t) = t[Len(t)] /\ Len(t) \in 1 .. Len(t)
    BY <1>2, LastIn
  <2> QED
    BY <1>2, <2>1
<1>6. WholeAt(disk', cwd', fdesc')
  BY <1>1 DEF FsInv, Served
<1>7. Later' = Last(t) /\ File' = File
  BY <1>1, <1>3 DEF Later, File
<1>8. Typed'
  BY <1>1, <1>3 DEF FsInv, Typed
<1>9. Powered'
  BY DEF Powered
<1>10. Served'
  BY <1>3, <1>4, <1>5, <1>6, AtIs DEF Served
<1>11. Written'
  <2>1. /\ doing'.fd \in Fd /\ File' # 0 /\ doing'.off \in Nat
        /\ doing'.buf \in Seq(Nat) /\ doing'.buf # <<>>
    BY <1>7 DEF FsInv, Written
  <2>2. /\ PieceLen(doing'.off, Len(doing'.buf)) = Len(doing'.buf)
        /\ doing'.off + Len(doing'.buf) <= NDIRECT_BLOCKS * NBYTES_PER_BLOCK
    BY DEF FsInv, Written
  <2> QED
    BY <1>7, <2>1, <2>2 DEF Written
<1> QED
  BY <1>8, <1>9, <1>10, <1>11 DEF FsInv

\* A piece for a block that the file does not have: alloc_block, the inode
\* that names the block, the block.
LEMMA NewPiece ==
  ASSUME NEW d, NEW I, WholeBy(d, I), NEW i \in I, IsFile(d, i),
         ~ 0 .. (BWORDS * W - 1) \subseteq d.bmap,
         NEW off, NEW buf \in Seq(Nat), Piece(off, Len(buf)), NEW k, k = Row(off) + 1,
         NEW v \in Inode, v.type = "FILE", v.ref = d.inodes[i].ref,
         v.direct = d.inodes[i].direct, v.direct[k] = 0, v.size >= d.inodes[i].size,
         NEW a, a = alloc_block(<<d>>), NEW w, w = Named(v, k, a.num),
         NEW c, c = Filled(ZeroBytes, off, buf),
         NEW t, t = write_block(write_inode(a.s, i, w), a.num, c)
  PROVE  /\ AllWhole(t) /\ Len(t) > 1
         /\ w \in Inode /\ w.type = "FILE" /\ Last(t).inodes[i] = w
         /\ Stored(Last(t), i, off, buf) /\ Runs(d, t)
<1>1. k \in Direct
  BY PieceAt
<1>2. ZeroBytes \in [1 .. NBYTES_PER_BLOCK -> Int]
  BY DEF ZeroBytes
<1>3. c \in Content
  BY <1>2, FilledIn
<1>4. /\ AllWhole(t) /\ Len(t) > 1 /\ a.num \in Blk /\ w \in Inode
      /\ Last(t).inodes[i] = w /\ Last(t).blocks[a.num] = c /\ Runs(d, t)
  BY <1>1, <1>3, FwriteNew
<1>5. w.direct[k] = a.num /\ w.type = "FILE" /\ a.num # 0
  <2>1. v.direct \in [Direct -> Nat]
    BY DEF Inode
  <2> DEFINE g == [v.direct EXCEPT ![k] = a.num]
  <2>2. w = [v EXCEPT !.direct = g] /\ g[k] = a.num
    BY <1>1, <2>1 DEF Named
  <2> HIDE DEF g
  <2>3. w.direct = g /\ w.type = v.type
    BY <2>2 DEF Inode
  <2>4. a.num # 0
    BY <1>4, BlkNat
  <2> QED
    BY <2>2, <2>3, <2>4
<1>6. Stored(Last(t), i, off, buf)
  <2> DEFINE e == Last(t)
             b == a.num
             bs == ZeroBytes
  <2>1. /\ bs \in [1 .. NBYTES_PER_BLOCK -> Int]
        /\ Points(e, i, Row(off) + 1, b)
        /\ e.blocks[b] = Filled(bs, off, buf)
    BY <1>2, <1>4, <1>5 DEF Points
  <2> HIDE DEF e, b, bs
  <2>2. Stored(e, i, off, buf)
    BY <2>1, StoredBy
  <2> QED
    BY <2>2 DEF e
<1> QED
  BY <1>4, <1>5, <1>6

\* A piece for a block of the file.
LEMMA OldPiece ==
  ASSUME NEW d, NEW I, WholeBy(d, I), NEW i \in I, IsFile(d, i),
         NEW off, NEW buf \in Seq(Nat), Piece(off, Len(buf)), NEW k, k = Row(off) + 1,
         NEW b, Points(d, i, k, b),
         NEW c, c = Filled(Bytes(d.blocks[b]), off, buf),
         NEW t, t = write_block(<<d>>, b, c)
  PROVE  /\ AllWhole(t) /\ Len(t) > 1 /\ Last(t).inodes = d.inodes
         /\ Stored(Last(t), i, off, buf) /\ Runs(d, t)
<1> DEFINE bs == Bytes(d.blocks[b])
<1>1. k \in Direct
  BY PieceAt
<1>2. d \in Disk /\ Own(d, I)
  BY DEF WholeBy, Fine
<1>3. b \in Blk
  BY <1>1, <1>2 DEF Own, Points
<1>4. d.blocks[b] \in Content
  BY <1>2, <1>3 DEF Disk
<1>5. bs \in [1 .. NBYTES_PER_BLOCK -> Int]
  BY <1>4, BytesIn
<1>6. c = Filled(bs, off, buf)
  OBVIOUS
<1> HIDE DEF bs
<1>7. c \in Content
  BY <1>5, <1>6, FilledIn
<1>8. /\ AllWhole(t) /\ Len(t) > 1
      /\ Last(t).inodes = d.inodes /\ Last(t).blocks[b] = c /\ Runs(d, t)
  BY <1>1, <1>7, FwriteOver
<1>9. Stored(Last(t), i, off, buf)
  <2> DEFINE e == Last(t)
  <2>1. Points(e, i, Row(off) + 1, b) /\ e.blocks[b] = Filled(bs, off, buf)
    BY <1>6, <1>8 DEF Points
  <2> HIDE DEF e
  <2>2. Stored(e, i, off, buf)
    BY <1>5, <2>1, StoredBy
  <2> QED
    BY <2>2 DEF e
<1> QED
  BY <1>8, <1>9

LEMMA CallNew ==
  ASSUME NEW c, IsCall(c), NEW n, NEW k, NEW b,
         NEW m, m = SetDone(c, n), NEW g, g = [m.inode.direct EXCEPT ![k] = b],
         NEW e, e = SetDirect(m, g)
  PROVE  /\ IsCall(e)
         /\ e.op = c.op /\ e.fd = c.fd /\ e.off = c.off
         /\ e.buf = c.buf /\ e.done = n /\ e.inode = Named(c.inode, k, b)
<1>1. /\ IsCall(m) /\ m.op = c.op /\ m.fd = c.fd /\ m.inode = c.inode /\ m.off = c.off
      /\ m.buf = c.buf /\ m.done = n
  BY CallMore
<1>2. /\ IsCall(e) /\ e.op = m.op /\ e.fd = m.fd /\ e.off = m.off
      /\ e.buf = m.buf /\ e.done = m.done /\ e.inode = [m.inode EXCEPT !.direct = g]
  BY <1>1, CallNode
<1>3. Named(c.inode, k, b) = [m.inode EXCEPT !.direct = g]
  BY <1>1 DEF Named
<1> QED
  BY <1>1, <1>2, <1>3

LEMMA SetBlk ==
  ASSUME NEW s, NEW o, NEW new, NEW inode, NEW i, Row(o) \in Nat, Row(o) < NDIRECT_BLOCKS
  PROVE  set_inode_blk_num(s, o, new, inode, i) = write_inode(s, i, Named(inode, Row(o) + 1, new))
<1>1. [inode EXCEPT !.direct[Row(o) + 1] = new] = Named(inode, Row(o) + 1, new)
  BY DEF Named
<1> QED
  BY <1>1 DEF set_inode_blk_num, Row

\* The two ways of a piece of n bytes at o, in block blk; m is `doing' with
\* the piece done.
Ways(o, n, m, blk) ==
  \/ /\ blk = 0 /\ BlockLeft
     /\ LET a == alloc_block(<<disk>>)
            u == write_inode(a.s, File, Named(doing.inode, Row(o) + 1, a.num))
            c == [ZeroBlock EXCEPT !.bytes = Copied(ZeroBytes, Cell(o), doing.buf, n)]
        IN  /\ todo' = Tail(write_block(u, a.num, c))
            /\ doing' = [m EXCEPT !.inode.direct =
                           [m.inode.direct EXCEPT ![Row(o) + 1] = a.num]]
  \/ /\ blk # 0
     /\ todo' = Tail(write_block(<<disk>>, blk,
                       [ZeroBlock EXCEPT !.bytes =
                          Copied(Bytes(disk.blocks[blk]), Cell(o), doing.buf, n)]))
     /\ doing' = m

LEMMA PieceIs ==
  ASSUME FwritePiece, NEW o, o = doing.off + doing.done,
         NEW n, n = PieceLen(o, Len(doing.buf) - doing.done),
         Row(o) \in Nat, Row(o) < NDIRECT_BLOCKS, Row(o) + 1 \in Direct,
         NEW m, m = SetDone(doing, doing.done + n),
         NEW blk, blk = offset_to_blk(disk, o, doing.inode)
  PROVE  Ways(o, n, m, blk)
<1> DEFINE a == alloc_block(<<disk>>)
           k == Row(o) + 1
<1>1. set_inode_blk_num(a.s, o, a.num, doing.inode, File) =
        write_inode(a.s, File, Named(doing.inode, k, a.num))
  BY SetBlk
<1>2. /\ File = fdesc[doing.fd].inum /\ Cell(o) = o % NBYTES_PER_BLOCK
      /\ k = (o \div NBYTES_PER_BLOCK) + 1 /\ k \in Direct
  BY DEF File, Cell, Row
<1>3. m = [doing EXCEPT !.done = doing.done + n]
  BY DEF SetDone
<1> HIDE DEF k
<1>4. CASE blk = 0
  <2>1. BlockLeft
    BY <1>4 DEF FwritePiece
  <2>2. todo' = Tail(write_block(write_inode(a.s, File, Named(doing.inode, k, a.num)), a.num,
                      [ZeroBlock EXCEPT !.bytes = Copied(ZeroBytes, Cell(o), doing.buf, n)]))
    BY <1>1, <1>2, <1>4 DEF FwritePiece
  <2>3. doing' = [m EXCEPT !.inode.direct = [m.inode.direct EXCEPT ![k] = a.num]]
    BY <1>2, <1>4, <1>3 DEF FwritePiece
  <2> QED
    BY <1>4, <2>1, <2>2, <2>3 DEF k, Ways
<1>5. CASE blk # 0
  <2>1. /\ todo' = Tail(write_block(<<disk>>, blk,
                          [ZeroBlock EXCEPT !.bytes =
                             Copied(Bytes(disk.blocks[blk]), Cell(o), doing.buf, n)]))
        /\ doing' = m
    BY <1>2, <1>5, <1>3 DEF FwritePiece
  <2> QED
    BY <1>5, <2>1 DEF Ways
<1> QED
  BY <1>4, <1>5

\* What a pass of its loop leaves: the disks t, after which the bytes are stored.
Passes(t) ==
  /\ AllWhole(t) /\ Len(t) > 1 /\ Runs(disk, t) /\ todo' = Tail(t)
  /\ IsCall(doing') /\ doing'.op = "fwrite" /\ doing'.fd = doing.fd
  /\ doing'.off = doing.off /\ doing'.buf = doing.buf /\ doing'.done = Len(doing.buf)
  /\ doing'.inode \in Inode /\ doing'.inode.type = "FILE"
  /\ doing'.inode.ref = Last(t).inodes[File].ref
  /\ doing'.inode.direct = Last(t).inodes[File].direct
  /\ doing'.inode.size >= Last(t).inodes[File].size
  /\ Stored(Last(t), File, doing.off, doing.buf)

LEMMA PieceOf ==
  ASSUME FsInv, FwritePiece
  PROVE  \E t : Passes(t)
<1> DEFINE i == File
           off == doing.off
           buf == doing.buf
           n == Len(buf)
           v == doing.inode
           k == Row(off) + 1
           a == alloc_block(<<disk>>)
           w == Named(v, k, a.num)
           c == Filled(ZeroBytes, off, buf)
           t == write_block(write_inode(a.s, i, w), a.num, c)
           b == offset_to_blk(disk, off, v)
           r == Filled(Bytes(disk.blocks[b]), off, buf)
           u == write_block(<<disk>>, b, r)
           m == SetDone(doing, n)
           g == [m.inode.direct EXCEPT ![k] = a.num]
           e == doing'
<1>1. /\ doing.op = "fwrite" /\ todo = <<>> /\ doing.done < n /\ UNCHANGED <<disk, memory>>
  BY DEF FwritePiece
<1>2. /\ Mounted /\ IsCall(doing) /\ doing.done = 0
      /\ doing.fd \in Fd /\ i # 0 /\ off \in Nat /\ buf \in Seq(Nat) /\ n \in Nat \ {0}
      /\ v \in Inode /\ v.type = "FILE" /\ v.ref = disk.inodes[i].ref
      /\ v.direct = disk.inodes[i].direct /\ v.size >= disk.inodes[i].size
      /\ PieceLen(off, n) = n /\ off + n <= NDIRECT_BLOCKS * NBYTES_PER_BLOCK
  <2>1. /\ IsCall(doing) /\ doing.done \in {0, n}
        /\ doing.fd \in Fd /\ i # 0 /\ off \in Nat /\ buf \in Seq(Nat) /\ buf # <<>>
        /\ v \in Inode /\ v.type = "FILE" /\ v.ref = disk.inodes[i].ref
        /\ v.direct = disk.inodes[i].direct /\ v.size >= disk.inodes[i].size
        /\ PieceLen(off, n) = n /\ off + n <= NDIRECT_BLOCKS * NBYTES_PER_BLOCK
    BY <1>1 DEF FsInv, Written, Later
  <2>2. n \in Nat \ {0}
    BY <2>1
  <2>3. doing.done = 0
    BY <1>1, <2>1, <2>2
  <2>4. Mounted
    BY <1>1 DEF Mounted
  <2> QED
    BY <2>1, <2>2, <2>3, <2>4
<1>3. Piece(off, n)
  BY <1>2 DEF Piece
<1>4. PICK I : WholeBy(disk, I) /\ i \in I /\ IsFile(disk, i) /\ i \in Inum
  BY <1>1, <1>2, FwriteFile DEF File
<1>5. /\ Row(off) \in Nat /\ Row(off) < NDIRECT_BLOCKS /\ Row(off) + 1 \in Direct
  BY <1>3, PieceAt, FsAssumption DEF Direct
<1>6. b = v.direct[k]
  BY <1>5, BlkOf
<1>7. \/ /\ b = 0 /\ BlockLeft /\ todo' = Tail(t) /\ e = SetDirect(m, g)
      \/ /\ b # 0 /\ todo' = Tail(u) /\ e = m
  <2> DEFINE o == doing.off + doing.done
             l == PieceLen(o, Len(doing.buf) - doing.done)
             m2 == SetDone(doing, doing.done + l)
  <2>1. o = off /\ Len(doing.buf) - doing.done = n
    BY <1>2
  <2>2. l = n
    BY <1>2, <2>1
  <2>3. doing.done + l = n
    BY <1>2, <2>2
  <2>4. m2 = m
    <3> HIDE DEF l
    <3> QED
      BY <2>3
  <2> HIDE DEF o, l, m2
  <2>5. /\ FwritePiece /\ o = doing.off + doing.done
        /\ l = PieceLen(o, Len(doing.buf) - doing.done)
        /\ m2 = SetDone(doing, doing.done + l)
        /\ Row(o) \in Nat /\ Row(o) < NDIRECT_BLOCKS /\ Row(o) + 1 \in Direct
        /\ b = offset_to_blk(disk, o, doing.inode)
    BY <1>5, <2>1 DEF o, l, m2
  <2> HIDE DEF b
  <2>6. Ways(o, l, m2, b)
    BY <2>5, PieceIs
  <2>7. CASE b = 0
    <3>1. /\ BlockLeft
          /\ todo' = Tail(write_block(write_inode(a.s, i, Named(v, Row(o) + 1, a.num)), a.num,
                            [ZeroBlock EXCEPT !.bytes = Copied(ZeroBytes, Cell(o), buf, l)]))
          /\ doing' = [m2 EXCEPT !.inode.direct =
                         [m2.inode.direct EXCEPT ![Row(o) + 1] = a.num]]
      BY <2>6, <2>7 DEF Ways
    <3>2. todo' = Tail(t)
      BY <2>1, <2>2, <3>1 DEF Filled
    <3>3. e = SetDirect(m, g)
      <4>1. doing' = [m EXCEPT !.inode.direct = [m.inode.direct EXCEPT ![k] = a.num]]
        BY <2>1, <2>4, <3>1
      <4> QED
        BY <4>1 DEF SetDirect
    <3> QED
      BY <2>7, <3>1, <3>2, <3>3
  <2>8. CASE b # 0
    <3>1. /\ todo' = Tail(write_block(<<disk>>, b,
                            [ZeroBlock EXCEPT !.bytes =
                               Copied(Bytes(disk.blocks[b]), Cell(o), buf, l)]))
          /\ doing' = m2
      BY <2>6, <2>8 DEF Ways
    <3>2. todo' = Tail(u)
      BY <2>1, <2>2, <3>1 DEF Filled
    <3> QED
      BY <2>4, <2>8, <3>1, <3>2
  <2> QED
    BY <2>7, <2>8
<1> HIDE DEF b, e
<1>8. CASE b = 0 /\ BlockLeft /\ todo' = Tail(t) /\ e = SetDirect(m, g)
  <2>1. /\ IsCall(e) /\ e.op = doing.op /\ e.fd = doing.fd /\ e.off = off
        /\ e.buf = buf /\ e.done = n /\ e.inode = w
    <3>1. /\ IsCall(doing) /\ m = SetDone(doing, n) /\ g = [m.inode.direct EXCEPT ![k] = a.num]
          /\ e = SetDirect(m, g)
      BY <1>2, <1>8
    <3> HIDE DEF m, g, k, n, a
    <3>2. /\ IsCall(e) /\ e.op = doing.op /\ e.fd = doing.fd /\ e.off = doing.off
          /\ e.buf = doing.buf /\ e.done = n /\ e.inode = Named(doing.inode, k, a.num)
      BY <3>1, CallNew
    <3> QED
      BY <3>2
  <2>2. ~ 0 .. (BWORDS * W - 1) \subseteq disk.bmap /\ v.direct[k] = 0
    BY <1>6, <1>8 DEF BlockLeft
  <2>3. /\ WholeBy(disk, I) /\ i \in I /\ IsFile(disk, i)
        /\ buf \in Seq(Nat) /\ Piece(off, Len(buf)) /\ k = Row(off) + 1
        /\ v \in Inode /\ v.type = "FILE" /\ v.ref = disk.inodes[i].ref
        /\ v.direct = disk.inodes[i].direct /\ v.size >= disk.inodes[i].size
        /\ a = alloc_block(<<disk>>) /\ w = Named(v, k, a.num) /\ c = Filled(ZeroBytes, off, buf)
        /\ t = write_block(write_inode(a.s, i, w), a.num, c)
    BY <1>2, <1>3, <1>4
  <2> HIDE DEF i, off, buf, v, a, w, c, t, k
  <2>4. /\ AllWhole(t) /\ Len(t) > 1
        /\ w \in Inode /\ w.type = "FILE" /\ Last(t).inodes[i] = w
        /\ Stored(Last(t), i, off, buf) /\ Runs(disk, t)
    BY <2>2, <2>3, NewPiece
  <2>5. w.ref = v.ref
    <3>1. w.ref = v.ref
      BY <2>3 DEF Named, Inode
    <3> QED
      BY <3>1
  <2>6. Passes(t)
    <3>1. w.ref = Last(t).inodes[i].ref /\ w.direct = Last(t).inodes[i].direct
          /\ Last(t).inodes[i].size \in Nat /\ w.size >= Last(t).inodes[i].size
      BY <2>4 DEF Inode
    <3> QED
      BY <1>1, <1>8, <2>1, <2>4, <3>1 DEF e, off, buf, i, Passes
  <2> QED
    BY <2>6
<1>9. CASE b # 0 /\ todo' = Tail(u) /\ e = m
  <2>1. /\ IsCall(e) /\ e.op = doing.op /\ e.fd = doing.fd /\ e.inode = v /\ e.off = off
        /\ e.buf = buf /\ e.done = n
    <3> HIDE DEF n, m
    <3>1. e = SetDone(doing, n)
      BY <1>9 DEF m
    <3> QED
      BY <1>2, <3>1, CallMore
  <2>2. Points(disk, i, k, b)
    BY <1>2, <1>6, <1>9 DEF Points
  <2>3. /\ WholeBy(disk, I) /\ i \in I /\ IsFile(disk, i)
        /\ buf \in Seq(Nat) /\ Piece(off, Len(buf)) /\ k = Row(off) + 1
        /\ r = Filled(Bytes(disk.blocks[b]), off, buf)
        /\ u = write_block(<<disk>>, b, r)
    BY <1>2, <1>3, <1>4
  <2> HIDE DEF i, off, buf, r, u, k
  <2>4. /\ AllWhole(u) /\ Len(u) > 1 /\ Last(u).inodes = disk.inodes
        /\ Stored(Last(u), i, off, buf) /\ Runs(disk, u)
    BY <2>2, <2>3, OldPiece
  <2>5. v \in Inode /\ v.type = "FILE"
        /\ v.ref = Last(u).inodes[i].ref /\ v.direct = Last(u).inodes[i].direct
        /\ v.size >= Last(u).inodes[i].size
    BY <1>2, <2>4
  <2>6. Passes(u)
    BY <1>1, <1>9, <2>1, <2>4, <2>5 DEF e, off, buf, i, Passes
  <2> QED
    BY <2>6
<1> QED
  BY <1>7, <1>8, <1>9

LEMMA DoPiece ==
  ASSUME FsInv, FwritePiece
  PROVE  FsInv'
<1>1. PICK t : Passes(t)
  BY PieceOf
<1>2. doing.op = "fwrite" /\ todo = <<>> /\ UNCHANGED <<disk, memory>> /\ Mounted
  BY DEF FwritePiece, Mounted
<1> QED
  BY <1>1, <1>2, DoneAs DEF Passes

-----------------------------------------------------------------------------
(* The invariant of the specification *)

LEMMA DoNothing ==
  ASSUME FsInv, UNCHANGED vars
  PROVE  FsInv'
<1>1. disk' = disk /\ todo' = todo /\ doing' = doing /\ fdesc' = fdesc /\ cwd' = cwd
  BY DEF vars
<1>2. File' = File /\ Later' = Later /\ Mounted' = Mounted
  BY <1>1 DEF File, Later, Mounted
<1>3. Typed'
  BY <1>1 DEF FsInv, Typed
<1>4. Powered'
  BY <1>1 DEF FsInv, Powered
<1>5. Served'
  BY <1>1, <1>2 DEF FsInv, Served
<1>6. Written'
  BY <1>1, <1>2 DEF FsInv, Written
<1> QED
  BY <1>3, <1>4, <1>5, <1>6 DEF FsInv

LEMMA DoSysCall ==
  ASSUME FsInv, Careful, NEW p \in Proc, SysCall(p)
  PROVE  FsInv'
<1>1. CASE do_mkfs(p)
  BY <1>1, DoMkfs
<1>2. CASE do_statfs(p) \/ do_ls(p, "")
  <2>1. UNCHANGED vars
    BY <1>2, Zenon DEF do_statfs, do_ls
  <2> QED
    BY <2>1, DoNothing
<1>3. ASSUME NEW n \in Names, do_mkdir(p, n) \/ do_touch(p, n)
      PROVE  FsInv'
  BY <1>3, DoMkdir, DoTouch
<1>4. ASSUME NEW n \in Targets,
             do_cd(p, n) \/ do_rmdir(p, n) \/ do_rm(p, n) \/ do_cat(p, n) \/ do_ls(p, n)
      PROVE  FsInv'
  <2>1. CASE do_cd(p, n) \/ do_rmdir(p, n) \/ do_rm(p, n)
    BY <2>1, DoCd, DoRmdir, DoRm
  <2>2. CASE do_cat(p, n) \/ do_ls(p, n)
    <3>1. UNCHANGED vars
      BY <2>2, Zenon DEF do_cat, do_ls
    <3> QED
      BY <3>1, DoNothing
  <2> QED
    BY <1>4, <2>1, <2>2
<1>5. ASSUME NEW n \in Targets, NEW m \in Names, do_ln(p, n, m)
      PROVE  FsInv'
  BY <1>5, DoLn
<1>6. ASSUME NEW n \in Targets, NEW mode \in Modes, do_fopen(p, n, mode)
      PROVE  FsInv'
  BY <1>6, DoFopen
<1>7. ASSUME NEW fd \in Fd, do_fclose(p, fd)
      PROVE  FsInv'
  BY <1>7, DoFclose
<1>8. ASSUME NEW fd \in Fd, NEW offset \in Offsets,
             NEW whence \in {"SEEK_SET", "SEEK_CUR", "SEEK_END"}, do_lseek(p, fd, offset, whence)
      PROVE  FsInv'
  BY <1>8, DoLseek
<1>9. ASSUME NEW fd \in Fd, NEW length \in Lengths, do_fread(p, fd, length)
      PROVE  FsInv'
  BY <1>9, DoFread
<1>10. ASSUME NEW fd \in Fd, NEW buf \in Buffers, do_fwrite(p, fd, buf)
       PROVE  FsInv'
  BY <1>10, DoFwrite
<1>11. ASSUME NEW q \in Proc, do_exec(p, q)
       PROVE  FsInv'
  BY <1>11, DoExec
<1>12. CASE do_exit(p)
  BY <1>12, DoExit
<1> QED
  BY <1>1, <1>2, <1>3, <1>4, <1>5, <1>6, <1>7, <1>8, <1>9, <1>10, <1>11, <1>12, Zenon DEF SysCall

LEMMA FsStep ==
  ASSUME FsInv, Careful, [Next]_vars
  PROVE  FsInv'
<1>1. ASSUME NEW p \in Proc, SysCall(p)
      PROVE  FsInv'
  BY <1>1, DoSysCall
<1>2. CASE FwritePiece
  BY <1>2, DoPiece
<1>3. CASE FwriteEnd
  BY <1>3, DoEnd
<1>4. CASE bios_sdwrite
  BY <1>4, DoWrite
<1>5. CASE PowerFail
  BY <1>5, DoPowerFail
<1>6. CASE init_superblock
  BY <1>6, DoInit
<1>7. CASE UNCHANGED vars
  BY <1>7, DoNothing
<1> QED
  BY <1>1, <1>2, <1>3, <1>4, <1>5, <1>6, <1>7 DEF Next

\* Every call of fs.c, every write of a call and every power failure keeps the
\* invariant, for all sizes of the maps, of the disk and of a directory.
THEOREM FsCorrect ==
  ASSUME Careful
  PROVE  Spec => []FsInv
<1>1. Init => FsInv
  BY InitInv
<1>2. FsInv /\ [Next]_vars => FsInv'
  BY FsStep
<1> QED
  BY <1>1, <1>2, PTL DEF Spec

-----------------------------------------------------------------------------
(* The properties *)

LEMMA TypeIn ==
  ASSUME FsInv
  PROVE  TypeOK
<1>1. disk \in Disk /\ fdesc \in Files /\ cwd \in [Proc -> Nat]
  BY DEF FsInv, Typed
<1>2. /\ disk.magic \in BOOLEAN
      /\ disk.bmap \subseteq 0 .. (BWORDS * W - 1) /\ disk.imap \subseteq 0 .. (IWORDS * W - 1)
      /\ disk.inodes \in [Inum -> Inode] /\ disk.blocks \in [Blk -> Content]
  BY <1>1 DEF Disk
<1>3. DOMAIN disk.blocks = Blk /\ \A b \in Blk : disk.blocks[b] \in Content
  BY <1>2
<1> QED
  BY <1>1, <1>2, <1>3 DEF TypeOK, Files

\* The reachable inodes are those of the invariant.
LEMMA SoundIn ==
  ASSUME FsInv, Mounted
  PROVE  /\ disk \in Disk /\ Fine(disk, InUse(disk)) /\ HandlesAt(disk, InUse(disk), cwd, fdesc)
         /\ doing.op # "ln" => Linked(disk, InUse(disk))
<1>1. SoundAt(disk, cwd, fdesc) /\ (doing.op # "ln" => WholeAt(disk, cwd, fdesc))
  BY DEF FsInv, Served
<1>2. \A I : Fine(disk, I) => InUse(disk) = I
  BY ReachIs DEF Fine
<1>3. disk \in Disk /\ Fine(disk, InUse(disk)) /\ HandlesAt(disk, InUse(disk), cwd, fdesc)
  BY <1>1, <1>2 DEF SoundAt
<1>4. doing.op # "ln" => Linked(disk, InUse(disk))
  BY <1>1, <1>2 DEF WholeAt
<1> QED
  BY <1>3, <1>4

LEMMA OwnedIn ==
  ASSUME FsInv
  PROVE  DirectOwned
<1>1. Mounted => Own(disk, InUse(disk))
  BY SoundIn DEF Fine
<1>2. ASSUME NEW i, NEW j, Mounted, i \in InUse(disk), j \in InUse(disk)
      PROVE  Owned(disk, i, j)
  BY <1>1, <1>2 DEF Own, Owned
<1> QED
  BY <1>2 DEF DirectOwned

LEMMA LiveIn ==
  ASSUME FsInv
  PROVE  HandlesLive
<1>1. Mounted => HandlesAt(disk, InUse(disk), cwd, fdesc)
  BY SoundIn
<1> QED
  BY <1>1 DEF HandlesAt, HandlesLive

LEMMA NamedIn ==
  ASSUME FsInv
  PROVE  LsAssert
<1> SUFFICES ASSUME Mounted, NEW i \in InUse(disk), IsDir(disk, i), NEW e \in ls(disk, i)
             PROVE  disk.inodes[e.inum].type \in {"FILE", "DIRECTORY"}
  BY DEF LsAssert, IsDir
<1> DEFINE I == InUse(disk)
<1>1. Fine(disk, I) /\ i \in I
  BY SoundIn
<1> HIDE DEF I
<1>2. PICK j \in DOMAIN Dentries(disk, i) : Dentries(disk, i)[j] = e /\ e.valid
  BY DEF ls, Range
<1>3. Kid(disk, i, e.inum)
  BY <1>2 DEF Kid
<1>4. e.inum \in I
  BY <1>1, <1>3, ReachOf DEF Fine
<1> QED
  BY <1>1, <1>4 DEF Fine, Kinds, IsDir, IsFile

LEMMA CountedIn ==
  ASSUME FsInv
  PROVE  LinksCounted
<1> SUFFICES ASSUME Mounted, doing.op # "ln", NEW x \in InUse(disk), disk.inodes[x].type = "FILE"
             PROVE  Cardinality(NamesOf(disk, InUse(disk), x)) <= disk.inodes[x].ref
  BY DEF LinksCounted
<1>1. Linked(disk, InUse(disk))
  BY SoundIn
<1> QED
  BY <1>1 DEF Linked, IsFile

LEMMA StoresIn ==
  ASSUME FsInv
  PROVE  FwriteStores
<1>1. doing.op = "fwrite_end" => Stored(disk, fdesc[doing.fd].inum, doing.off, doing.buf)
  BY DEF FsInv, Written, File
<1> QED
  BY <1>1 DEF FwriteStores, Stored

\* The maps stay within their words and the disk, the descriptors and the
\* working directories keep their types: no call of fs.c writes an inode or a
\* block outside of the tables.
THEOREM FsTypeOK ==
  ASSUME Careful
  PROVE  Spec => []TypeOK
<1>1. Spec => []FsInv
  BY FsCorrect
<1>2. FsInv => TypeOK
  BY TypeIn
<1> QED
  BY <1>1, <1>2, PTL

\* alloc_inode and alloc_block give nothing away twice, and free_inode and
\* free_block free nothing that is in use, whatever the power does between two
\* writes: every direct block of an inode in use is marked, and is its alone.
THEOREM FsDirectOwned ==
  ASSUME Careful
  PROVE  Spec => []DirectOwned
<1>1. Spec => []FsInv
  BY FsCorrect
<1>2. FsInv => DirectOwned
  BY OwnedIn
<1> QED
  BY <1>1, <1>2, PTL

\* The working directories and the descriptors lead to inodes that the root
\* still reaches: no rm or rmdir takes them away, and do_exec and do_fopen
\* hand out no others.
THEOREM FsHandlesLive ==
  ASSUME Careful
  PROVE  Spec => []HandlesLive
<1>1. Spec => []FsInv
  BY FsCorrect
<1>2. FsInv => HandlesLive
  BY LiveIn
<1> QED
  BY <1>1, <1>2, PTL

\* The assertion of print_dentry holds: what a name leads to was written
\* before the name, by touch, mkdir and ln, and is not freed before it.
THEOREM FsLsAssert ==
  ASSUME Careful
  PROVE  Spec => []LsAssert
<1>1. Spec => []FsInv
  BY FsCorrect
<1>2. FsInv => LsAssert
  BY NamedIn
<1> QED
  BY <1>1, <1>2, PTL

\* A file has at least as many references as names, so that do_rm frees it
\* only with its last name, also after power failures within rm and touch.
THEOREM FsLinksCounted ==
  ASSUME Careful
  PROVE  Spec => []LinksCounted
<1>1. Spec => []FsInv
  BY FsCorrect
<1>2. FsInv => LinksCounted
  BY CountedIn
<1> QED
  BY <1>1, <1>2, PTL

\* When do_fwrite has ended, each byte of the buffer is in the block that
\* do_fread will look up for its offset, whether the block was there before or
\* was allocated by this call.
THEOREM FsFwriteStores ==
  ASSUME Careful
  PROVE  Spec => []FwriteStores
<1>1. Spec => []FsInv
  BY FsCorrect
<1>2. FsInv => FwriteStores
  BY StoresIn
<1> QED
  BY <1>1, <1>2, PTL
=============================================================================
