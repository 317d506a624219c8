---------------------------- MODULE MemoryProofs ----------------------------
(***************************************************************************)
(* Frames and descriptors, for every number of frames, descriptors, shared *)
(* pages and processes and every set of images.                            *)
(***************************************************************************)
EXTENDS Memory, SequenceTheorems, FiniteSetTheorems, TLAPS

-----------------------------------------------------------------------------
(* The invariant, of any state m of the memory *)

Fields == {"frontier", "free", "kstacks", "mem", "pt", "pages", "present", "swapped",
           "present_pages_num", "sector", "swap", "share", "halted"}

Fr(m) == 1 .. (m.frontier - 1)
Node == {<<i>> : i \in Nat} \cup (Nat \X Nat)

\* The directory h: its tables and entries, and the tables of every entry.
Directory(m, h) ==
  /\ DOMAIN m.pt[h] = {"tab", "pte", "task"}
  /\ IsFiniteSet(DOMAIN m.pt[h].tab) /\ DOMAIN m.pt[h].tab \subseteq Node
  /\ IsFiniteSet(DOMAIN m.pt[h].pte) /\ DOMAIN m.pt[h].pte \subseteq Uva
  /\ \A n \in DOMAIN m.pt[h].tab : m.pt[h].tab[n] \in Fr(m)
  /\ \A u \in DOMAIN m.pt[h].pte :
       /\ DOMAIN m.pt[h].pte[u] = {"kva", "present"} /\ m.pt[h].pte[u].kva \in Fr(m)
       /\ <<u[1]>> \in DOMAIN m.pt[h].tab /\ <<u[1], u[2]>> \in DOMAIN m.pt[h].tab

\* A descriptor; the frame of a page that is swapped out is a former one.
Descriptor(m, d) ==
  /\ DOMAIN m.pages[d] = {"used", "uva", "kva", "pgdir", "sector_id"}
  /\ m.pages[d].used \in BOOLEAN /\ m.pages[d].kva \in Fr(m) \cup {0}
  /\ m.pages[d].used => /\ m.pages[d].uva \in Uva /\ m.pages[d].pgdir # 0
                        /\ m.pages[d].kva # 0

Slot(m, i) == DOMAIN m.share[i] = {"kva", "ref", "key"} /\ m.share[i].ref \in Nat

Shape(m) ==
  /\ DOMAIN m = Fields
  /\ m.frontier \in Nat \ {0}
  /\ m.kstacks \subseteq Fr(m) /\ DOMAIN m.mem = Fr(m) /\ DOMAIN m.pt \subseteq Fr(m)
  /\ \A h \in DOMAIN m.pt : Directory(m, h)
  /\ DOMAIN m.pages = 1 .. MAX_PFN /\ \A d \in 1 .. MAX_PFN : Descriptor(m, d)
  /\ DOMAIN m.share = 1 .. MAX_SHARE_PAGE_NUM
  /\ \A i \in 1 .. MAX_SHARE_PAGE_NUM : Slot(m, i)

\* What frame f is used for: a stack, a page directory, table y of directory x
\* (except for the tables in X, which free_pagetable has freed and is about to
\* forget), the page with descriptor x.
Takes(m, X, k, x, y, f) ==
  \/ k = "stack" /\ x = 0 /\ y = 0 /\ f \in m.kstacks
  \/ k = "pgdir" /\ x = 0 /\ y = 0 /\ f \in DOMAIN m.pt
  \/ /\ k = "table" /\ x \in DOMAIN m.pt /\ y \in DOMAIN m.pt[x].tab
     /\ <<x, y>> \notin X /\ m.pt[x].tab[y] = f
  \/ k = "page" /\ x \in Range(m.present) /\ y = 0 /\ m.pages[x].kva = f

\* Every frame has one use or is free, once.
Sorted(m, X) ==
  /\ m.free \in Seq(Fr(m))
  /\ IsInjective(m.free)
  /\ \A k, x, y, f : Takes(m, X, k, x, y, f) => f \in Fr(m) /\ f \notin Range(m.free)
  /\ \A k, x, y, l, v, w, f :
       Takes(m, X, k, x, y, f) /\ Takes(m, X, l, v, w, f) => k = l /\ x = v /\ y = w

\* A frame that has been taken and has no use yet, or no longer.
Loose(m, X, f) ==
  f \in Fr(m) /\ f \notin Range(m.free) /\ \A k, x, y : ~ Takes(m, X, k, x, y, f)

\* The queues hold the descriptors in use, each once.
Queued(m) ==
  /\ m.present \in Seq(1 .. MAX_PFN) /\ m.swapped \in Seq(1 .. MAX_PFN)
  /\ IsInjective(m.present) /\ IsInjective(m.swapped)
  /\ Range(m.present) \cap Range(m.swapped) = {}
  /\ Range(m.present) \cup Range(m.swapped) = {d \in 1 .. MAX_PFN : m.pages[d].used}
  /\ m.present_pages_num = Len(m.present) /\ Len(m.present) <= MAX_PRESENT_PFN

Good(m, X) == Shape(m) /\ Sorted(m, X) /\ Queued(m)

-----------------------------------------------------------------------------
(* Changes of use *)

\* n differs from m in fields F only.
Only(m, n, F) == DOMAIN n = Fields /\ \A x \in Fields \ F : n[x] = m[x]

\* Of frames and uses, n has those of m, and use <<K, A, B>> of f at most.
Gains(m, n, X, K, A, B, f) ==
  /\ n.free = m.free /\ n.frontier = m.frontier
  /\ \A k, x, y, e : Takes(n, X, k, x, y, e) =>
       Takes(m, X, k, x, y, e) \/ (k = K /\ x = A /\ y = B /\ e = f)

\* n has no uses that m has not; X and Y are excepted.
Loses(m, n, X, Y) ==
  /\ n.free = m.free /\ n.frontier = m.frontier
  /\ \A k, x, y, e : Takes(n, Y, k, x, y, e) => Takes(m, X, k, x, y, e)

\* A frame without use gets one.
LEMMA TakeRule ==
  ASSUME NEW m, NEW n, NEW X, NEW f, NEW K, NEW A, NEW B,
         Sorted(m, X), Loose(m, X, f), Gains(m, n, X, K, A, B, f)
  PROVE  Sorted(n, X) /\ \A e : e # f /\ Loose(m, X, e) => Loose(n, X, e)
<1>1. Fr(n) = Fr(m) /\ n.free = m.free
  BY DEF Fr, Gains
<1>2. \A k, x, y, e : Takes(n, X, k, x, y, e) => e \in Fr(n) /\ e \notin Range(n.free)
  BY <1>1 DEF Sorted, Loose, Gains
<1>3. \A k, x, y, l, v, w, e :
        Takes(n, X, k, x, y, e) /\ Takes(n, X, l, v, w, e) => k = l /\ x = v /\ y = w
  BY DEF Sorted, Loose, Gains
<1> QED
  BY <1>1, <1>2, <1>3 DEF Sorted, Loose, Gains

\* Uses go away; a frame that loses its use is loose.
LEMMA DropRule ==
  ASSUME NEW m, NEW n, NEW X, NEW Y,
         Sorted(m, X), Loses(m, n, X, Y)
  PROVE  /\ Sorted(n, Y) /\ \A e : Loose(m, X, e) => Loose(n, Y, e)
         /\ \A k, x, y, f : Takes(m, X, k, x, y, f) /\ ~ Takes(n, Y, k, x, y, f) =>
              Loose(n, Y, f)
<1>1. Fr(n) = Fr(m) /\ n.free = m.free
  BY DEF Fr, Loses
<1> QED
  BY <1>1 DEF Sorted, Loose, Loses

-----------------------------------------------------------------------------
(* Sequences without repetition *)

LEMMA RangeSeq ==
  ASSUME NEW S, NEW s \in Seq(S)
  PROVE  \A x : x \in Range(s) <=> \E i \in 1 .. Len(s) : s[i] = x
BY DEF Range

LEMMA InjectiveSeq ==
  ASSUME NEW S, NEW s \in Seq(S)
  PROVE  IsInjective(s) <=> \A i, j \in 1 .. Len(s) : s[i] = s[j] => i = j
BY DEF IsInjective

LEMMA TailSeq ==
  ASSUME NEW S, NEW s \in Seq(S), s # <<>>, IsInjective(s)
  PROVE  /\ Tail(s) \in Seq(S) /\ IsInjective(Tail(s)) /\ Len(Tail(s)) = Len(s) - 1
         /\ Head(s) \in Range(s) /\ Range(Tail(s)) = Range(s) \ {Head(s)}
<1> DEFINE t == Tail(s)
<1>1. /\ t \in Seq(S) /\ Len(t) = Len(s) - 1 /\ Len(s) \in Nat
      /\ \A i \in 1 .. (Len(s) - 1) : t[i] = s[i + 1]
      /\ Head(s) = s[1] /\ 1 \in 1 .. Len(s)
  OBVIOUS
<1>2. \A i, j \in 1 .. Len(s) : s[i] = s[j] => i = j
  BY InjectiveSeq
<1> HIDE DEF t
<1>3. \A i, j \in 1 .. Len(t) : t[i] = t[j] => i = j
  <2> SUFFICES ASSUME NEW i \in 1 .. (Len(s) - 1), NEW j \in 1 .. (Len(s) - 1),
                      s[i + 1] = s[j + 1]
               PROVE  i = j
    BY <1>1
  <2>1. i + 1 = j + 1
    BY <1>1, <1>2
  <2> QED
    BY <2>1
<1>4. \A x : x \in Range(t) => x \in Range(s) /\ x # s[1]
  <2> SUFFICES ASSUME NEW i \in 1 .. (Len(s) - 1)
               PROVE  t[i] \in Range(s) /\ t[i] # s[1]
    BY <1>1, RangeSeq
  <2>1. i + 1 \in 1 .. Len(s) /\ i + 1 # 1 /\ t[i] = s[i + 1]
    BY <1>1
  <2> QED
    BY <1>1, <1>2, <2>1, RangeSeq
<1>5. \A x : x \in Range(s) /\ x # s[1] => x \in Range(t)
  <2> SUFFICES ASSUME NEW i \in 1 .. Len(s), s[i] # s[1]
               PROVE  s[i] \in Range(t)
    BY RangeSeq
  <2>1. i - 1 \in 1 .. Len(t) /\ t[i - 1] = s[i]
    BY <1>1
  <2> QED
    BY <1>1, <2>1, RangeSeq
<1>6. s[1] \in Range(s)
  BY <1>1, RangeSeq
<1>7. IsInjective(t)
  BY <1>1, <1>3, InjectiveSeq
<1> QED
  BY <1>1, <1>4, <1>5, <1>6, <1>7 DEF t

LEMMA AppendSeq ==
  ASSUME NEW S, NEW s \in Seq(S), NEW x \in S, x \notin Range(s), IsInjective(s)
  PROVE  /\ Append(s, x) \in Seq(S) /\ IsInjective(Append(s, x))
         /\ Len(Append(s, x)) = Len(s) + 1 /\ Range(Append(s, x)) = Range(s) \cup {x}
<1> DEFINE t == Append(s, x)
<1>1. /\ t \in Seq(S) /\ Len(t) = Len(s) + 1 /\ Len(s) \in Nat
      /\ \A i \in 1 .. Len(s) : t[i] = s[i]
      /\ t[Len(s) + 1] = x
  OBVIOUS
<1>2. /\ \A i, j \in 1 .. Len(s) : s[i] = s[j] => i = j
      /\ \A i \in 1 .. Len(s) : s[i] # x
  BY InjectiveSeq, RangeSeq
<1> HIDE DEF t
<1>3. \A i, j \in 1 .. Len(t) : t[i] = t[j] => i = j
  BY <1>1, <1>2
<1>4. Range(t) = Range(s) \cup {x}
  <2>1. \A y : (\E i \in 1 .. Len(t) : t[i] = y) <=> (\E i \in 1 .. Len(s) : s[i] = y) \/ y = x
    BY <1>1
  <2>2. \A y : y \in Range(t) <=> y \in Range(s) \/ y = x
    BY <1>1, <2>1, RangeSeq
  <2> QED
    BY <2>2
<1>5. IsInjective(t)
  BY <1>1, <1>3, InjectiveSeq
<1> QED
  BY <1>1, <1>4, <1>5 DEF t

LEMMA ConsSeq ==
  ASSUME NEW S, NEW s \in Seq(S), NEW x \in S, x \notin Range(s), IsInjective(s)
  PROVE  /\ <<x>> \o s \in Seq(S) /\ IsInjective(<<x>> \o s)
         /\ Range(<<x>> \o s) = Range(s) \cup {x}
<1> DEFINE t == <<x>> \o s
<1>1. /\ t \in Seq(S) /\ Len(t) = Len(s) + 1 /\ Len(s) \in Nat
      /\ t[1] = x /\ \A i \in 2 .. Len(t) : t[i] = s[i - 1]
  OBVIOUS
<1>2. /\ \A i, j \in 1 .. Len(s) : s[i] = s[j] => i = j
      /\ \A i \in 1 .. Len(s) : s[i] # x
  BY InjectiveSeq, RangeSeq
<1> HIDE DEF t
<1>3. \A i, j \in 1 .. Len(t) : t[i] = t[j] => i = j
  <2> SUFFICES ASSUME NEW i \in 1 .. Len(t), NEW j \in 1 .. Len(t), t[i] = t[j]
               PROVE  i = j
    OBVIOUS
  <2>1. CASE i = 1 \/ j = 1
    BY <1>1, <1>2, <2>1
  <2>2. CASE i # 1 /\ j # 1
    <3>1. i - 1 \in 1 .. Len(s) /\ j - 1 \in 1 .. Len(s) /\ s[i - 1] = s[j - 1]
      BY <1>1, <2>2
    <3>2. i - 1 = j - 1
      BY <1>2, <3>1
    <3> QED
      BY <3>2
  <2> QED
    BY <2>1, <2>2
<1>4. Range(t) = Range(s) \cup {x}
  <2>1. ASSUME NEW i \in 1 .. Len(t) PROVE t[i] \in Range(s) \cup {x}
    <3>1. i = 1 \/ (i - 1 \in 1 .. Len(s) /\ t[i] = s[i - 1])
      BY <1>1
    <3> QED
      BY <1>1, <3>1, RangeSeq
  <2>2. ASSUME NEW i \in 1 .. Len(s) PROVE s[i] \in Range(t)
    <3>1. i + 1 \in 2 .. Len(t) /\ t[i + 1] = s[(i + 1) - 1] /\ (i + 1) - 1 = i
      BY <1>1
    <3> QED
      BY <1>1, <3>1, RangeSeq
  <2>3. x \in Range(t)
    BY <1>1, RangeSeq
  <2>4. \A y \in Range(t) : y \in Range(s) \cup {x}
    BY <1>1, <2>1, RangeSeq
  <2>5. \A y \in Range(s) : y \in Range(t)
    BY <2>2, RangeSeq
  <2> QED
    BY <2>3, <2>4, <2>5
<1>5. IsInjective(t)
  BY <1>1, <1>3, InjectiveSeq
<1> QED
  BY <1>1, <1>4, <1>5 DEF t

\* list_delete_entry on a queue.
LEMMA RemoveSeq ==
  ASSUME NEW S, NEW s \in Seq(S), NEW p, IsInjective(s)
  PROVE  /\ RemoveFirst(s, p) \in Seq(S) /\ IsInjective(RemoveFirst(s, p))
         /\ Range(RemoveFirst(s, p)) = Range(s) \ {p}
         /\ Len(RemoveFirst(s, p)) = Len(s) - (IF p \in Range(s) THEN 1 ELSE 0)
<1>0. \A i, j \in 1 .. Len(s) : s[i] = s[j] => i = j
  BY InjectiveSeq
<1>1. CASE p \notin Range(s)
  <2>1. RemoveFirst(s, p) = s
    BY <1>1, RangeSeq DEF RemoveFirst
  <2> QED
    BY <1>1, <2>1
<1>2. CASE p \in Range(s)
  <2>1. PICK i \in 1 .. Len(s) : s[i] = p
    BY <1>2, RangeSeq
  <2> DEFINE a == SubSeq(s, 1, i - 1)
             b == SubSeq(s, i + 1, Len(s))
             d == a \o b
  <2>2. {j \in 1 .. Len(s) : s[j] = p} = {i}
    BY <1>0, <2>1
  <2>3. SelectInSeq(s, LAMBDA v : v = p) = i
    BY <2>2 DEF SelectInSeq, Min
  <2>4. RemoveFirst(s, p) = d
    BY <2>1, <2>3 DEF RemoveFirst, RemoveAt
  <2>5. a \in Seq(S) /\ Len(a) = i - 1 /\ \A k \in 1 .. (i - 1) : a[k] = s[k]
    OBVIOUS
  <2>6. /\ b \in Seq(S) /\ Len(b) = Len(s) - i
        /\ \A k \in 1 .. (Len(s) - i) : b[k] = s[k + i]
    OBVIOUS
  <2> HIDE DEF a, b
  <2>7. d \in Seq(S) /\ Len(d) = Len(s) - 1
    <3>1. d \in Seq(S) /\ Len(d) = Len(a) + Len(b)
      BY <2>5, <2>6, ConcatProperties, Zenon
    <3> QED
      BY <2>5, <2>6, <3>1
  <2>8. \A k \in 1 .. (Len(s) - 1) : d[k] = IF k <= Len(a) THEN a[k] ELSE b[k - Len(a)]
    BY <2>5, <2>6, ConcatProperties
  <2>9. \A k \in 1 .. (Len(s) - 1) : d[k] = IF k < i THEN s[k] ELSE s[k + 1]
    BY <2>5, <2>6, <2>8
  <2> HIDE DEF d
  <2>10. \A j, k \in 1 .. Len(d) : d[j] = d[k] => j = k
    BY <1>0, <2>7, <2>9
  <2>11. ASSUME NEW k \in 1 .. Len(d) PROVE d[k] \in Range(s) \ {p}
    <3>1. /\ k < i => k \in 1 .. Len(s) /\ d[k] = s[k] /\ k # i
          /\ k >= i => k + 1 \in 1 .. Len(s) /\ d[k] = s[k + 1] /\ k + 1 # i
      BY <2>7, <2>9
    <3>2. \E j \in 1 .. Len(s) : d[k] = s[j] /\ j # i
      BY <3>1
    <3> QED
      BY <1>0, <2>1, <3>2, RangeSeq
  <2>12. ASSUME NEW k \in 1 .. Len(s), s[k] # p PROVE s[k] \in Range(d)
    <3>1. CASE k < i
      <4>1. k \in 1 .. Len(d) /\ d[k] = s[k]
        BY <2>7, <2>9, <3>1
      <4> QED
        BY <2>7, <4>1, RangeSeq
    <3>2. CASE k > i
      <4>1. k - 1 \in 1 .. Len(d) /\ d[k - 1] = s[(k - 1) + 1] /\ (k - 1) + 1 = k
        BY <2>7, <2>9, <3>2
      <4> QED
        BY <2>7, <4>1, RangeSeq
    <3> QED
      BY <2>1, <2>12, <3>1, <3>2
  <2>13. Range(d) = Range(s) \ {p}
    <3>1. \A y \in Range(d) : y \in Range(s) \ {p}
      BY <2>7, <2>11, RangeSeq
    <3>2. \A y \in Range(s) \ {p} : y \in Range(d)
      BY <2>12, RangeSeq
    <3> QED
      BY <3>1, <3>2
  <2>14. IsInjective(d)
    BY <2>7, <2>10, InjectiveSeq
  <2> QED
    BY <1>2, <2>4, <2>7, <2>13, <2>14
<1> QED
  BY <1>1, <1>2

\* A search finds the least index.
LEMMA MinIn ==
  ASSUME NEW n \in Nat, NEW S \in SUBSET (0 .. n), S # {}
  PROVE  Min(S) \in S /\ \A i \in S : Min(S) <= i
<1> DEFINE R == OpToRel(<, Nat)
<1>1. PICK x \in S : \A y \in S : ~ (<<y, x>> \in R)
  <2>1. S \subseteq Nat
    OBVIOUS
  <2>2. IsWellFoundedOn(R, Nat)
    BY NatLessThanWellFounded
  <2> HIDE DEF R
  <2> QED
    BY <2>1, <2>2, WFMin
<1>2. \A y \in Nat : y < x => <<y, x>> \in R
  BY DEF OpToRel
<1> HIDE DEF R
<1>3. S \subseteq Nat
  OBVIOUS
<1>4. ASSUME NEW y \in S PROVE x <= y
  <2>1. ~ (y < x)
    BY <1>1, <1>2, <1>3, Zenon
  <2> QED
    BY <1>3, <2>1
<1> QED
  BY <1>4 DEF Min

-----------------------------------------------------------------------------
(* kalloc and kfree *)

\* The parts of Shape depend on fields that are copied, and on there being no
\* fewer frames.
LEMMA ShapeParts ==
  ASSUME NEW m, NEW n, m.frontier \in Nat \ {0}, n.frontier \in Nat,
         m.frontier <= n.frontier
  PROVE  /\ Fr(m) \subseteq Fr(n)
         /\ \A h : n.pt[h] = m.pt[h] /\ Directory(m, h) => Directory(n, h)
         /\ \A d : n.pages[d] = m.pages[d] /\ Descriptor(m, d) => Descriptor(n, d)
         /\ \A i : n.share[i] = m.share[i] /\ Slot(m, i) => Slot(n, i)
<1>1. Fr(m) \subseteq Fr(n)
  BY DEF Fr
<1>2. \A h : n.pt[h] = m.pt[h] /\ Directory(m, h) => Directory(n, h)
  BY <1>1 DEF Directory
<1>3. \A d : n.pages[d] = m.pages[d] /\ Descriptor(m, d) => Descriptor(n, d)
  BY <1>1 DEF Descriptor
<1>4. \A i : n.share[i] = m.share[i] /\ Slot(m, i) => Slot(n, i)
  BY <1>1 DEF Slot
<1> QED
  BY <1>1, <1>2, <1>3, <1>4

LEMMA KallocEffect ==
  ASSUME NEW m, DOMAIN m = Fields
  PROVE  LET n == kalloc(m)
         IN  /\ Only(m, n, {"frontier", "free", "mem"})
             /\ m.free = <<>> => n.frontier = m.frontier + 1 /\ n.free = <<>>
             /\ m.free # <<>> => n.frontier = m.frontier /\ n.free = Tail(m.free)
             /\ DOMAIN n.mem = DOMAIN m.mem \cup {NextFrame(m)}
BY DEF kalloc, Only, Fields, Put, PutAll

LEMMA KallocGood ==
  ASSUME NEW m, NEW X, Good(m, X)
  PROVE  /\ Good(kalloc(m), X) /\ Loose(kalloc(m), X, NextFrame(m))
         /\ \A f : Loose(m, X, f) => f # NextFrame(m) /\ Loose(kalloc(m), X, f)
<1> DEFINE n == kalloc(m)
           f == NextFrame(m)
<1>1. DOMAIN m = Fields /\ m.frontier \in Nat \ {0}
  BY DEF Good, Shape
<1>2. /\ Only(m, n, {"frontier", "free", "mem"})
      /\ m.free = <<>> => n.frontier = m.frontier + 1 /\ n.free = <<>>
      /\ m.free # <<>> => n.frontier = m.frontier /\ n.free = Tail(m.free)
      /\ DOMAIN n.mem = DOMAIN m.mem \cup {f}
  BY <1>1, KallocEffect
<1> HIDE DEF n
<1>3. /\ n.kstacks = m.kstacks /\ n.pt = m.pt /\ n.pages = m.pages /\ n.present = m.present
      /\ n.swapped = m.swapped /\ n.present_pages_num = m.present_pages_num
      /\ n.share = m.share /\ DOMAIN n = Fields
  BY <1>2 DEF Only, Fields
<1>4. \A k, x, y, e : Takes(n, X, k, x, y, e) <=> Takes(m, X, k, x, y, e)
  BY <1>3 DEF Takes
<1>5. n.frontier \in Nat \ {0} /\ m.frontier <= n.frontier
  BY <1>1, <1>2
<1>6. Fr(m) \subseteq Fr(n)
  BY <1>1, <1>5, ShapeParts
<1>7. /\ n.free \in Seq(Fr(n))
      /\ IsInjective(n.free)
      /\ Range(n.free) \subseteq Range(m.free) \ {f} /\ f \in Fr(n)
      /\ \A e \in Fr(m) \ Range(m.free) : e # f
      /\ Fr(n) = Fr(m) \cup {f}
  <2>1. CASE m.free = <<>>
    <3>1. f = m.frontier /\ n.free = <<>> /\ n.frontier = m.frontier + 1
      BY <1>2, <2>1 DEF NextFrame
    <3>2. f \in Fr(n) /\ f \notin Fr(m) /\ Fr(n) = Fr(m) \cup {f}
      BY <1>1, <3>1 DEF Fr
    <3> QED
      BY <2>1, <3>1, <3>2 DEF Range, IsInjective
  <2>2. CASE m.free # <<>>
    <3>1. m.free \in Seq(Fr(m)) /\ IsInjective(m.free)
      BY DEF Good, Sorted
    <3>2. f = Head(m.free) /\ n.free = Tail(m.free) /\ Fr(n) = Fr(m)
      BY <1>2, <2>2 DEF NextFrame, Fr
    <3>3. /\ Tail(m.free) \in Seq(Fr(m)) /\ IsInjective(Tail(m.free))
          /\ Head(m.free) \in Range(m.free)
          /\ Range(Tail(m.free)) = Range(m.free) \ {Head(m.free)}
      BY <2>2, <3>1, TailSeq
    <3>4. Range(m.free) \subseteq Fr(m)
      BY <3>1, RangeSeq
    <3> QED
      BY <3>2, <3>3, <3>4
  <2> QED
    BY <2>1, <2>2
<1>8. Shape(n)
  <2>1. Shape(m)
    BY DEF Good
  <2>2. n.kstacks \subseteq Fr(n) /\ DOMAIN n.mem = Fr(n) /\ DOMAIN n.pt \subseteq Fr(n)
    BY <1>2, <1>3, <1>6, <1>7, <2>1 DEF Shape
  <2>3. \A h \in DOMAIN n.pt : Directory(n, h)
    BY <1>1, <1>3, <1>5, <2>1, ShapeParts DEF Shape
  <2>4. \A d \in 1 .. MAX_PFN : Descriptor(n, d)
    BY <1>1, <1>3, <1>5, <2>1, ShapeParts DEF Shape
  <2>5. \A i \in 1 .. MAX_SHARE_PAGE_NUM : Slot(n, i)
    BY <1>1, <1>3, <1>5, <2>1, ShapeParts DEF Shape
  <2> QED
    BY <1>3, <1>5, <2>1, <2>2, <2>3, <2>4, <2>5 DEF Shape
<1>9. Sorted(n, X)
  BY <1>4, <1>6, <1>7 DEF Sorted, Good
<1>10. Queued(n)
  BY <1>3 DEF Queued, Good
<1>11. Loose(n, X, f) /\ \A e : Loose(m, X, e) => e # f /\ Loose(n, X, e)
  <2>1. \A k, x, y : ~ Takes(m, X, k, x, y, f)
    BY <1>7 DEF Good, Sorted
  <2> QED
    BY <1>4, <1>6, <1>7, <2>1 DEF Loose
<1> QED
  BY <1>8, <1>9, <1>10, <1>11 DEF Good, n

LEMMA KfreeEffect ==
  ASSUME NEW m, NEW f, DOMAIN m = Fields, f # 0
  PROVE  LET n == kfree(m, f)
         IN  /\ Only(m, n, {"free", "mem"})
             /\ n.free = <<f>> \o m.free /\ DOMAIN n.mem = DOMAIN m.mem
BY DEF kfree, Only, Fields

LEMMA KfreeGood ==
  ASSUME NEW m, NEW X, NEW f, Good(m, X), Loose(m, X, f)
  PROVE  /\ Good(kfree(m, f), X)
         /\ \A e : e # f /\ Loose(m, X, e) => Loose(kfree(m, f), X, e)
<1> DEFINE n == kfree(m, f)
<1>1. DOMAIN m = Fields /\ m.frontier \in Nat \ {0} /\ f \in Fr(m) /\ f # 0
  BY DEF Good, Shape, Loose, Fr
<1>2. /\ Only(m, n, {"free", "mem"})
      /\ n.free = <<f>> \o m.free /\ DOMAIN n.mem = DOMAIN m.mem
  BY <1>1, KfreeEffect
<1> HIDE DEF n
<1>3. /\ n.kstacks = m.kstacks /\ n.pt = m.pt /\ n.pages = m.pages /\ n.present = m.present
      /\ n.swapped = m.swapped /\ n.present_pages_num = m.present_pages_num
      /\ n.share = m.share /\ DOMAIN n = Fields /\ n.frontier = m.frontier /\ Fr(n) = Fr(m)
  BY <1>2 DEF Only, Fields, Fr
<1>4. \A k, x, y, e : Takes(n, X, k, x, y, e) <=> Takes(m, X, k, x, y, e)
  BY <1>3 DEF Takes
<1>5. m.free \in Seq(Fr(m)) /\ IsInjective(m.free) /\ f \notin Range(m.free)
  BY DEF Good, Sorted, Loose
<1>11. /\ n.free \in Seq(Fr(n)) /\ IsInjective(n.free)
       /\ Range(n.free) = Range(m.free) \cup {f}
  BY <1>1, <1>2, <1>3, <1>5, ConsSeq
<1>12. Sorted(n, X)
  <2>2. \A k, x, y, e : Takes(n, X, k, x, y, e) => e \in Fr(n) /\ e \notin Range(n.free)
    BY <1>3, <1>4, <1>11 DEF Good, Sorted, Loose
  <2> QED
    BY <1>4, <1>11, <2>2 DEF Good, Sorted
<1>13. Shape(n)
  <2>1. \A h \in DOMAIN n.pt : Directory(n, h)
    BY <1>1, <1>3, ShapeParts DEF Good, Shape
  <2>2. \A d \in 1 .. MAX_PFN : Descriptor(n, d)
    BY <1>1, <1>3, ShapeParts DEF Good, Shape
  <2>3. \A i \in 1 .. MAX_SHARE_PAGE_NUM : Slot(n, i)
    BY <1>1, <1>3, ShapeParts DEF Good, Shape
  <2> QED
    BY <1>2, <1>3, <2>1, <2>2, <2>3 DEF Good, Shape
<1>14. Queued(n)
  BY <1>3 DEF Queued, Good
<1>15. \A e : e # f /\ Loose(m, X, e) => Loose(n, X, e)
  BY <1>3, <1>4, <1>11 DEF Loose
<1> QED
  BY <1>12, <1>13, <1>14, <1>15 DEF Good, n

-----------------------------------------------------------------------------
(* Page tables *)

\* From m to n frames may be taken, for tables, and no use is lost or changed.
Grows(m, n) ==
  /\ Only(m, n, {"frontier", "free", "mem", "pt"}) /\ Fr(m) \subseteq Fr(n)
  /\ DOMAIN n.pt = DOMAIN m.pt /\ \A f : Loose(m, {}, f) => Loose(n, {}, f)

\* Every directory has the entries that it had, and g has uva too.
Adds(m, n, g, uva) ==
  \A h \in DOMAIN m.pt : DOMAIN n.pt[h].pte =
    DOMAIN m.pt[h].pte \cup (IF h = g THEN {uva} ELSE {})

SetTable(m, g, node, f) == [m EXCEPT !.pt[g].tab = Put(@, node, f)]

\* A loose frame becomes a table.
LEMMA TabGood ==
  ASSUME NEW m, NEW g, NEW node, NEW f, Good(m, {}), Loose(m, {}, f),
         g \in DOMAIN m.pt, node \in Node
  PROVE  LET n == SetTable(m, g, node, f)
         IN  /\ Good(n, {}) /\ \A e : e # f /\ Loose(m, {}, e) => Loose(n, {}, e)
             /\ Only(m, n, {"pt"}) /\ DOMAIN n.pt = DOMAIN m.pt
             /\ \A h \in DOMAIN m.pt : n.pt[h].pte = m.pt[h].pte
             /\ \A h \in DOMAIN m.pt : DOMAIN m.pt[h].tab \subseteq DOMAIN n.pt[h].tab
             /\ node \in DOMAIN n.pt[g].tab
<1> DEFINE n == SetTable(m, g, node, f)
<1>1. /\ DOMAIN m = Fields /\ m.frontier \in Nat \ {0} /\ f \in Fr(m)
      /\ DOMAIN m.pt[g] = {"tab", "pte", "task"} /\ Directory(m, g)
  BY DEF Good, Shape, Loose, Fr, Directory
<1>2. /\ Only(m, n, {"pt"}) /\ DOMAIN n.pt = DOMAIN m.pt
      /\ \A h \in DOMAIN m.pt \ {g} : n.pt[h] = m.pt[h]
      /\ DOMAIN n.pt[g] = DOMAIN m.pt[g] /\ n.pt[g].pte = m.pt[g].pte
      /\ DOMAIN n.pt[g].tab = DOMAIN m.pt[g].tab \cup {node} /\ n.pt[g].tab[node] = f
      /\ \A x \in DOMAIN m.pt[g].tab \ {node} : n.pt[g].tab[x] = m.pt[g].tab[x]
  BY <1>1 DEF SetTable, Only, Fields, Put, PutAll
<1> HIDE DEF n
<1>3. /\ n.kstacks = m.kstacks /\ n.pages = m.pages /\ n.present = m.present
      /\ n.swapped = m.swapped /\ n.present_pages_num = m.present_pages_num
      /\ n.share = m.share /\ DOMAIN n = Fields /\ n.frontier = m.frontier /\ Fr(n) = Fr(m)
      /\ n.free = m.free /\ n.mem = m.mem
  BY <1>2 DEF Only, Fields, Fr
<1>4. Gains(m, n, {}, "table", g, node, f)
  BY <1>2, <1>3 DEF Takes, Gains
<1>5. Sorted(n, {}) /\ \A e : e # f /\ Loose(m, {}, e) => Loose(n, {}, e)
  BY <1>4, TakeRule DEF Good
<1>6. Directory(n, g)
  <2>1. IsFiniteSet(DOMAIN n.pt[g].tab)
    <3>1. IsFiniteSet(DOMAIN m.pt[g].tab)
      BY <1>1 DEF Directory
    <3>2. IsFiniteSet(DOMAIN m.pt[g].tab \cup {node})
      BY <3>1, FS_AddElement, Zenon
    <3> QED
      BY <1>2, <3>2
  <2> QED
    BY <1>1, <1>2, <1>3, <2>1 DEF Directory
<1>7. Shape(n)
  <2>1. \A h \in DOMAIN n.pt : Directory(n, h)
    BY <1>1, <1>2, <1>3, <1>6, ShapeParts DEF Good, Shape
  <2>2. \A d \in 1 .. MAX_PFN : Descriptor(n, d)
    BY <1>1, <1>3, ShapeParts DEF Good, Shape
  <2>3. \A i \in 1 .. MAX_SHARE_PAGE_NUM : Slot(n, i)
    BY <1>1, <1>3, ShapeParts DEF Good, Shape
  <2> QED
    BY <1>2, <1>3, <2>1, <2>2, <2>3 DEF Good, Shape
<1>8. Queued(n)
  BY <1>3 DEF Queued, Good
<1> QED
  BY <1>2, <1>5, <1>7, <1>8 DEF Good, n


LEMMA TableGood ==
  ASSUME NEW m, NEW g, NEW node, Good(m, {}), g \in DOMAIN m.pt, node \in Node
  PROVE  LET n == WithTable(m, g, node)
         IN  /\ Good(n, {}) /\ Grows(m, n) /\ node \in DOMAIN n.pt[g].tab
             /\ \A h \in DOMAIN m.pt : n.pt[h].pte = m.pt[h].pte
             /\ \A h \in DOMAIN m.pt : DOMAIN m.pt[h].tab \subseteq DOMAIN n.pt[h].tab
<1>1. DOMAIN m = Fields /\ m.frontier \in Nat \ {0}
  BY DEF Good, Shape
<1>2. CASE node \in DOMAIN m.pt[g].tab
  <2>1. WithTable(m, g, node) = m
    BY <1>2 DEF WithTable
  <2> QED
    BY <1>1, <1>2, <2>1 DEF Grows, Only
<1>3. CASE node \notin DOMAIN m.pt[g].tab
  <2> DEFINE k == kalloc(m)
             f == NextFrame(m)
             n == SetTable(k, g, node, f)
  <2>1. WithTable(m, g, node) = n
    BY <1>3 DEF WithTable, SetTable
  <2>2. /\ Good(k, {}) /\ Loose(k, {}, f)
        /\ \A e : Loose(m, {}, e) => e # f /\ Loose(k, {}, e)
    BY KallocGood
  <2>3. Only(m, k, {"frontier", "free", "mem"}) /\ k.frontier \in Nat /\ m.frontier <= k.frontier
    BY <1>1, KallocEffect
  <2> HIDE DEF k, f
  <2>4. k.pt = m.pt /\ Fr(m) \subseteq Fr(k)
    BY <1>1, <2>3, ShapeParts DEF Only, Fields
  <2>5. /\ Good(n, {}) /\ \A e : e # f /\ Loose(k, {}, e) => Loose(n, {}, e)
        /\ Only(k, n, {"pt"}) /\ DOMAIN n.pt = DOMAIN k.pt
        /\ \A h \in DOMAIN k.pt : n.pt[h].pte = k.pt[h].pte
        /\ \A h \in DOMAIN k.pt : DOMAIN k.pt[h].tab \subseteq DOMAIN n.pt[h].tab
        /\ node \in DOMAIN n.pt[g].tab
    BY <2>2, <2>4, TabGood
  <2> HIDE DEF n
  <2>6. Only(m, n, {"frontier", "free", "mem", "pt"}) /\ n.frontier = k.frontier
    BY <2>3, <2>5 DEF Only, Fields
  <2>7. Fr(m) \subseteq Fr(n)
    BY <2>4, <2>6 DEF Fr
  <2> QED
    BY <2>1, <2>2, <2>4, <2>5, <2>6, <2>7 DEF Grows
<1> QED
  BY <1>2, <1>3

SetEntry(m, g, uva, e) == [m EXCEPT !.pt[g].pte = Put(@, uva, e)]

\* An entry is written; the tables are there.
LEMMA EntryGood ==
  ASSUME NEW m, NEW X, NEW g, NEW uva \in Uva, NEW f \in Fr(m), NEW b, Good(m, X),
         g \in DOMAIN m.pt, <<uva[1]>> \in DOMAIN m.pt[g].tab,
         <<uva[1], uva[2]>> \in DOMAIN m.pt[g].tab
  PROVE  LET n == SetEntry(m, g, uva, [kva |-> f, present |-> b])
         IN  /\ Good(n, X) /\ \A e : Loose(m, X, e) => Loose(n, X, e)
             /\ Only(m, n, {"pt"}) /\ DOMAIN n.pt = DOMAIN m.pt /\ Adds(m, n, g, uva)
<1> DEFINE n == SetEntry(m, g, uva, [kva |-> f, present |-> b])
<1>1. /\ DOMAIN m = Fields /\ m.frontier \in Nat \ {0}
      /\ DOMAIN m.pt[g] = {"tab", "pte", "task"} /\ Directory(m, g)
  BY DEF Good, Shape, Directory
<1>2. /\ Only(m, n, {"pt"}) /\ DOMAIN n.pt = DOMAIN m.pt
      /\ \A h \in DOMAIN m.pt \ {g} : n.pt[h] = m.pt[h]
      /\ DOMAIN n.pt[g] = DOMAIN m.pt[g] /\ n.pt[g].tab = m.pt[g].tab
      /\ DOMAIN n.pt[g].pte = DOMAIN m.pt[g].pte \cup {uva}
      /\ n.pt[g].pte[uva] = [kva |-> f, present |-> b]
      /\ \A x \in DOMAIN m.pt[g].pte \ {uva} : n.pt[g].pte[x] = m.pt[g].pte[x]
  BY <1>1 DEF SetEntry, Only, Fields, Put, PutAll
<1> HIDE DEF n
<1>3. /\ n.kstacks = m.kstacks /\ n.pages = m.pages /\ n.present = m.present
      /\ n.swapped = m.swapped /\ n.present_pages_num = m.present_pages_num
      /\ n.share = m.share /\ DOMAIN n = Fields /\ n.frontier = m.frontier /\ Fr(n) = Fr(m)
      /\ n.free = m.free /\ n.mem = m.mem
  BY <1>2 DEF Only, Fields, Fr
<1>4. Loses(m, n, X, X)
  BY <1>2, <1>3 DEF Takes, Loses
<1>5. Sorted(n, X) /\ \A e : Loose(m, X, e) => Loose(n, X, e)
  BY <1>4, DropRule DEF Good
<1>6. Directory(n, g)
  <2>1. IsFiniteSet(DOMAIN n.pt[g].pte)
    <3>1. IsFiniteSet(DOMAIN m.pt[g].pte)
      BY <1>1 DEF Directory
    <3>2. IsFiniteSet(DOMAIN m.pt[g].pte \cup {uva})
      BY <3>1, FS_AddElement, Zenon
    <3> QED
      BY <1>2, <3>2
  <2>2. DOMAIN n.pt[g].pte[uva] = {"kva", "present"} /\ n.pt[g].pte[uva].kva = f
    BY <1>2
  <2> QED
    BY <1>1, <1>2, <1>3, <2>1, <2>2, SMTT(30) DEF Directory
<1>7. Shape(n)
  <2>1. \A h \in DOMAIN n.pt : Directory(n, h)
    BY <1>1, <1>2, <1>3, <1>6, ShapeParts DEF Good, Shape
  <2>2. \A d \in 1 .. MAX_PFN : Descriptor(n, d)
    BY <1>1, <1>3, ShapeParts DEF Good, Shape
  <2>3. \A i \in 1 .. MAX_SHARE_PAGE_NUM : Slot(n, i)
    BY <1>1, <1>3, ShapeParts DEF Good, Shape
  <2> QED
    BY <1>2, <1>3, <2>1, <2>2, <2>3 DEF Good, Shape
<1>8. Queued(n)
  BY <1>3 DEF Queued, Good
<1>9. Adds(m, n, g, uva)
  BY <1>2 DEF Adds
<1> QED
  BY <1>2, <1>5, <1>7, <1>8, <1>9 DEF Good, n

LEMMA MapGood ==
  ASSUME NEW m, NEW g, NEW uva \in Uva, NEW f \in Fr(m), Good(m, {}), g \in DOMAIN m.pt
  PROVE  LET n == map_uva_to_kva(m, uva, f, g)
         IN  Good(n, {}) /\ Grows(m, n) /\ Adds(m, n, g, uva)
<1> DEFINE a == WithTable(m, g, <<uva[1]>>)
           b == WithTable(a, g, <<uva[1], uva[2]>>)
           n == SetEntry(b, g, uva, [kva |-> f, present |-> TRUE])
<1>1. <<uva[1]>> \in Node /\ <<uva[1], uva[2]>> \in Node
  BY DEF Node, Uva
<1>2. /\ Good(a, {}) /\ Grows(m, a) /\ <<uva[1]>> \in DOMAIN a.pt[g].tab
      /\ \A h \in DOMAIN m.pt : a.pt[h].pte = m.pt[h].pte
  BY <1>1, TableGood
<1> HIDE DEF a
<1>3. g \in DOMAIN a.pt
  BY <1>2 DEF Grows
<1>4. /\ Good(b, {}) /\ Grows(a, b) /\ <<uva[1], uva[2]>> \in DOMAIN b.pt[g].tab
      /\ \A h \in DOMAIN a.pt : b.pt[h].pte = a.pt[h].pte
      /\ \A h \in DOMAIN a.pt : DOMAIN a.pt[h].tab \subseteq DOMAIN b.pt[h].tab
  BY <1>1, <1>2, <1>3, TableGood
<1> HIDE DEF b
<1>5. g \in DOMAIN b.pt /\ f \in Fr(b) /\ <<uva[1]>> \in DOMAIN b.pt[g].tab
  BY <1>2, <1>3, <1>4 DEF Grows
<1>6. /\ Good(n, {}) /\ \A e : Loose(b, {}, e) => Loose(n, {}, e)
      /\ Only(b, n, {"pt"}) /\ DOMAIN n.pt = DOMAIN b.pt /\ Adds(b, n, g, uva)
  BY <1>4, <1>5, EntryGood
<1>7. map_uva_to_kva(m, uva, f, g) = n
  BY DEF map_uva_to_kva, SetEntry, a, b
<1> HIDE DEF n
<1>8. Adds(m, n, g, uva) /\ DOMAIN n.pt = DOMAIN m.pt
  BY <1>2, <1>4, <1>6 DEF Adds, Grows
<1>9. n.frontier = b.frontier /\ Fr(n) = Fr(b)
  BY <1>6 DEF Only, Fields, Fr
<1>10. Only(m, n, {"frontier", "free", "mem", "pt"})
  BY <1>2, <1>4, <1>6 DEF Grows, Only, Fields
<1>11. Grows(m, n)
  BY <1>2, <1>4, <1>6, <1>8, <1>9, <1>10 DEF Grows
<1> QED
  BY <1>6, <1>7, <1>8, <1>11

-----------------------------------------------------------------------------
(* Swapping out *)

\* The descriptors are for the same pages as before.
SamePages(m, n) ==
  \A d \in 1 .. MAX_PFN : /\ n.pages[d].used = m.pages[d].used
                          /\ n.pages[d].uva = m.pages[d].uva
                          /\ n.pages[d].pgdir = m.pages[d].pgdir

SameEntries(m, n) ==
  DOMAIN n.pt = DOMAIN m.pt /\ \A h \in DOMAIN m.pt : DOMAIN n.pt[h].pte = DOMAIN m.pt[h].pte

\* The state in which swap_out frees the page.
Unloaded(m) ==
  LET d == Head(m.present)
      page == m.pages[d]
      out == [m EXCEPT !.present = Tail(@), !.swapped = Append(@, d),
                !.swap = PutAll(@, m.sector .. (m.sector + SECTORS_PER_PAGE - 1),
                                m.mem[page.kva]),
                !.pages[d].sector_id = m.sector,
                !.sector = @ + SECTORS_PER_PAGE,
                !.present_pages_num = @ - 1]
  IN  [out EXCEPT !.pt[page.pgdir].pte[page.uva].present = FALSE]

\* d is the oldest page, with address u in directory h, where it has an entry.
Oldest(m, d, h, u) ==
  /\ DOMAIN m = Fields /\ d = Head(m.present) /\ d \in DOMAIN m.pages
  /\ DOMAIN m.pages[d] = {"used", "uva", "kva", "pgdir", "sector_id"}
  /\ h = m.pages[d].pgdir /\ u = m.pages[d].uva /\ h \in DOMAIN m.pt
  /\ DOMAIN m.pt[h] = {"tab", "pte", "task"} /\ u \in DOMAIN m.pt[h].pte
  /\ DOMAIN m.pt[h].pte[u] = {"kva", "present"}

Unloads(m, n, d, h) ==
  /\ Only(m, n, {"present", "swapped", "swap", "pages", "sector", "present_pages_num", "pt"})
  /\ n.present = Tail(m.present) /\ n.swapped = Append(m.swapped, d)
  /\ n.present_pages_num = m.present_pages_num - 1
  /\ DOMAIN n.pages = DOMAIN m.pages
  /\ \A e \in DOMAIN m.pages \ {d} : n.pages[e] = m.pages[e]
  /\ DOMAIN n.pages[d] = DOMAIN m.pages[d]
  /\ n.pages[d].used = m.pages[d].used /\ n.pages[d].uva = m.pages[d].uva
  /\ n.pages[d].kva = m.pages[d].kva /\ n.pages[d].pgdir = m.pages[d].pgdir
  /\ DOMAIN n.pt = DOMAIN m.pt /\ \A g \in DOMAIN m.pt \ {h} : n.pt[g] = m.pt[g]
  /\ DOMAIN n.pt[h] = DOMAIN m.pt[h] /\ n.pt[h].tab = m.pt[h].tab
  /\ DOMAIN n.pt[h].pte = DOMAIN m.pt[h].pte
  /\ \A v \in DOMAIN m.pt[h].pte : /\ DOMAIN n.pt[h].pte[v] = DOMAIN m.pt[h].pte[v]
                                   /\ n.pt[h].pte[v].kva = m.pt[h].pte[v].kva

LEMMA UnloadedEffect ==
  ASSUME NEW m, NEW d, NEW h, NEW u, Oldest(m, d, h, u)
  PROVE  Unloads(m, Unloaded(m), d, h)
<1> USE DEF Oldest
<1> DEFINE n == Unloaded(m)
<1>1. Only(m, n, {"present", "swapped", "swap", "pages", "sector", "present_pages_num", "pt"})
  BY DEF Unloaded, Only, Fields
<1>2. /\ n.present = Tail(m.present) /\ n.swapped = Append(m.swapped, d)
      /\ n.present_pages_num = m.present_pages_num - 1
      /\ n.pages = [m.pages EXCEPT ![d].sector_id = m.sector]
      /\ n.pt = [m.pt EXCEPT ![h].pte[u].present = FALSE]
  BY DEF Unloaded, Fields
<1> HIDE DEF n
<1>3. /\ DOMAIN n.pages = DOMAIN m.pages
      /\ \A e \in DOMAIN m.pages \ {d} : n.pages[e] = m.pages[e]
      /\ DOMAIN n.pages[d] = DOMAIN m.pages[d]
      /\ n.pages[d].used = m.pages[d].used /\ n.pages[d].uva = m.pages[d].uva
      /\ n.pages[d].kva = m.pages[d].kva /\ n.pages[d].pgdir = m.pages[d].pgdir
  <2>1. /\ DOMAIN n.pages = DOMAIN m.pages
        /\ \A e \in DOMAIN m.pages \ {d} : n.pages[e] = m.pages[e]
        /\ n.pages[d] = [m.pages[d] EXCEPT !.sector_id = m.sector]
    BY <1>2
  <2> QED
    BY <2>1
<1>4. /\ DOMAIN n.pt = DOMAIN m.pt /\ \A g \in DOMAIN m.pt \ {h} : n.pt[g] = m.pt[g]
      /\ DOMAIN n.pt[h] = DOMAIN m.pt[h] /\ n.pt[h].tab = m.pt[h].tab
      /\ DOMAIN n.pt[h].pte = DOMAIN m.pt[h].pte
      /\ \A v \in DOMAIN m.pt[h].pte :
           /\ DOMAIN n.pt[h].pte[v] = DOMAIN m.pt[h].pte[v]
           /\ n.pt[h].pte[v].kva = m.pt[h].pte[v].kva
  <2>1. /\ DOMAIN n.pt = DOMAIN m.pt /\ \A g \in DOMAIN m.pt \ {h} : n.pt[g] = m.pt[g]
        /\ n.pt[h] = [m.pt[h] EXCEPT !.pte[u].present = FALSE]
    BY <1>2
  <2>2. /\ DOMAIN n.pt[h] = DOMAIN m.pt[h] /\ n.pt[h].tab = m.pt[h].tab
        /\ n.pt[h].pte = [m.pt[h].pte EXCEPT ![u].present = FALSE]
    BY <2>1
  <2>3. /\ DOMAIN n.pt[h].pte = DOMAIN m.pt[h].pte
        /\ \A v \in DOMAIN m.pt[h].pte \ {u} : n.pt[h].pte[v] = m.pt[h].pte[v]
        /\ n.pt[h].pte[u] = [m.pt[h].pte[u] EXCEPT !.present = FALSE]
    BY <2>2
  <2>4. /\ DOMAIN n.pt[h].pte[u] = DOMAIN m.pt[h].pte[u]
        /\ n.pt[h].pte[u].kva = m.pt[h].pte[u].kva
    BY <2>3
  <2> QED
    BY <2>1, <2>2, <2>3, <2>4
<1> QED
  BY <1>1, <1>2, <1>3, <1>4 DEF n, Unloads

\* The call stopped the kernel.
Stopped(n) == DOMAIN n = Fields /\ n.halted # ""

\* What a step may do to the state without touching what the processes have.
Quiet(m, n) ==
  /\ DOMAIN n = Fields /\ SamePages(m, n) /\ SameEntries(m, n)
  /\ n.share = m.share /\ n.halted = m.halted /\ Fr(m) \subseteq Fr(n)
  /\ \A f : Loose(m, {}, f) => Loose(n, {}, f)

LEMMA SwapOutGood ==
  ASSUME NEW m, Good(m, {}), m.present # <<>>
  PROVE  LET n == swap_out(m)
         IN  \/ Stopped(n)
             \/ /\ Good(n, {}) /\ Quiet(m, n) /\ Len(n.present) = Len(m.present) - 1
                /\ Range(m.swapped) \subseteq Range(n.swapped)
<1> DEFINE d == Head(m.present)
           f == m.pages[d].kva
           h == m.pages[d].pgdir
           u == m.pages[d].uva
           n == Unloaded(m)
           r == kfree(n, f)
<1>1. /\ DOMAIN m = Fields /\ m.frontier \in Nat \ {0} /\ Shape(m) /\ Queued(m)
      /\ Sorted(m, {})
  BY DEF Good, Shape
<1>2. /\ d \in Range(m.present) /\ Range(Tail(m.present)) = Range(m.present) \ {d}
      /\ Tail(m.present) \in Seq(1 .. MAX_PFN) /\ IsInjective(Tail(m.present))
      /\ Len(Tail(m.present)) = Len(m.present) - 1
  BY <1>1, TailSeq DEF Queued
<1>3. d \in 1 .. MAX_PFN /\ m.pages[d].used /\ d \notin Range(m.swapped)
  BY <1>1, <1>2 DEF Queued
<1>4. Descriptor(m, d) /\ DOMAIN m.pages = 1 .. MAX_PFN
  BY <1>1, <1>3 DEF Shape
<1>5. /\ Append(m.swapped, d) \in Seq(1 .. MAX_PFN) /\ IsInjective(Append(m.swapped, d))
      /\ Range(Append(m.swapped, d)) = Range(m.swapped) \cup {d}
  BY <1>1, <1>3, AppendSeq DEF Queued
<1>6. f \in Fr(m) /\ f # 0
  BY <1>3, <1>4 DEF Descriptor
<1>7. CASE ~ Mapped(m, u, h)
  <2>1. swap_out(m) = halt(m, "null")
    BY <1>7 DEF swap_out
  <2>2. Stopped(halt(m, "null"))
    BY <1>1 DEF halt, Fields, Stopped
  <2> QED
    BY <2>1, <2>2
<1>8. CASE Mapped(m, u, h)
  <2>1. h \in DOMAIN m.pt /\ u \in DOMAIN m.pt[h].pte
    BY <1>8 DEF Mapped
  <2>2. Directory(m, h)
    BY <1>1, <2>1 DEF Shape
  <2>3. DOMAIN m.pt[h] = {"tab", "pte", "task"} /\ DOMAIN m.pt[h].pte[u] = {"kva", "present"}
    BY <2>1, <2>2 DEF Directory
  <2>4. DOMAIN m.pages[d] = {"used", "uva", "kva", "pgdir", "sector_id"} /\ d \in DOMAIN m.pages
    BY <1>3, <1>4 DEF Descriptor
  <2>5. swap_out(m) = r
    BY <1>8 DEF swap_out, Unloaded
  <2> HIDE DEF d, h, u
  <2>6. Unloads(m, n, d, h)
    <3>1. d = Head(m.present) /\ h = m.pages[d].pgdir /\ u = m.pages[d].uva
      BY DEF d, h, u
    <3>2. Oldest(m, d, h, u)
      BY <1>1, <2>1, <2>3, <2>4, <3>1 DEF Oldest
    <3> QED
      BY <3>2, UnloadedEffect
  <2> HIDE DEF n, f
  <2>7. /\ n.kstacks = m.kstacks /\ n.share = m.share /\ DOMAIN n = Fields
        /\ n.frontier = m.frontier /\ Fr(n) = Fr(m) /\ n.free = m.free /\ n.mem = m.mem
        /\ n.halted = m.halted
    BY <2>6 DEF Only, Fields, Fr, Unloads
  <2>8. Loses(m, n, {}, {}) /\ Takes(m, {}, "page", d, 0, f) /\ ~ Takes(n, {}, "page", d, 0, f)
    <3>1. \A e \in Range(n.present) : e \in Range(m.present) /\ n.pages[e] = m.pages[e]
      BY <1>1, <1>2, <1>4, <2>6 DEF Queued, Unloads
    <3>2. \A x \in DOMAIN m.pt : n.pt[x].tab = m.pt[x].tab
      BY <2>6 DEF Unloads
    <3>3. Loses(m, n, {}, {})
      BY <2>6, <2>7, <3>1, <3>2 DEF Loses, Takes, Unloads
    <3>4. d \notin Range(n.present)
      BY <1>2, <2>6 DEF Unloads
    <3> QED
      BY <1>2, <3>3, <3>4 DEF Takes, f
  <2>9. Sorted(n, {}) /\ Loose(n, {}, f) /\ \A e : Loose(m, {}, e) => Loose(n, {}, e)
    BY <1>1, <2>8, DropRule
  <2>10. Shape(n)
    <3>1. Directory(n, h)
      BY <2>2, <2>6, <2>7 DEF Directory, Unloads
    <3>2. \A g \in DOMAIN n.pt : Directory(n, g)
      BY <1>1, <2>6, <2>7, <3>1, ShapeParts DEF Shape, Unloads
    <3>3. Descriptor(n, d)
      BY <1>4, <2>6, <2>7 DEF Descriptor, Unloads
    <3>4. \A e \in 1 .. MAX_PFN : Descriptor(n, e)
      BY <1>1, <1>4, <2>6, <2>7, <3>3, ShapeParts DEF Shape, Unloads
    <3>5. \A i \in 1 .. MAX_SHARE_PAGE_NUM : Slot(n, i)
      BY <1>1, <2>7, ShapeParts DEF Shape
    <3> QED
      BY <1>1, <2>6, <2>7, <3>2, <3>4, <3>5 DEF Shape, Unloads
  <2>11. SamePages(m, n)
    BY <1>4, <2>6 DEF SamePages, Unloads
  <2>12. Queued(n)
    <3>1. {e \in 1 .. MAX_PFN : n.pages[e].used} = {e \in 1 .. MAX_PFN : m.pages[e].used}
      BY <2>11 DEF SamePages
    <3>2. /\ Range(n.present) = Range(m.present) \ {d}
          /\ Range(n.swapped) = Range(m.swapped) \cup {d}
      BY <1>2, <1>5, <2>6 DEF Unloads
    <3>3. /\ Range(n.present) \cap Range(n.swapped) = {}
          /\ Range(n.present) \cup Range(n.swapped) = {e \in 1 .. MAX_PFN : n.pages[e].used}
      BY <1>1, <1>2, <3>1, <3>2 DEF Queued
    <3>4. n.present_pages_num = Len(n.present) /\ Len(n.present) <= MAX_PRESENT_PFN
      BY <1>1, <1>2, <2>6, MemoryAssumption DEF Queued, Unloads
    <3> QED
      BY <1>2, <1>5, <2>6, <3>3, <3>4 DEF Queued, Unloads
  <2>13. Good(n, {}) /\ SameEntries(m, n)
    BY <2>6, <2>9, <2>10, <2>12 DEF Good, SameEntries, Unloads
  <2>14. /\ Good(r, {}) /\ \A e : e # f /\ Loose(n, {}, e) => Loose(r, {}, e)
    BY <2>9, <2>13, KfreeGood
  <2>15. Only(n, r, {"free", "mem"})
    BY <1>6, <2>7, KfreeEffect DEF f
  <2> HIDE DEF r
  <2>16. /\ r.pages = n.pages /\ r.pt = n.pt /\ r.share = n.share /\ r.halted = n.halted
         /\ r.present = n.present /\ r.swapped = n.swapped /\ r.frontier = n.frontier
         /\ DOMAIN r = Fields
    BY <2>15 DEF Only, Fields
  <2>17. \A e : Loose(m, {}, e) => Loose(r, {}, e)
    <3>1. ~ Loose(m, {}, f)
      BY <2>8 DEF Loose
    <3> QED
      BY <2>9, <2>14, <3>1
  <2>18. Quiet(m, r)
    BY <2>7, <2>11, <2>13, <2>16, <2>17 DEF Quiet, SamePages, SameEntries, Fr
  <2> QED
    BY <1>2, <1>5, <2>5, <2>6, <2>14, <2>16, <2>18 DEF Unloads
<1> QED
  BY <1>7, <1>8

-----------------------------------------------------------------------------
(* New pages *)

\* Contents do not matter.
SetMem(m, f, data) == [m EXCEPT !.mem[f] = data]

LEMMA SetMemGood ==
  ASSUME NEW m, NEW f, NEW data, DOMAIN m = Fields
  PROVE  LET n == SetMem(m, f, data)
         IN  /\ Only(m, n, {"mem"}) /\ \A X : Good(m, X) => Good(n, X)
             /\ \A X, e : Loose(m, X, e) => Loose(n, X, e)
<1> DEFINE n == SetMem(m, f, data)
<1>1. Only(m, n, {"mem"}) /\ DOMAIN n.mem = DOMAIN m.mem
  BY DEF SetMem, Only, Fields
<1> HIDE DEF n
<1>2. /\ n.kstacks = m.kstacks /\ n.pt = m.pt /\ n.pages = m.pages /\ n.present = m.present
      /\ n.swapped = m.swapped /\ n.present_pages_num = m.present_pages_num
      /\ n.share = m.share /\ DOMAIN n = Fields /\ n.frontier = m.frontier /\ Fr(n) = Fr(m)
      /\ n.free = m.free
  BY <1>1 DEF Only, Fields, Fr
<1>3. \A X, k, x, y, e : Takes(n, X, k, x, y, e) <=> Takes(m, X, k, x, y, e)
  BY <1>2 DEF Takes
<1>4. ASSUME NEW X, Good(m, X) PROVE Good(n, X)
  <2>1. Shape(m) /\ Sorted(m, X) /\ Queued(m) /\ m.frontier \in Nat \ {0}
    BY <1>4 DEF Good, Shape
  <2>2. Sorted(n, X)
    BY <1>2, <1>3, <2>1 DEF Sorted
  <2>3. \A h \in DOMAIN n.pt : Directory(n, h)
    BY <1>2, <2>1, ShapeParts DEF Shape
  <2>4. \A d \in 1 .. MAX_PFN : Descriptor(n, d)
    BY <1>2, <2>1, ShapeParts DEF Shape
  <2>5. \A i \in 1 .. MAX_SHARE_PAGE_NUM : Slot(n, i)
    BY <1>2, <2>1, ShapeParts DEF Shape
  <2>6. Shape(n)
    BY <1>1, <1>2, <2>1, <2>3, <2>4, <2>5 DEF Shape
  <2>7. Queued(n)
    BY <1>2, <2>1 DEF Queued
  <2> QED
    BY <2>2, <2>6, <2>7 DEF Good
<1>5. \A X, e : Loose(m, X, e) => Loose(n, X, e)
  BY <1>2, <1>3 DEF Loose
<1> QED
  BY <1>1, <1>4, <1>5 DEF n

\* A descriptor that was unused is now for page uva of g.
NewPage(m, n, d, g, uva) ==
  /\ d \in 1 .. MAX_PFN /\ ~ m.pages[d].used
  /\ n.pages[d].used /\ n.pages[d].uva = uva /\ n.pages[d].pgdir = g
  /\ \A e \in 1 .. MAX_PFN \ {d} : /\ n.pages[e].used = m.pages[e].used
                                   /\ n.pages[e].uva = m.pages[e].uva
                                   /\ n.pages[e].pgdir = m.pages[e].pgdir

AddPage(m, d, g, uva, f) ==
  [m EXCEPT !.pages[d] = [used |-> TRUE, uva |-> uva, kva |-> f, pgdir |-> g, sector_id |-> 0],
            !.present = Append(@, d),
            !.present_pages_num = @ + 1]

LEMMA AddPageGood ==
  ASSUME NEW m, NEW d \in 1 .. MAX_PFN, NEW g, NEW uva \in Uva, NEW f, Good(m, {}),
         Loose(m, {}, f), ~ m.pages[d].used, g # 0, Len(m.present) < MAX_PRESENT_PFN
  PROVE  LET n == AddPage(m, d, g, uva, f)
         IN  /\ Good(n, {}) /\ NewPage(m, n, d, g, uva)
             /\ Only(m, n, {"pages", "present", "present_pages_num"})
<1> DEFINE n == AddPage(m, d, g, uva, f)
<1>1. /\ DOMAIN m = Fields /\ m.frontier \in Nat \ {0} /\ Shape(m) /\ Queued(m)
      /\ Sorted(m, {}) /\ f \in Fr(m) /\ f # 0 /\ DOMAIN m.pages = 1 .. MAX_PFN
  BY DEF Good, Shape, Loose, Fr
<1>2. /\ Only(m, n, {"pages", "present", "present_pages_num"})
      /\ n.present = Append(m.present, d) /\ n.present_pages_num = m.present_pages_num + 1
      /\ n.pages = [m.pages EXCEPT ![d] = [used |-> TRUE, uva |-> uva, kva |-> f,
                                           pgdir |-> g, sector_id |-> 0]]
  BY <1>1 DEF AddPage, Only, Fields
<1> HIDE DEF n
<1>3. /\ DOMAIN n.pages = 1 .. MAX_PFN /\ \A e \in 1 .. MAX_PFN \ {d} : n.pages[e] = m.pages[e]
      /\ n.pages[d] = [used |-> TRUE, uva |-> uva, kva |-> f, pgdir |-> g, sector_id |-> 0]
  BY <1>1, <1>2
<1>4. /\ n.kstacks = m.kstacks /\ n.pt = m.pt /\ n.swapped = m.swapped
      /\ n.share = m.share /\ DOMAIN n = Fields /\ n.frontier = m.frontier /\ Fr(n) = Fr(m)
      /\ n.free = m.free /\ n.mem = m.mem
  BY <1>2 DEF Only, Fields, Fr
<1>5. d \notin Range(m.present) /\ d \notin Range(m.swapped)
  BY <1>1 DEF Queued
<1>6. /\ n.present \in Seq(1 .. MAX_PFN) /\ IsInjective(n.present)
      /\ Len(n.present) = Len(m.present) + 1 /\ Range(n.present) = Range(m.present) \cup {d}
  <2> DEFINE S == 1 .. MAX_PFN
  <2>1. m.present \in Seq(S) /\ IsInjective(m.present) /\ d \in S
    BY <1>1 DEF Queued
  <2> HIDE DEF S
  <2>2. n.present \in Seq(S) /\ IsInjective(n.present)
    BY <1>2, <1>5, <2>1, AppendSeq
  <2>3. Len(n.present) = Len(m.present) + 1 /\ Range(n.present) = Range(m.present) \cup {d}
    BY <1>2, <1>5, <2>1, AppendSeq
  <2> QED
    BY <2>2, <2>3 DEF S
<1>7. Range(m.present) \subseteq 1 .. MAX_PFN
  BY <1>1 DEF Queued
<1>8. Gains(m, n, {}, "page", d, 0, f)
  BY <1>3, <1>4, <1>5, <1>6, <1>7 DEF Gains, Takes
<1>9. Sorted(n, {})
  BY <1>1, <1>8, TakeRule
<1>10. Shape(n)
  <2>1. \A h \in DOMAIN n.pt : Directory(n, h)
    BY <1>1, <1>4, ShapeParts DEF Shape
  <2>2. Descriptor(n, d)
    BY <1>1, <1>3, <1>4 DEF Descriptor
  <2>3. \A e \in 1 .. MAX_PFN : Descriptor(n, e)
    BY <1>1, <1>3, <1>4, <2>2, ShapeParts DEF Shape
  <2>4. \A i \in 1 .. MAX_SHARE_PAGE_NUM : Slot(n, i)
    BY <1>1, <1>4, ShapeParts DEF Shape
  <2> QED
    BY <1>1, <1>3, <1>4, <2>1, <2>3, <2>4 DEF Shape
<1>11. NewPage(m, n, d, g, uva)
  BY <1>3 DEF NewPage
<1>12. Queued(n)
  <2>1. {e \in 1 .. MAX_PFN : n.pages[e].used} = {e \in 1 .. MAX_PFN : m.pages[e].used} \cup {d}
    BY <1>11 DEF NewPage
  <2>2. /\ Range(n.present) \cap Range(n.swapped) = {}
        /\ Range(n.present) \cup Range(n.swapped) = {e \in 1 .. MAX_PFN : n.pages[e].used}
    BY <1>1, <1>4, <1>5, <1>6, <2>1 DEF Queued
  <2>3. n.present_pages_num = Len(n.present) /\ Len(n.present) <= MAX_PRESENT_PFN
    BY <1>1, <1>2, <1>6, MemoryAssumption DEF Queued
  <2> QED
    BY <1>1, <1>4, <1>6, <2>2, <2>3 DEF Queued
<1> QED
  BY <1>2, <1>9, <1>10, <1>11, <1>12 DEF Good, n

LEMMA AddNewPage ==
  ASSUME NEW m, NEW g, NEW uva, NEW f, DOMAIN m = Fields
  PROVE  LET n == add_new_pre_page(m, uva, f, g)
         IN  \/ Stopped(n)
             \/ \E d \in 1 .. MAX_PFN : ~ m.pages[d].used /\ n = AddPage(m, d, g, uva, f)
<1> DEFINE unused == {d \in 1 .. MAX_PFN : ~ m.pages[d].used}
<1>1. CASE unused = {}
  <2>1. add_new_pre_page(m, uva, f, g) = halt(m, "no descriptor")
    BY <1>1 DEF add_new_pre_page
  <2>2. Stopped(halt(m, "no descriptor"))
    BY DEF halt, Fields, Stopped
  <2> QED
    BY <2>1, <2>2
<1>2. CASE unused # {}
  <2>1. Min(unused) \in unused
    <3>1. unused \in SUBSET (0 .. MAX_PFN) /\ MAX_PFN \in Nat
      BY MemoryAssumption
    <3> HIDE DEF unused
    <3> QED
      BY <1>2, <3>1, MinIn
  <2>2. add_new_pre_page(m, uva, f, g) = AddPage(m, Min(unused), g, uva, f)
    BY <1>2 DEF add_new_pre_page, AddPage
  <2> QED
    BY <2>1, <2>2
<1> QED
  BY <1>1, <1>2

\* Directory g has an entry for uva; nothing else changes for the processes.
Visits(m, n, g, uva) ==
  /\ DOMAIN n = Fields /\ DOMAIN n.pt = DOMAIN m.pt /\ Adds(m, n, g, uva)
  /\ n.share = m.share /\ n.halted = m.halted /\ Fr(m) \subseteq Fr(n)

\* A frame is taken and page uva of g is mapped to it.
LEMMA KallocMap ==
  ASSUME NEW m, NEW g, NEW uva \in Uva, Good(m, {}), g \in DOMAIN m.pt
  PROVE  LET f == NextFrame(m)
             n == map_uva_to_kva(kalloc(m), uva, f, g)
         IN  /\ Good(n, {}) /\ Loose(n, {}, f) /\ Visits(m, n, g, uva)
             /\ Only(m, n, {"frontier", "free", "mem", "pt"})
<1> DEFINE f == NextFrame(m)
           k == kalloc(m)
           n == map_uva_to_kva(k, uva, f, g)
<1>1. DOMAIN m = Fields /\ m.frontier \in Nat \ {0}
  BY DEF Good, Shape
<1>2. Good(k, {}) /\ Loose(k, {}, f)
  BY KallocGood
<1>3. Only(m, k, {"frontier", "free", "mem"}) /\ k.frontier \in Nat /\ m.frontier <= k.frontier
  BY <1>1, KallocEffect
<1> HIDE DEF k, f
<1>4. k.pt = m.pt /\ Fr(m) \subseteq Fr(k) /\ f \in Fr(k)
  BY <1>1, <1>2, <1>3, ShapeParts DEF Only, Fields, Loose
<1>5. Good(n, {}) /\ Grows(k, n) /\ Adds(k, n, g, uva)
  BY <1>2, <1>4, MapGood
<1> HIDE DEF n
<1>6. Loose(n, {}, f) /\ DOMAIN n.pt = DOMAIN m.pt /\ Fr(m) \subseteq Fr(n) /\ Adds(m, n, g, uva)
  BY <1>2, <1>4, <1>5 DEF Grows, Adds
<1>7. Only(m, n, {"frontier", "free", "mem", "pt"}) /\ n.share = m.share /\ n.halted = m.halted
  BY <1>3, <1>5 DEF Grows, Only, Fields
<1>8. DOMAIN n = Fields
  BY <1>7 DEF Only
<1> QED
  BY <1>5, <1>6, <1>7, <1>8 DEF Visits, n, k, f

Reload(m, d, f, data) ==
  [m EXCEPT !.swapped = RemoveFirst(@, d), !.present = Append(@, d),
            !.pages[d].kva = f, !.pages[d].sector_id = 0, !.mem[f] = data,
            !.present_pages_num = @ + 1]

Reloads(m, n, d, f) ==
  /\ Only(m, n, {"swapped", "present", "pages", "mem", "present_pages_num"})
  /\ n.swapped = RemoveFirst(m.swapped, d) /\ n.present = Append(m.present, d)
  /\ n.present_pages_num = m.present_pages_num + 1 /\ DOMAIN n.mem = DOMAIN m.mem
  /\ DOMAIN n.pages = DOMAIN m.pages
  /\ \A e \in DOMAIN m.pages \ {d} : n.pages[e] = m.pages[e]
  /\ DOMAIN n.pages[d] = DOMAIN m.pages[d] /\ n.pages[d].kva = f
  /\ n.pages[d].used = m.pages[d].used /\ n.pages[d].uva = m.pages[d].uva
  /\ n.pages[d].pgdir = m.pages[d].pgdir

LEMMA ReloadEffect ==
  ASSUME NEW m, NEW d, NEW f, NEW data, DOMAIN m = Fields, d \in DOMAIN m.pages,
         DOMAIN m.pages[d] = {"used", "uva", "kva", "pgdir", "sector_id"}
  PROVE  Reloads(m, Reload(m, d, f, data), d, f)
<1> DEFINE n == Reload(m, d, f, data)
<1>1. Only(m, n, {"swapped", "present", "pages", "mem", "present_pages_num"})
  BY DEF Reload, Only, Fields
<1>2. /\ n.swapped = RemoveFirst(m.swapped, d) /\ n.present = Append(m.present, d)
      /\ n.present_pages_num = m.present_pages_num + 1 /\ DOMAIN n.mem = DOMAIN m.mem
      /\ n.pages = [[m.pages EXCEPT ![d].kva = f] EXCEPT ![d].sector_id = 0]
  BY DEF Reload, Fields
<1> HIDE DEF n
<1>3. /\ DOMAIN n.pages = DOMAIN m.pages
      /\ \A e \in DOMAIN m.pages \ {d} : n.pages[e] = m.pages[e]
      /\ n.pages[d] = [[m.pages[d] EXCEPT !.kva = f] EXCEPT !.sector_id = 0]
  BY <1>2
<1>4. /\ DOMAIN n.pages[d] = DOMAIN m.pages[d] /\ n.pages[d].kva = f
      /\ n.pages[d].used = m.pages[d].used /\ n.pages[d].uva = m.pages[d].uva
      /\ n.pages[d].pgdir = m.pages[d].pgdir
  BY <1>3
<1> QED
  BY <1>1, <1>2, <1>3, <1>4 DEF n, Reloads

\* A page comes back into a loose frame.
LEMMA ReloadGood ==
  ASSUME NEW m, NEW d \in Range(m.swapped), NEW f, NEW data, Good(m, {}), Loose(m, {}, f),
         Len(m.present) < MAX_PRESENT_PFN
  PROVE  LET n == Reload(m, d, f, data)
         IN  /\ Good(n, {}) /\ SamePages(m, n) /\ Len(n.present) = Len(m.present) + 1
             /\ Range(n.swapped) = Range(m.swapped) \ {d}
             /\ Only(m, n, {"swapped", "present", "pages", "mem", "present_pages_num"})
<1> DEFINE n == Reload(m, d, f, data)
           S == 1 .. MAX_PFN
<1>1. /\ DOMAIN m = Fields /\ m.frontier \in Nat \ {0} /\ Shape(m) /\ Queued(m)
      /\ Sorted(m, {}) /\ f \in Fr(m) /\ f # 0 /\ DOMAIN m.pages = S
  BY DEF Good, Shape, Loose, Fr
<1>2. d \in S /\ d \notin Range(m.present) /\ m.pages[d].used
  BY <1>1 DEF Queued
<1>3. Descriptor(m, d)
  BY <1>1, <1>2 DEF Shape
<1>4. Reloads(m, n, d, f)
  <2>1. /\ d \in DOMAIN m.pages
        /\ DOMAIN m.pages[d] = {"used", "uva", "kva", "pgdir", "sector_id"}
    BY <1>1, <1>2, <1>3 DEF Descriptor
  <2> QED
    BY <1>1, <2>1, ReloadEffect
<1> HIDE DEF n, S
<1>5. m.present \in Seq(S) /\ IsInjective(m.present) /\ m.swapped \in Seq(S) /\ IsInjective(m.swapped)
  BY <1>1 DEF Queued, S
<1>6. /\ n.present \in Seq(S) /\ IsInjective(n.present)
      /\ Len(n.present) = Len(m.present) + 1 /\ Range(n.present) = Range(m.present) \cup {d}
  BY <1>2, <1>4, <1>5, AppendSeq DEF Reloads
<1>7. /\ n.swapped \in Seq(S) /\ IsInjective(n.swapped)
      /\ Range(n.swapped) = Range(m.swapped) \ {d}
  <2>1. n.swapped = RemoveFirst(m.swapped, d)
    BY <1>4 DEF Reloads
  <2>2. /\ RemoveFirst(m.swapped, d) \in Seq(S) /\ IsInjective(RemoveFirst(m.swapped, d))
        /\ Range(RemoveFirst(m.swapped, d)) = Range(m.swapped) \ {d}
    BY <1>5, RemoveSeq
  <2> QED
    BY <2>1, <2>2
<1>8. /\ n.kstacks = m.kstacks /\ n.pt = m.pt /\ DOMAIN n.mem = DOMAIN m.mem
      /\ n.share = m.share /\ DOMAIN n = Fields /\ n.frontier = m.frontier /\ Fr(n) = Fr(m)
      /\ n.free = m.free
  BY <1>4 DEF Reloads, Only, Fields, Fr
<1>9. Range(m.present) \subseteq DOMAIN m.pages
  BY <1>1 DEF Queued, S
<1>10. Gains(m, n, {}, "page", d, 0, f)
  BY <1>2, <1>4, <1>6, <1>8, <1>9 DEF Gains, Takes, Reloads
<1>11. Sorted(n, {})
  BY <1>1, <1>10, TakeRule
<1>12. Shape(n)
  <2>1. \A h \in DOMAIN n.pt : Directory(n, h)
    BY <1>1, <1>8, ShapeParts DEF Shape
  <2>2. Descriptor(n, d)
    BY <1>1, <1>3, <1>4, <1>8 DEF Descriptor, Reloads
  <2>3. \A e \in 1 .. MAX_PFN : Descriptor(n, e)
    BY <1>1, <1>4, <1>8, <2>2, ShapeParts DEF Shape, S, Reloads
  <2>4. \A i \in 1 .. MAX_SHARE_PAGE_NUM : Slot(n, i)
    BY <1>1, <1>8, ShapeParts DEF Shape
  <2> QED
    BY <1>1, <1>4, <1>8, <2>1, <2>3, <2>4 DEF Shape, Reloads
<1>13. SamePages(m, n)
  BY <1>1, <1>4 DEF SamePages, Reloads, S
<1>14. Queued(n)
  <2>1. {e \in 1 .. MAX_PFN : n.pages[e].used} = {e \in 1 .. MAX_PFN : m.pages[e].used}
    BY <1>13 DEF SamePages
  <2>2. /\ Range(n.present) \cap Range(n.swapped) = {}
        /\ Range(n.present) \cup Range(n.swapped) = {e \in 1 .. MAX_PFN : n.pages[e].used}
    BY <1>1, <1>6, <1>7, <2>1 DEF Queued
  <2>3. n.present_pages_num = Len(n.present) /\ Len(n.present) <= MAX_PRESENT_PFN
    BY <1>1, <1>4, <1>6, MemoryAssumption DEF Queued, Reloads
  <2> QED
    BY <1>6, <1>7, <2>2, <2>3 DEF Queued, S
<1> QED
  BY <1>4, <1>6, <1>7, <1>11, <1>12, <1>13, <1>14 DEF Good, n, Reloads

LEMMA SwapInGood ==
  ASSUME NEW m, NEW d \in Range(m.swapped), Good(m, {}), m.pages[d].pgdir \in DOMAIN m.pt,
         Len(m.present) < MAX_PRESENT_PFN
  PROVE  LET n == swap_in(m, d)
         IN  /\ Good(n, {}) /\ SamePages(m, n) /\ Len(n.present) = Len(m.present) + 1
             /\ Range(n.swapped) = Range(m.swapped) \ {d}
             /\ Visits(m, n, m.pages[d].pgdir, m.pages[d].uva)
<1> DEFINE f == NextFrame(m)
           g == m.pages[d].pgdir
           uva == m.pages[d].uva
           a == map_uva_to_kva(kalloc(m), uva, f, g)
           data == a.swap[m.pages[d].sector_id]
           n == Reload(a, d, f, data)
<1>1. d \in 1 .. MAX_PFN /\ m.pages[d].used /\ uva \in Uva
  <2>1. d \in 1 .. MAX_PFN /\ m.pages[d].used
    BY DEF Good, Queued
  <2>2. Descriptor(m, d)
    BY <2>1 DEF Good, Shape
  <2> QED
    BY <2>1, <2>2 DEF Descriptor
<1>2. swap_in(m, d) = n
  BY DEF swap_in, Reload
<1> HIDE DEF g, uva
<1>3. /\ Good(a, {}) /\ Loose(a, {}, f) /\ Visits(m, a, g, uva)
      /\ Only(m, a, {"frontier", "free", "mem", "pt"})
  <2>1. g \in DOMAIN m.pt
    BY DEF g
  <2> QED
    BY <1>1, <2>1, KallocMap
<1> HIDE DEF a, f
<1>4. a.present = m.present /\ a.swapped = m.swapped /\ a.pages = m.pages
  BY <1>3 DEF Only, Fields
<1>5. /\ Good(n, {}) /\ SamePages(a, n) /\ Len(n.present) = Len(a.present) + 1
      /\ Range(n.swapped) = Range(a.swapped) \ {d}
      /\ Only(a, n, {"swapped", "present", "pages", "mem", "present_pages_num"})
  BY <1>3, <1>4, ReloadGood
<1> HIDE DEF n
<1>6. /\ n.pt = a.pt /\ n.share = a.share /\ n.halted = a.halted /\ DOMAIN n = Fields
      /\ n.frontier = a.frontier /\ Fr(n) = Fr(a)
  BY <1>5 DEF Only, Fields, Fr
<1>7. Visits(m, n, g, uva)
  BY <1>3, <1>6 DEF Visits, Adds
<1>8. SamePages(m, n)
  BY <1>4, <1>5 DEF SamePages
<1> QED
  BY <1>2, <1>4, <1>5, <1>7, <1>8 DEF g, uva

\* Page uva of g is new.
Gets(m, n, g, uva) ==
  Visits(m, n, g, uva) /\ \E d \in 1 .. MAX_PFN : NewPage(m, n, d, g, uva)

LEMMA AllocGood ==
  ASSUME NEW m, NEW g, NEW uva \in Uva, NEW data, Good(m, {}), g \in DOMAIN m.pt
  PROVE  LET n == alloc_page_helper(m, uva, g, data)
         IN  Stopped(n) \/ (Good(n, {}) /\ Gets(m, n, g, uva) /\ NextFrame(m) \in Fr(n))
<1> DEFINE f == NextFrame(m)
           a == map_uva_to_kva(kalloc(m), uva, f, g)
           b == IF a.present_pages_num >= MAX_PRESENT_PFN THEN swap_out(a) ELSE a
           c == add_new_pre_page(b, uva, f, g)
           n == SetMem(c, f, data)
<1>1. alloc_page_helper(m, uva, g, data) = n
  BY DEF alloc_page_helper, SetMem
<1>2. /\ Good(a, {}) /\ Loose(a, {}, f) /\ Visits(m, a, g, uva)
      /\ Only(m, a, {"frontier", "free", "mem", "pt"})
  BY KallocMap
<1> HIDE DEF a, f
<1>3. a.pages = m.pages /\ a.present_pages_num = Len(a.present) /\ Len(a.present) \in Nat
  BY <1>2 DEF Only, Fields, Good, Queued
<1>4. \/ Stopped(b)
      \/ Good(b, {}) /\ Quiet(a, b) /\ Loose(b, {}, f) /\ Len(b.present) < MAX_PRESENT_PFN
  <2>1. CASE a.present_pages_num >= MAX_PRESENT_PFN
    <3>1. b = swap_out(a) /\ a.present # <<>>
      <4>1. b = swap_out(a)
        BY <2>1
      <4>2. Len(a.present) # 0
        BY <1>3, <2>1, MemoryAssumption
      <4> QED
        BY <4>1, <4>2
    <3>2. Len(a.present) <= MAX_PRESENT_PFN
      BY <1>2 DEF Good, Queued
    <3> HIDE DEF b
    <3>3. Stopped(b) \/ (Good(b, {}) /\ Quiet(a, b) /\ Len(b.present) = Len(a.present) - 1)
      BY <1>2, <3>1, SwapOutGood
    <3>4. Quiet(a, b) => Loose(b, {}, f)
      BY <1>2 DEF Quiet
    <3> QED
      BY <1>3, <3>2, <3>3, <3>4, MemoryAssumption
  <2>2. CASE ~ (a.present_pages_num >= MAX_PRESENT_PFN)
    <3>1. b = a
      BY <2>2
    <3>2. DOMAIN a = Fields /\ Quiet(a, a)
      BY <1>2 DEF Visits, Quiet, SamePages, SameEntries
    <3> HIDE DEF b
    <3> QED
      BY <1>2, <1>3, <2>2, <3>1, <3>2, MemoryAssumption
  <2> QED
    BY <2>1, <2>2
<1> HIDE DEF b
<1>5. DOMAIN b = Fields
  BY <1>4 DEF Stopped, Quiet
<1>6. \/ Stopped(c)
      \/ \E d \in 1 .. MAX_PFN : ~ b.pages[d].used /\ c = AddPage(b, d, g, uva, f)
  BY <1>5, AddNewPage
<1>7. ASSUME NEW d \in 1 .. MAX_PFN, c = AddPage(b, d, g, uva, f)
      PROVE  DOMAIN c = Fields /\ c.halted = b.halted
  BY <1>5, <1>7 DEF AddPage, Fields
<1> HIDE DEF c
<1>8. DOMAIN c = Fields
  BY <1>6, <1>7 DEF Stopped
<1>9. /\ Only(c, n, {"mem"}) /\ \A X : Good(c, X) => Good(n, X)
  BY <1>8, SetMemGood
<1> HIDE DEF n
<1>10. DOMAIN n = Fields /\ n.pages = c.pages /\ n.pt = c.pt /\ n.share = c.share
       /\ n.halted = c.halted /\ n.frontier = c.frontier /\ Fr(n) = Fr(c)
  BY <1>9 DEF Only, Fields, Fr
<1>11. CASE Stopped(c)
  BY <1>1, <1>10, <1>11 DEF Stopped
<1>12. CASE ~ Stopped(c)
  <2>1. PICK d \in 1 .. MAX_PFN : ~ b.pages[d].used /\ c = AddPage(b, d, g, uva, f)
    BY <1>6, <1>12
  <2>2. c.halted = b.halted
    BY <1>7, <2>1
  <2>3. /\ Good(b, {}) /\ Quiet(a, b) /\ Loose(b, {}, f) /\ Len(b.present) < MAX_PRESENT_PFN
    BY <1>4, <1>8, <1>12, <2>2 DEF Stopped
  <2>4. g # 0
    BY DEF Good, Shape, Fr
  <2>5. /\ Good(c, {}) /\ NewPage(b, c, d, g, uva)
        /\ Only(b, c, {"pages", "present", "present_pages_num"})
    BY <2>1, <2>3, <2>4, AddPageGood
  <2>6. c.pt = b.pt /\ c.share = b.share /\ c.frontier = b.frontier /\ Fr(c) = Fr(b)
    BY <2>5 DEF Only, Fields, Fr
  <2>7. NewPage(m, n, d, g, uva)
    BY <1>3, <1>10, <2>3, <2>5 DEF NewPage, Quiet, SamePages
  <2>8. Visits(m, n, g, uva)
    BY <1>2, <1>10, <2>2, <2>3, <2>6 DEF Visits, Quiet, SameEntries, Adds
  <2>9. f \in Fr(n)
    BY <1>10, <2>3, <2>6 DEF Loose
  <2> QED
    BY <1>1, <1>9, <2>5, <2>7, <2>8, <2>9 DEF Gets, f
<1> QED
  BY <1>11, <1>12

-----------------------------------------------------------------------------
(* Pages given back *)

LEMMA QueuesSeq ==
  ASSUME NEW S, NEW m, m.present \in Seq(S), m.swapped \in Seq(S),
         IsInjective(m.present), IsInjective(m.swapped),
         Range(m.present) \cap Range(m.swapped) = {}
  PROVE  /\ Queues(m) \in Seq(S) /\ IsInjective(Queues(m))
         /\ Range(Queues(m)) = Range(m.present) \cup Range(m.swapped)
<1> DEFINE p == m.present
           s == m.swapped
           q == p \o s
<1>1. /\ q \in Seq(S) /\ Len(q) = Len(p) + Len(s) /\ Len(p) \in Nat /\ Len(s) \in Nat
      /\ \A i \in 1 .. (Len(p) + Len(s)) : q[i] = IF i <= Len(p) THEN p[i] ELSE s[i - Len(p)]
  <2>1. q \in Seq(S) /\ Len(q) = Len(p) + Len(s)
    BY ConcatProperties, Zenon
  <2>2. \A i \in 1 .. (Len(p) + Len(s)) : q[i] = IF i <= Len(p) THEN p[i] ELSE s[i - Len(p)]
    BY ConcatProperties
  <2>3. Len(p) \in Nat /\ Len(s) \in Nat
    OBVIOUS
  <2> QED
    BY <2>1, <2>2, <2>3
<1>2. /\ p \in Seq(S) /\ \A i, j \in 1 .. Len(p) : p[i] = p[j] => i = j
      /\ s \in Seq(S) /\ \A i, j \in 1 .. Len(s) : s[i] = s[j] => i = j
  BY InjectiveSeq
<1>3. \A i \in 1 .. Len(p), j \in 1 .. Len(s) : p[i] # s[j]
  BY RangeSeq
<1>4. Queues(m) = q
  BY DEF Queues
<1>5. \A x : (x \in Range(p) <=> \E i \in 1 .. Len(p) : p[i] = x)
             /\ (x \in Range(s) <=> \E i \in 1 .. Len(s) : s[i] = x)
  BY RangeSeq
<1> HIDE DEF p, s, q
<1>6. \A i, j \in 1 .. Len(q) : q[i] = q[j] => i = j
  <2> SUFFICES ASSUME NEW i \in 1 .. Len(q), NEW j \in 1 .. Len(q), q[i] = q[j], i < j
               PROVE  FALSE
    BY <1>1
  <2>1. CASE j <= Len(p)
    BY <1>1, <1>2, <2>1
  <2>2. CASE i > Len(p)
    <3>1. /\ i - Len(p) \in 1 .. Len(s) /\ j - Len(p) \in 1 .. Len(s)
          /\ s[i - Len(p)] = s[j - Len(p)] /\ i - Len(p) # j - Len(p)
      BY <1>1, <2>2
    <3> QED
      BY <1>2, <3>1
  <2>3. CASE i <= Len(p) /\ j > Len(p)
    <3>1. i \in 1 .. Len(p) /\ j - Len(p) \in 1 .. Len(s) /\ p[i] = s[j - Len(p)]
      BY <1>1, <2>3
    <3> QED
      BY <1>3, <3>1
  <2> QED
    BY <1>1, <2>1, <2>2, <2>3
<1>7. ASSUME NEW i \in 1 .. Len(q) PROVE q[i] \in Range(p) \cup Range(s)
  <2>1. CASE i <= Len(p)
    BY <1>1, <1>5, <2>1
  <2>2. CASE i > Len(p)
    <3>1. i - Len(p) \in 1 .. Len(s) /\ q[i] = s[i - Len(p)]
      BY <1>1, <2>2
    <3> QED
      BY <1>5, <3>1
  <2> QED
    BY <1>1, <2>1, <2>2
<1>8. ASSUME NEW i \in 1 .. Len(p) PROVE \E j \in 1 .. Len(q) : q[j] = p[i]
  BY <1>1
<1>9. ASSUME NEW i \in 1 .. Len(s) PROVE \E j \in 1 .. Len(q) : q[j] = s[i]
  <2>1. PICK j \in Nat : j = i + Len(p)
    BY <1>1
  <2>2. j \in 1 .. Len(q) /\ ~ (j <= Len(p)) /\ j - Len(p) = i
    BY <1>1, <2>1
  <2>3. q[j] = s[i]
    BY <1>1, <2>2
  <2> QED
    BY <2>2, <2>3
<1>10. \A x : x \in Range(q) <=> \E i \in 1 .. Len(q) : q[i] = x
  BY <1>1, RangeSeq
<1>11. IsInjective(q)
  BY <1>1, <1>6, InjectiveSeq
<1>12. Range(q) = Range(p) \cup Range(s)
  <2>1. \A x \in Range(q) : x \in Range(p) \cup Range(s)
    BY <1>7, <1>10
  <2>2. \A x \in Range(p) \cup Range(s) : x \in Range(q)
    BY <1>5, <1>8, <1>9, <1>10
  <2> QED
    BY <2>1, <2>2
<1> QED
  BY <1>1, <1>4, <1>11, <1>12 DEF p, s

\* The descriptor is free and off its queue; kfree gets 0.
Released(m, d) ==
  [reset_page_info(m, d) EXCEPT
     !.present = RemoveFirst(@, d), !.swapped = RemoveFirst(@, d),
     !.present_pages_num = @ - (IF d \in Range(m.present) THEN 1 ELSE 0)]

\* Descriptor d is unused, the others are for the same pages as before.
DropsPage(m, n, d) ==
  /\ ~ n.pages[d].used
  /\ \A e \in 1 .. MAX_PFN \ {d} : n.pages[e] = m.pages[e]

LEMMA ReleaseGood ==
  ASSUME NEW m, NEW X, NEW d \in Range(m.present) \cup Range(m.swapped), Good(m, X)
  PROVE  LET n == Release(m, d)
         IN  /\ Good(n, X) /\ DropsPage(m, n, d)
             /\ Only(m, n, {"pages", "present", "swapped", "present_pages_num"})
<1> DEFINE n == Released(m, d)
           S == 1 .. MAX_PFN
           k == IF d \in Range(m.present) THEN 1 ELSE 0
<1>1. /\ DOMAIN m = Fields /\ m.frontier \in Nat \ {0} /\ Shape(m) /\ Queued(m)
      /\ Sorted(m, X) /\ DOMAIN m.pages = S
  BY DEF Good, Shape
<1>2. d \in S /\ m.pages[d].used
  BY <1>1 DEF Queued
<1>3. /\ Only(m, n, {"pages", "present", "swapped", "present_pages_num"})
      /\ n.present = RemoveFirst(m.present, d) /\ n.swapped = RemoveFirst(m.swapped, d)
      /\ n.pages = [m.pages EXCEPT ![d] = Unused]
      /\ n.present_pages_num = m.present_pages_num - k
  BY <1>1 DEF Released, reset_page_info, Only, Fields
<1>4. Release(m, d) = n
  <2>1. Release(m, d) = kfree(n, n.pages[d].kva)
    BY Zenon DEF Release, Released
  <2> HIDE DEF n
  <2>2. n.pages[d] = Unused
    BY <1>1, <1>2, <1>3
  <2>3. n.pages[d].kva = 0
    BY <2>2 DEF Unused
  <2> QED
    BY <2>1, <2>3 DEF kfree
<1> HIDE DEF n, S
<1>5. /\ DOMAIN n.pages = S /\ n.pages[d] = Unused
      /\ \A e \in S \ {d} : n.pages[e] = m.pages[e]
  BY <1>1, <1>2, <1>3
<1>6. /\ m.present \in Seq(S) /\ IsInjective(m.present)
      /\ m.swapped \in Seq(S) /\ IsInjective(m.swapped)
  BY <1>1 DEF Queued, S
<1>7. /\ n.present \in Seq(S) /\ IsInjective(n.present)
      /\ Range(n.present) = Range(m.present) \ {d} /\ Len(n.present) = Len(m.present) - k
  <2>1. /\ RemoveFirst(m.present, d) \in Seq(S) /\ IsInjective(RemoveFirst(m.present, d))
        /\ Range(RemoveFirst(m.present, d)) = Range(m.present) \ {d}
        /\ Len(RemoveFirst(m.present, d)) = Len(m.present) - k
    BY <1>6, RemoveSeq
  <2> HIDE DEF k
  <2> QED
    BY <1>3, <2>1
<1>8. /\ n.swapped \in Seq(S) /\ IsInjective(n.swapped)
      /\ Range(n.swapped) = Range(m.swapped) \ {d}
  <2>1. /\ RemoveFirst(m.swapped, d) \in Seq(S) /\ IsInjective(RemoveFirst(m.swapped, d))
        /\ Range(RemoveFirst(m.swapped, d)) = Range(m.swapped) \ {d}
    BY <1>6, RemoveSeq
  <2> QED
    BY <1>3, <2>1
<1>9. /\ n.kstacks = m.kstacks /\ n.pt = m.pt /\ n.mem = m.mem
      /\ n.share = m.share /\ DOMAIN n = Fields /\ n.frontier = m.frontier /\ Fr(n) = Fr(m)
      /\ n.free = m.free
  BY <1>3 DEF Only, Fields, Fr
<1>10. Range(m.present) \subseteq S
  BY <1>1 DEF Queued, S
<1>11. Loses(m, n, X, X)
  BY <1>5, <1>7, <1>9, <1>10 DEF Loses, Takes
<1>12. Sorted(n, X)
  BY <1>1, <1>11, DropRule
<1>13. Shape(n)
  <2>1. \A h \in DOMAIN n.pt : Directory(n, h)
    BY <1>1, <1>9, ShapeParts DEF Shape
  <2>2. Descriptor(n, d)
    BY <1>5, <1>9 DEF Descriptor, Unused
  <2>3. \A e \in S : Descriptor(n, e)
    BY <1>1, <1>5, <1>9, <2>2, ShapeParts DEF Shape, S
  <2>4. \A i \in 1 .. MAX_SHARE_PAGE_NUM : Slot(n, i)
    BY <1>1, <1>9, ShapeParts DEF Shape
  <2> QED
    BY <1>1, <1>5, <1>9, <2>1, <2>3, <2>4 DEF Shape, S
<1>14. DropsPage(m, n, d)
  BY <1>5 DEF DropsPage, Unused, S
<1>15. Queued(n)
  <2>1. {e \in S : n.pages[e].used} = {e \in S : m.pages[e].used} \ {d}
    BY <1>14 DEF DropsPage, S
  <2>2. /\ Range(n.present) \cap Range(n.swapped) = {}
        /\ Range(n.present) \cup Range(n.swapped) = {e \in S : n.pages[e].used}
    BY <1>1, <1>7, <1>8, <2>1 DEF Queued, S
  <2>3. n.present_pages_num = Len(n.present) /\ Len(n.present) <= MAX_PRESENT_PFN
    BY <1>1, <1>3, <1>6, <1>7, MemoryAssumption DEF Queued
  <2> QED
    BY <1>7, <1>8, <2>2, <2>3 DEF Queued, S
<1> QED
  BY <1>3, <1>4, <1>12, <1>13, <1>14, <1>15 DEF Good

\* d is the descriptor of a page in use.
InUse(m, d) == d \in 1 .. MAX_PFN /\ m.pages[d].used

LEMMA InQueues ==
  ASSUME NEW m, NEW X, Good(m, X)
  PROVE  /\ \A d : InUse(m, d) <=> d \in Range(m.present) \cup Range(m.swapped)
         /\ Queues(m) \in Seq(1 .. MAX_PFN) /\ IsInjective(Queues(m))
         /\ Range(Queues(m)) = Range(m.present) \cup Range(m.swapped)
         /\ \A i \in 1 .. Len(Queues(m)) : Queues(m)[i] \in Range(m.present) \cup Range(m.swapped)
<1>1. Queued(m)
  BY DEF Good
<1>2. \A d : InUse(m, d) <=> d \in Range(m.present) \cup Range(m.swapped)
  BY <1>1 DEF Queued, InUse
<1> DEFINE S == 1 .. MAX_PFN
<1>3. /\ m.present \in Seq(S) /\ IsInjective(m.present)
      /\ m.swapped \in Seq(S) /\ IsInjective(m.swapped)
      /\ Range(m.present) \cap Range(m.swapped) = {}
  BY <1>1 DEF Queued
<1> HIDE DEF S
<1>4. /\ Queues(m) \in Seq(S) /\ IsInjective(Queues(m))
      /\ Range(Queues(m)) = Range(m.present) \cup Range(m.swapped)
  BY <1>3, QueuesSeq
<1>5. \A i \in 1 .. Len(Queues(m)) : Queues(m)[i] \in Range(Queues(m))
  BY <1>4, RangeSeq
<1> QED
  BY <1>2, <1>4, <1>5 DEF S

LEMMA FreeUva ==
  ASSUME NEW m, NEW X, NEW g, NEW uva, Good(m, X)
  PROVE  LET n == free_page_with_uva(m, uva, g)
         IN  \/ Stopped(n)
             \/ \E d : /\ InUse(m, d) /\ m.pages[d].uva = uva /\ m.pages[d].pgdir = g
                       /\ n = Release(m, d)
<1> DEFINE q == Queues(m)
           I == {i \in 1 .. Len(q) : m.pages[q[i]].uva = uva /\ m.pages[q[i]].pgdir = g}
           n == free_page_with_uva(m, uva, g)
<1>1. DOMAIN m = Fields /\ Len(q) \in Nat
  BY InQueues DEF Good, Shape
<1>2. CASE I = {}
  <2>1. n = halt(m, "no such page")
    BY <1>2 DEF free_page_with_uva, SelectInSeq
  <2>2. Stopped(halt(m, "no such page"))
    BY <1>1 DEF halt, Fields, Stopped
  <2> QED
    BY <2>1, <2>2
<1>3. CASE I # {}
  <2>1. Min(I) \in I /\ Min(I) # 0
    <3>1. I \in SUBSET (0 .. Len(q)) /\ 0 \notin I
      OBVIOUS
    <3> HIDE DEF I, q
    <3> QED
      BY <1>1, <1>3, <3>1, MinIn
  <2>2. n = Release(m, q[Min(I)])
    <3>1. SelectInSeq(q, LAMBDA d : m.pages[d].uva = uva /\ m.pages[d].pgdir = g) = Min(I)
      BY <1>3 DEF SelectInSeq
    <3> QED
      BY <2>1, <3>1 DEF free_page_with_uva
  <2>3. InUse(m, q[Min(I)])
    BY <2>1, InQueues
  <2> QED
    BY <2>1, <2>2, <2>3
<1> QED
  BY <1>2, <1>3

LEMMA FreeKva ==
  ASSUME NEW m, NEW X, NEW f, Good(m, X)
  PROVE  LET n == free_page_with_kva(m, f)
         IN  Stopped(n) \/ \E d : InUse(m, d) /\ m.pages[d].kva = f /\ n = Release(m, d)
<1> DEFINE q == Queues(m)
           I == {i \in 1 .. Len(q) : m.pages[q[i]].kva = f}
           n == free_page_with_kva(m, f)
<1>1. DOMAIN m = Fields /\ Len(q) \in Nat
  BY InQueues DEF Good, Shape
<1>2. CASE I = {}
  <2>1. n = halt(m, "no such page")
    BY <1>2 DEF free_page_with_kva, SelectInSeq
  <2>2. Stopped(halt(m, "no such page"))
    BY <1>1 DEF halt, Fields, Stopped
  <2> QED
    BY <2>1, <2>2
<1>3. CASE I # {}
  <2>1. Min(I) \in I /\ Min(I) # 0
    <3>1. I \in SUBSET (0 .. Len(q)) /\ 0 \notin I
      OBVIOUS
    <3> HIDE DEF I, q
    <3> QED
      BY <1>1, <1>3, <3>1, MinIn
  <2>2. n = Release(m, q[Min(I)])
    <3>1. SelectInSeq(q, LAMBDA d : m.pages[d].kva = f) = Min(I)
      BY <1>3 DEF SelectInSeq
    <3> QED
      BY <2>1, <3>1 DEF free_page_with_kva
  <2>3. InUse(m, q[Min(I)])
    BY <2>1, InQueues
  <2> QED
    BY <2>1, <2>2, <2>3
<1> QED
  BY <1>2, <1>3

-----------------------------------------------------------------------------
(* The order of free_pagetable *)

Entry == Node \cup Uva

\* Before, spelled out: a page before its table, a table before the one above.
Less(x, y) ==
  \/ x[1] < y[1]
  \/ /\ x[1] = y[1] /\ Len(x) >= 2
     /\ \/ Len(y) = 1
        \/ Len(y) >= 2 /\ x[2] < y[2]
        \/ /\ Len(y) >= 2 /\ x[2] = y[2] /\ Len(x) = 3
           /\ Len(y) = 2 \/ (Len(y) = 3 /\ x[3] < y[3])

LEMMA EntryParts ==
  ASSUME NEW x \in Entry
  PROVE  /\ Len(x) \in {1, 2, 3} /\ DOMAIN x = 1 .. Len(x)
         /\ \A i \in 1 .. Len(x) : x[i] \in Nat
         /\ Len(x) = 1 => x = <<x[1]>>
         /\ Len(x) = 2 => x = <<x[1], x[2]>>
         /\ Len(x) = 3 => x = <<x[1], x[2], x[3]>>
<1>1. CASE x \in {<<i>> : i \in Nat}
  BY <1>1
<1>2. CASE x \in Nat \X Nat
  <2>1. PICK a \in Nat, b \in Nat : x = <<a, b>>
    BY <1>2
  <2> QED
    BY <2>1
<1>3. CASE x \in Nat \X Nat \X Nat
  <2>1. PICK a \in Nat, b \in Nat, c \in Nat : x = <<a, b, c>>
    BY <1>3
  <2> QED
    BY <2>1
<1> QED
  BY <1>1, <1>2, <1>3 DEF Entry, Node, Uva

LEMMA BeforeIsLess ==
  ASSUME NEW x \in Entry, NEW y \in Entry
  PROVE  Before(x, y) <=> Less(x, y)
<1> DEFINE D == {i \in DOMAIN x \cap DOMAIN y : x[i] # y[i]}
<1>1. /\ Len(x) \in {1, 2, 3} /\ DOMAIN x = 1 .. Len(x) /\ \A i \in 1 .. Len(x) : x[i] \in Nat
      /\ Len(y) \in {1, 2, 3} /\ DOMAIN y = 1 .. Len(y) /\ \A i \in 1 .. Len(y) : y[i] \in Nat
  BY EntryParts
<1>2. Before(x, y) <=> IF D = {} THEN Len(x) > Len(y) ELSE x[Min(D)] < y[Min(D)]
  BY DEF Before
<1>3. \A i : i \in D <=> i \in 1 .. Len(x) /\ i \in 1 .. Len(y) /\ x[i] # y[i]
  BY <1>1
<1>4. D # {} => Min(D) \in D /\ \A i \in D : Min(D) <= i
  <2>1. D \in SUBSET (0 .. 3)
    BY <1>1
  <2> HIDE DEF D
  <2> QED
    BY <2>1, MinIn
<1> HIDE DEF D
<1>5. CASE D = {}
  <2>1. /\ x[1] = y[1]
        /\ Len(x) >= 2 /\ Len(y) >= 2 => x[2] = y[2]
        /\ Len(x) = 3 /\ Len(y) = 3 => x[3] = y[3]
    BY <1>1, <1>3, <1>5
  <2>2. Before(x, y) <=> Len(x) > Len(y)
    BY <1>2, <1>5
  <2>3. x[1] \in Nat /\ (Len(x) >= 2 => x[2] \in Nat) /\ (Len(x) = 3 => x[3] \in Nat)
    BY <1>1
  <2>4. Len(x) \in {1, 2, 3} /\ Len(y) \in {1, 2, 3}
    BY <1>1
  <2>5. Less(x, y) <=> Len(x) > Len(y)
    <3>1. ~ (x[1] < y[1])
      BY <2>1, <2>3
    <3>2. CASE Len(x) = 1
      BY <2>4, <3>1, <3>2 DEF Less
    <3>3. CASE Len(x) = 2
      <4>1. Len(y) >= 2 => ~ (x[2] < y[2])
        BY <2>1, <2>3, <3>3
      <4> QED
        BY <2>1, <2>4, <3>1, <3>3, <4>1 DEF Less
    <3>4. CASE Len(x) = 3
      <4>1. Len(y) >= 2 => ~ (x[2] < y[2]) /\ x[2] = y[2]
        BY <2>1, <2>3, <3>4
      <4>2. Len(y) = 3 => ~ (x[3] < y[3])
        BY <2>1, <2>3, <3>4
      <4>3. CASE Len(y) = 1
        BY <2>1, <3>4, <4>3 DEF Less
      <4>4. CASE Len(y) = 2
        BY <2>1, <3>4, <4>1, <4>4 DEF Less
      <4>5. CASE Len(y) = 3
        BY <3>1, <3>4, <4>1, <4>2, <4>5 DEF Less
      <4> QED
        BY <2>4, <4>3, <4>4, <4>5
    <3> QED
      BY <2>4, <3>2, <3>3, <3>4
  <2> QED
    BY <2>2, <2>5
<1>6. CASE D # {}
  <2>1. Min(D) \in 1 .. 3
    BY <1>1, <1>3, <1>4, <1>6
  <2>2. \A i \in 1 .. Len(x) : i \in 1 .. Len(y) /\ i < Min(D) => x[i] = y[i]
    BY <1>1, <1>3, <1>4, <1>6
  <2>3. /\ Min(D) <= Len(x) /\ Min(D) <= Len(y) /\ x[Min(D)] # y[Min(D)]
        /\ Before(x, y) <=> x[Min(D)] < y[Min(D)]
    BY <1>2, <1>3, <1>4, <1>6
  <2>4. CASE Min(D) = 1
    BY <1>1, <2>3, <2>4 DEF Less
  <2>5. CASE Min(D) = 2
    <3>1. x[1] = y[1] /\ Len(x) >= 2 /\ Len(y) >= 2
      BY <1>1, <2>2, <2>3, <2>5
    <3>2. x[1] \in Nat /\ x[2] \in Nat /\ y[2] \in Nat
      BY <1>1, <3>1
    <3> QED
      BY <2>3, <2>5, <3>1, <3>2 DEF Less
  <2>6. CASE Min(D) = 3
    <3>1. x[1] = y[1] /\ x[2] = y[2] /\ Len(x) = 3 /\ Len(y) = 3
      BY <1>1, <2>2, <2>3, <2>6
    <3>2. x[1] \in Nat /\ x[2] \in Nat /\ x[3] \in Nat /\ y[3] \in Nat
      BY <1>1, <3>1
    <3> QED
      BY <2>3, <2>6, <3>1, <3>2 DEF Less
  <2> QED
    BY <2>1, <2>4, <2>5, <2>6
<1> QED
  BY <1>5, <1>6

\* Before is a strict total order.
LEMMA BeforeOrder ==
  ASSUME NEW x \in Entry, NEW y \in Entry, NEW z \in Entry
  PROVE  /\ ~ Before(x, x)
         /\ Before(x, y) /\ Before(y, z) => Before(x, z)
         /\ Before(x, y) \/ Before(y, x) \/ x = y
<1>1. /\ Len(x) \in {1, 2, 3} /\ x[1] \in Nat /\ (Len(x) >= 2 => x[2] \in Nat)
      /\ Len(x) = 3 => x[3] \in Nat
      /\ Len(x) = 1 => x = <<x[1]>>
      /\ Len(x) = 2 => x = <<x[1], x[2]>>
      /\ Len(x) = 3 => x = <<x[1], x[2], x[3]>>
  BY EntryParts
<1>2. /\ Len(y) \in {1, 2, 3} /\ y[1] \in Nat /\ (Len(y) >= 2 => y[2] \in Nat)
      /\ Len(y) = 3 => y[3] \in Nat
      /\ Len(y) = 1 => y = <<y[1]>>
      /\ Len(y) = 2 => y = <<y[1], y[2]>>
      /\ Len(y) = 3 => y = <<y[1], y[2], y[3]>>
  BY EntryParts, SMTT(30)
<1>3. /\ Len(z) \in {1, 2, 3} /\ z[1] \in Nat /\ (Len(z) >= 2 => z[2] \in Nat)
      /\ Len(z) = 3 => z[3] \in Nat
  BY EntryParts, SMTT(30)
<1>4. ~ Less(x, x)
  BY <1>1 DEF Less
<1>5. ASSUME Less(x, y), Less(y, z) PROVE Less(x, z)
  <2>1. CASE x[1] < y[1] \/ y[1] < z[1]
    <3>1. (x[1] < y[1] \/ x[1] = y[1]) /\ (y[1] < z[1] \/ y[1] = z[1])
      BY <1>5 DEF Less
    <3>2. x[1] < z[1]
      BY <1>1, <1>2, <1>3, <2>1, <3>1
    <3> QED
      BY <3>2 DEF Less
  <2>2. CASE x[1] = y[1] /\ y[1] = z[1]
    <3>1. ~ (x[1] < y[1]) /\ ~ (y[1] < z[1])
      BY <1>1, <1>2, <1>3, <2>2
    <3>2. Len(x) >= 2 /\ Len(y) >= 2
      BY <1>5, <3>1 DEF Less
    <3>3. CASE Len(z) = 1
      BY <2>2, <3>2, <3>3 DEF Less
    <3>4. CASE Len(z) >= 2 /\ (x[2] < y[2] \/ y[2] < z[2])
      <4>1. x[2] < z[2]
        BY <1>1, <1>2, <1>3, <1>5, <3>1, <3>2, <3>4 DEF Less
      <4> QED
        BY <2>2, <3>2, <3>4, <4>1 DEF Less
    <3>5. CASE Len(z) >= 2 /\ ~ (x[2] < y[2]) /\ ~ (y[2] < z[2])
      <4>1. x[2] = y[2] /\ y[2] = z[2] /\ Len(x) = 3 /\ Len(y) = 3
        BY <1>1, <1>2, <1>3, <1>5, <3>1, <3>2, <3>5 DEF Less
      <4>2. Len(z) = 2 \/ (Len(z) = 3 /\ x[3] < y[3] /\ y[3] < z[3])
        BY <1>1, <1>2, <1>3, <1>5, <3>1, <3>2, <3>5, <4>1 DEF Less
      <4>3. Len(z) = 2 \/ (Len(z) = 3 /\ x[3] < z[3])
        BY <1>1, <1>2, <1>3, <4>1, <4>2
      <4> QED
        BY <2>2, <3>2, <3>5, <4>1, <4>3 DEF Less
    <3>6. Len(z) = 1 \/ Len(z) >= 2
      <4>1. \A k \in {1, 2, 3} : k = 1 \/ k >= 2
        OBVIOUS
      <4> QED
        BY <1>3, <4>1, Zenon
    <3> QED
      BY <3>3, <3>4, <3>5, <3>6, Zenon
  <2>3. (x[1] < y[1] \/ x[1] = y[1]) /\ (y[1] < z[1] \/ y[1] = z[1])
    BY <1>5 DEF Less
  <2> QED
    BY <2>1, <2>2, <2>3
<1>6. Less(x, y) \/ Less(y, x) \/ x = y
  <2>1. CASE x[1] # y[1]
    BY <1>1, <1>2, <2>1 DEF Less
  <2>2. CASE x[1] = y[1] /\ (Len(x) = 1 \/ Len(y) = 1)
    BY <1>1, <1>2, <2>2 DEF Less
  <2>3. CASE x[1] = y[1] /\ Len(x) >= 2 /\ Len(y) >= 2 /\ x[2] # y[2]
    BY <1>1, <1>2, <2>3 DEF Less
  <2>4. CASE x[1] = y[1] /\ Len(x) >= 2 /\ Len(y) >= 2 /\ x[2] = y[2]
    <3>1. CASE Len(x) = 2 /\ Len(y) = 2
      BY <1>1, <1>2, <2>4, <3>1
    <3>2. CASE Len(x) = 3 /\ Len(y) = 2
      BY <2>4, <3>2 DEF Less
    <3>3. CASE Len(x) = 2 /\ Len(y) = 3
      BY <2>4, <3>3 DEF Less
    <3>4. CASE Len(x) = 3 /\ Len(y) = 3
      <4>1. x[3] = y[3] => x = y
        BY <1>1, <1>2, <2>4, <3>4
      <4>2. x[3] < y[3] \/ y[3] < x[3] \/ x[3] = y[3]
        BY <1>1, <1>2, <3>4
      <4> QED
        BY <2>4, <3>4, <4>1, <4>2 DEF Less
    <3> QED
      BY <1>1, <1>2, <2>4, <3>1, <3>2, <3>3, <3>4
  <2>5. (Len(x) = 1 \/ Len(x) >= 2) /\ (Len(y) = 1 \/ Len(y) >= 2)
    <3>1. \A k \in {1, 2, 3} : k = 1 \/ k >= 2
      OBVIOUS
    <3> QED
      BY <1>1, <1>2, <3>1, Zenon
  <2> QED
    BY <2>1, <2>2, <2>3, <2>4, <2>5, Zenon
<1> QED
  BY <1>4, <1>5, <1>6, BeforeIsLess

\* Ordered(S) is S, each element once.
LEMMA OrderedSeq ==
  ASSUME NEW S \in SUBSET Entry, IsFiniteSet(S)
  PROVE  /\ Cardinality(S) \in Nat /\ DOMAIN Ordered(S) = 1 .. Cardinality(S)
         /\ \A i \in 1 .. Cardinality(S) : Ordered(S)[i] \in S
         /\ \A i, j \in 1 .. Cardinality(S) : Ordered(S)[i] = Ordered(S)[j] => i = j
         /\ \A x \in S : \E i \in 1 .. Cardinality(S) : Ordered(S)[i] = x
<1> DEFINE n == Cardinality(S)
           B(x) == {y \in S : Before(y, x)}
           R == 0 .. (n - 1)
           r == [x \in S |-> Cardinality(B(x))]
<1>1. n \in Nat
  BY FS_CardinalityType
<1>2. \A x \in S : /\ B(x) \subseteq S /\ x \notin B(x)
                   /\ IsFiniteSet(B(x)) /\ Cardinality(B(x)) \in Nat /\ Cardinality(B(x)) < n
  <2> SUFFICES ASSUME NEW x \in S
               PROVE  /\ B(x) \subseteq S /\ x \notin B(x)
                      /\ IsFiniteSet(B(x)) /\ Cardinality(B(x)) \in Nat
                      /\ Cardinality(B(x)) < n
    OBVIOUS
  <2>1. B(x) \subseteq S /\ x \notin B(x) /\ B(x) # S
    BY BeforeOrder
  <2> HIDE DEF B
  <2>2. IsFiniteSet(B(x)) /\ Cardinality(B(x)) <= n /\ (n = Cardinality(B(x)) => S = B(x))
    BY <2>1, FS_Subset
  <2>3. Cardinality(B(x)) \in Nat
    BY <2>2, FS_CardinalityType
  <2> QED
    BY <1>1, <2>1, <2>2, <2>3
<1>3. \A x, y \in S : Before(x, y) => Cardinality(B(x)) < Cardinality(B(y))
  <2> SUFFICES ASSUME NEW x \in S, NEW y \in S, Before(x, y)
               PROVE  Cardinality(B(x)) < Cardinality(B(y))
    OBVIOUS
  <2>1. B(x) \subseteq B(y) /\ x \in B(y)
    BY BeforeOrder
  <2>2. B(x) # B(y)
    BY <1>2, <2>1
  <2> HIDE DEF B
  <2>3. Cardinality(B(x)) <= Cardinality(B(y))
        /\ (Cardinality(B(y)) = Cardinality(B(x)) => B(y) = B(x))
    BY <1>2, <2>1, FS_Subset
  <2> QED
    BY <1>2, <2>2, <2>3
<1>4. \A x, y \in S : Cardinality(B(x)) = Cardinality(B(y)) => x = y
  <2> SUFFICES ASSUME NEW x \in S, NEW y \in S, Cardinality(B(x)) = Cardinality(B(y))
               PROVE  x = y
    OBVIOUS
  <2>1. ~ Before(x, y) /\ ~ Before(y, x)
    <3> HIDE DEF B
    <3> QED
      BY <1>2, <1>3
  <2> QED
    BY <2>1, BeforeOrder
<1> HIDE DEF B
<1>5. r \in [S -> R] /\ \A x, y \in S : r[x] = r[y] => x = y
  BY <1>1, <1>2, <1>4
<1>6. r \in Injection(S, R)
  BY <1>5 DEF Injection, IsInjective
<1>7. IsFiniteSet(R) /\ Cardinality(R) = n
  BY <1>1, FS_Interval, SMTT(30)
<1> HIDE DEF r, R
<1>8. r \in Surjection(S, R)
  BY <1>5, <1>6, <1>7, FS_Injection DEF Injection, Surjection
<1>9. \A i \in 1 .. n : \E x \in S : Cardinality(B(x)) = i - 1
  <2> SUFFICES ASSUME NEW i \in 1 .. n
               PROVE  \E x \in S : Cardinality(B(x)) = i - 1
    OBVIOUS
  <2>1. i - 1 \in R
    BY <1>1 DEF R
  <2>2. PICK x \in S : r[x] = i - 1
    BY <1>8, <2>1 DEF Surjection
  <2> QED
    BY <2>2 DEF r
<1> DEFINE o == Ordered(S)
<1>10. DOMAIN o = 1 .. n /\ \A i \in 1 .. n : o[i] = CHOOSE x \in S : Cardinality(B(x)) = i - 1
  BY DEF Ordered, B
<1> HIDE DEF o
<1>11. \A i \in 1 .. n : o[i] \in S /\ Cardinality(B(o[i])) = i - 1
  BY <1>9, <1>10
<1> HIDE DEF n
<1>12. \A i, j \in 1 .. n : o[i] = o[j] => i = j
  BY <1>1, <1>11
<1>13. ASSUME NEW x \in S PROVE \E i \in 1 .. n : o[i] = x
  <2>1. PICK i \in 1 .. n : Cardinality(B(x)) = i - 1
    BY <1>1, <1>2
  <2>2. o[i] \in S /\ Cardinality(B(o[i])) = Cardinality(B(x))
    BY <1>11, <2>1
  <2> QED
    BY <1>4, <2>2
<1> QED
  BY <1>1, <1>10, <1>11, <1>12, <1>13 DEF o, n

-----------------------------------------------------------------------------
(* A process gets its pages back *)

\* n has what m has, and perhaps more entries and frames.
Keeps(m, n) ==
  /\ DOMAIN n = Fields /\ DOMAIN n.pt = DOMAIN m.pt /\ SamePages(m, n)
  /\ \A h \in DOMAIN m.pt : DOMAIN m.pt[h].pte \subseteq DOMAIN n.pt[h].pte
  /\ n.share = m.share /\ n.halted = m.halted /\ Fr(m) \subseteq Fr(n)

LEMMA SwapInStep ==
  ASSUME NEW m, NEW n, NEW g \in DOMAIN m.pt \cup {0}, NEW d \in Range(n.swapped),
         Good(n, {}), Keeps(m, n)
  PROVE  LET r == swap_in_page(g, n, d)
         IN  Good(r, {}) /\ Keeps(m, r) /\ Range(n.swapped) \ {d} \subseteq Range(r.swapped)
<1> DEFINE r == swap_in_page(g, n, d)
<1>1. CASE n.pages[d].pgdir = g /\ n.present_pages_num < MAX_PRESENT_PFN
  <2>1. r = swap_in(n, d)
    BY <1>1 DEF swap_in_page
  <2>2. Len(n.present) < MAX_PRESENT_PFN /\ n.pages[d].pgdir \in DOMAIN n.pt
    <3>1. d \in 1 .. MAX_PFN /\ n.pages[d].used
      BY DEF Good, Queued
    <3>2. n.pages[d].pgdir # 0
      BY <3>1 DEF Good, Shape, Descriptor
    <3> QED
      BY <1>1, <3>2 DEF Good, Queued, Keeps
  <2> HIDE DEF r
  <2>3. /\ Good(r, {}) /\ SamePages(n, r) /\ Range(r.swapped) = Range(n.swapped) \ {d}
        /\ Visits(n, r, n.pages[d].pgdir, n.pages[d].uva)
    BY <2>1, <2>2, SwapInGood
  <2>4. Keeps(m, r)
    BY <2>3 DEF Keeps, Visits, Adds, SamePages
  <2> QED
    BY <2>3, <2>4 DEF r
<1>2. CASE ~ (n.pages[d].pgdir = g /\ n.present_pages_num < MAX_PRESENT_PFN)
  <2>1. r = n
    BY <1>2 DEF swap_in_page
  <2> QED
    BY <2>1
<1> QED
  BY <1>1, <1>2

\* After the first i pages of the queue of m; k is <<directory, m>>.
SwapStep(k, n, d) == swap_in_page(k[1], n, d)
SwapHolds(k, i, n) ==
  /\ Good(n, {}) /\ Keeps(k[2], n)
  /\ \A j \in (i + 1) .. Len(k[2].swapped) : k[2].swapped[j] \in Range(n.swapped)

SwapFold == INSTANCE FoldTheorems WITH Op <- SwapStep, Holds <- SwapHolds

LEMMA SwapInAllGood ==
  ASSUME NEW m, NEW g \in DOMAIN m.pt \cup {0}, Good(m, {})
  PROVE  LET n == swap_in_all_pages(m, g)
         IN  Good(n, {}) /\ Keeps(m, n)
<1> DEFINE k == <<g, m>>
           s == m.swapped
           n == Len(s)
<1>1. /\ s \in Seq(1 .. MAX_PFN) /\ IsInjective(s) /\ n \in Nat /\ DOMAIN s = 1 .. n
      /\ DOMAIN m = Fields
  BY DEF Good, Queued, Shape
<1>2. /\ \A i, j \in 1 .. n : s[i] = s[j] => i = j
      /\ \A i \in 1 .. n : s[i] \in Range(s)
  BY <1>1, InjectiveSeq, RangeSeq
<1>3. k[1] = g /\ k[2] = m
  OBVIOUS
<1>4. swap_in_all_pages(m, g) = SwapFold!Folded(k, m, s)
  BY <1>3 DEF swap_in_all_pages, SwapFold!Folded, SwapFold!FoldLeft, SwapFold!MapThenFoldSet,
     FoldLeft, MapThenFoldSet, SwapStep, Max, SwapFold!Max
<1> HIDE DEF k, s, n
<1>5. SwapHolds(k, 0, m)
  BY <1>1, <1>2, <1>3 DEF SwapHolds, Keeps, SamePages, s, n
<1>6. ASSUME NEW i \in 1 .. n, NEW x, SwapHolds(k, i - 1, x)
      PROVE  SwapHolds(k, i, SwapStep(k, x, s[i]))
  <2> DEFINE r == swap_in_page(g, x, s[i])
  <2>1. /\ Good(x, {}) /\ Keeps(m, x) /\ (i - 1) + 1 = i
        /\ \A j \in i .. n : s[j] \in Range(x.swapped)
    BY <1>1, <1>3, <1>6 DEF SwapHolds, s, n
  <2>2. s[i] \in Range(x.swapped)
    BY <1>1, <2>1
  <2>3. /\ Good(r, {}) /\ Keeps(m, r)
        /\ Range(x.swapped) \ {s[i]} \subseteq Range(r.swapped)
    BY <2>1, <2>2, SwapInStep
  <2> HIDE DEF r
  <2>4. \A j \in (i + 1) .. n : s[j] \in Range(r.swapped)
    BY <1>1, <1>2, <2>1, <2>3
  <2>5. SwapStep(k, x, s[i]) = r
    BY <1>3 DEF SwapStep, r
  <2> QED
    BY <1>3, <2>3, <2>4, <2>5 DEF SwapHolds, s, n
<1>7. SwapHolds(k, n, SwapFold!Folded(k, m, s))
  BY <1>1, <1>5, <1>6, SwapFold!FoldRule
<1> QED
  BY <1>3, <1>4, <1>7 DEF SwapHolds

-----------------------------------------------------------------------------
(* Descriptors and page tables *)

\* A private page in use has an entry in its directory, and one descriptor.
Described(m) ==
  /\ \A d \in 1 .. MAX_PFN : m.pages[d].used =>
       InWindow(m.pages[d].uva) \/ Mapped(m, m.pages[d].uva, m.pages[d].pgdir)
  /\ \A d, e \in 1 .. MAX_PFN :
       /\ m.pages[d].used /\ m.pages[e].used
       /\ m.pages[d].uva = m.pages[e].uva /\ m.pages[d].pgdir = m.pages[e].pgdir
       => d = e \/ InWindow(m.pages[d].uva)

\* Directory g has no private pages.
Gone(m, g) ==
  \A d \in 1 .. MAX_PFN :
    m.pages[d].used /\ m.pages[d].pgdir = g => InWindow(m.pages[d].uva)

LEMMA KeepsDescribed ==
  ASSUME NEW m, NEW n, Keeps(m, n), Described(m)
  PROVE  Described(n) /\ \A g : Gone(m, g) => Gone(n, g)
BY DEF Keeps, SamePages, Described, Gone, Mapped

LEMMA GetsDescribed ==
  ASSUME NEW m, NEW n, NEW g \in DOMAIN m.pt, NEW uva, Gets(m, n, g, uva), Described(m),
         InWindow(uva) \/ ~ Mapped(m, uva, g)
  PROVE  Described(n)
<1>1. PICK d \in 1 .. MAX_PFN : NewPage(m, n, d, g, uva)
  BY DEF Gets
<1>2. DOMAIN n.pt = DOMAIN m.pt /\ Adds(m, n, g, uva)
  BY DEF Gets, Visits
<1>3. Mapped(n, uva, g) /\ \A u, h : Mapped(m, u, h) => Mapped(n, u, h)
  BY <1>2 DEF Mapped, Adds
<1>4. ASSUME NEW e \in 1 .. MAX_PFN, n.pages[e].used
      PROVE  InWindow(n.pages[e].uva) \/ Mapped(n, n.pages[e].uva, n.pages[e].pgdir)
  <2>1. CASE e = d
    BY <1>1, <1>3, <2>1 DEF NewPage
  <2>2. CASE e # d
    BY <1>1, <1>3, <1>4, <2>2 DEF NewPage, Described
  <2> QED
    BY <2>1, <2>2
<1>5. ASSUME NEW a \in 1 .. MAX_PFN, NEW b \in 1 .. MAX_PFN, n.pages[a].used, n.pages[b].used,
             n.pages[a].uva = n.pages[b].uva, n.pages[a].pgdir = n.pages[b].pgdir
      PROVE  a = b \/ InWindow(n.pages[a].uva)
  <2>1. ASSUME NEW e \in 1 .. MAX_PFN, e # d, n.pages[e].used,
               n.pages[e].uva = uva, n.pages[e].pgdir = g
        PROVE  InWindow(uva)
    BY <1>1, <2>1 DEF NewPage, Described
  <2>2. CASE a # d /\ b # d
    BY <1>1, <1>5, <2>2 DEF NewPage, Described
  <2>3. CASE a = d \/ b = d
    BY <1>1, <1>5, <2>1, <2>3 DEF NewPage
  <2> QED
    BY <2>2, <2>3
<1> QED
  BY <1>4, <1>5 DEF Described

-----------------------------------------------------------------------------
(* A process gives its pages back *)

\* The descriptors in use in n are some of those of m, the rest is the same.
Frees(m, n) ==
  /\ DOMAIN n = Fields /\ n.pt = m.pt /\ n.share = m.share /\ n.halted = m.halted
  /\ Fr(n) = Fr(m)
  /\ \A d \in 1 .. MAX_PFN : n.pages[d].used =>
       /\ m.pages[d].used /\ n.pages[d].uva = m.pages[d].uva
       /\ n.pages[d].pgdir = m.pages[d].pgdir

\* Page uva of g has no descriptor; for shared pages the code does not care.
Undescribed(n, g, uva) ==
  InWindow(uva) \/ \A d \in 1 .. MAX_PFN :
                     ~ (n.pages[d].used /\ n.pages[d].uva = uva /\ n.pages[d].pgdir = g)

LEMMA ReleaseFrees ==
  ASSUME NEW m, NEW X, NEW d, InUse(m, d), Good(m, X)
  PROVE  LET n == Release(m, d)
         IN  Good(n, X) /\ Frees(m, n) /\ ~ n.pages[d].used
<1> DEFINE n == Release(m, d)
<1>1. d \in Range(m.present) \cup Range(m.swapped)
  BY InQueues
<1> HIDE DEF n
<1>2. /\ Good(n, X) /\ DropsPage(m, n, d)
      /\ Only(m, n, {"pages", "present", "swapped", "present_pages_num"})
  BY <1>1, ReleaseGood DEF n
<1>3. Frees(m, n)
  BY <1>2 DEF Frees, Only, Fields, DropsPage, Fr
<1> QED
  BY <1>2, <1>3 DEF n, DropsPage

\* The kernel runs.
Live(m) == m.halted = ""

\* One entry of g.
LEMMA FreeEntryGood ==
  ASSUME NEW m, NEW n, NEW X, NEW g \in DOMAIN m.pt, NEW e \in Entry,
         Described(m), Good(n, X), Frees(m, n), Live(m), <<g, e>> \notin X
  PROVE  LET r == free_entry(g, n, e)
         IN  \/ Stopped(r)
             \/ /\ Good(r, X \cup {<<g, e>>}) /\ Frees(m, r) /\ Frees(n, r)
                /\ e \notin DOMAIN m.pt[g].tab => Undescribed(r, g, e)
<1> DEFINE r == free_entry(g, n, e)
           Y == X \cup {<<g, e>>}
<1>1. Live(n) /\ n.pt = m.pt
  BY Zenon DEF Frees, Live
<1>2. ASSUME NEW s, Good(s, X)
      PROVE  Good(s, Y) /\ (g \in DOMAIN s.pt /\ e \in DOMAIN s.pt[g].tab =>
                               Loose(s, Y, s.pt[g].tab[e]))
  <2>1. Loses(s, s, X, Y)
    <3>1. \A x, y : <<x, y>> \notin Y => <<x, y>> \notin X
      BY DEF Y
    <3> HIDE DEF Y
    <3>2. ASSUME NEW k, NEW x, NEW y, NEW f, Takes(s, Y, k, x, y, f)
          PROVE  Takes(s, X, k, x, y, f)
      BY <3>1, <3>2 DEF Takes
    <3> QED
      BY <3>2 DEF Loses
  <2>2. Sorted(s, X)
    BY <1>2 DEF Good
  <2> HIDE DEF Y
  <2>3. /\ Sorted(s, Y)
        /\ \A k, x, y, f : Takes(s, X, k, x, y, f) /\ ~ Takes(s, Y, k, x, y, f) => Loose(s, Y, f)
    BY <2>1, <2>2, DropRule
  <2>4. ASSUME g \in DOMAIN s.pt, e \in DOMAIN s.pt[g].tab
        PROVE  /\ Takes(s, X, "table", g, e, s.pt[g].tab[e])
               /\ ~ Takes(s, Y, "table", g, e, s.pt[g].tab[e])
    BY <2>4 DEF Takes, Y
  <2>5. Good(s, Y)
    BY <1>2, <2>3 DEF Good
  <2> QED
    BY <2>3, <2>4, <2>5
<1> HIDE DEF Y
<1>3. CASE e \in DOMAIN n.pt[g].tab
  <2> DEFINE f == n.pt[g].tab[e]
  <2>1. r = kfree(n, f)
    BY <1>1, <1>3, Zenon DEF free_entry, Live
  <2>2. Good(n, Y) /\ Loose(n, Y, f)
    BY <1>1, <1>2, <1>3
  <2> HIDE DEF f, r
  <2>3. Good(r, Y)
    BY <2>1, <2>2, KfreeGood
  <2>4. f # 0 /\ DOMAIN n = Fields
    <3>1. f \in Fr(n)
      BY <2>2 DEF Loose
    <3>2. DOMAIN n = Fields /\ n.frontier \in Nat
      BY DEF Good, Shape
    <3> QED
      BY <3>1, <3>2 DEF Fr
  <2>5. Only(n, r, {"free", "mem"})
    BY <2>1, <2>4, KfreeEffect
  <2>6. Frees(m, r) /\ Frees(n, r)
    BY <2>5 DEF Frees, Only, Fields, Fr
  <2> QED
    BY <1>1, <1>3, <2>3, <2>6 DEF r, Y
<1>4. CASE e \notin DOMAIN n.pt[g].tab
  <2>1. r = free_page_with_uva(n, e, g)
    BY <1>1, <1>4, Zenon DEF free_entry, Live
  <2> HIDE DEF r
  <2>2. CASE Stopped(r)
    BY <2>2 DEF r
  <2>3. CASE ~ Stopped(r)
    <3>0. \/ Stopped(r)
          \/ \E d : /\ InUse(n, d) /\ n.pages[d].uva = e /\ n.pages[d].pgdir = g
                    /\ r = Release(n, d)
      BY <2>1, FreeUva
    <3>1. PICK d : /\ InUse(n, d) /\ n.pages[d].uva = e /\ n.pages[d].pgdir = g
                   /\ r = Release(n, d)
      BY <2>3, <3>0
    <3>2. Good(r, X) /\ Frees(n, r) /\ ~ r.pages[d].used
      BY <3>1, ReleaseFrees
    <3>3. Frees(m, r)
      BY <3>2 DEF Frees
    <3>4. Undescribed(r, g, e)
      <4> SUFFICES ASSUME NEW b \in 1 .. MAX_PFN, r.pages[b].used, r.pages[b].uva = e,
                          r.pages[b].pgdir = g
                   PROVE  InWindow(e)
        BY DEF Undescribed
      <4>1. m.pages[b].used /\ m.pages[b].uva = e /\ m.pages[b].pgdir = g
        BY <3>3 DEF Frees
      <4>2. d \in 1 .. MAX_PFN /\ m.pages[d].used /\ m.pages[d].uva = e /\ m.pages[d].pgdir = g
        BY <3>1 DEF Frees, InUse
      <4>3. d # b
        BY <3>2
      <4> QED
        BY <4>1, <4>2, <4>3 DEF Described
    <3> QED
      BY <1>2, <3>2, <3>3, <3>4 DEF r, Y
  <2> QED
    BY <2>2, <2>3
<1> QED
  BY <1>3, <1>4

\* After the first i entries in the order s; k is <<directory, m, s>>.
FreeStep(k, n, e) == free_entry(k[1], n, e)
FreeHolds(k, i, n) ==
  \/ Stopped(n)
  \/ /\ Good(n, {<<k[1], k[3][j]>> : j \in 1 .. i}) /\ Frees(k[2], n)
     /\ \A j \in 1 .. i : k[3][j] \notin DOMAIN k[2].pt[k[1]].tab => Undescribed(n, k[1], k[3][j])

FreeFold == INSTANCE FoldTheorems WITH Op <- FreeStep, Holds <- FreeHolds

\* The entries of directory g, in order, and what is left after them.
Entries(m, g) == Ordered(DOMAIN m.pt[g].tab \cup DOMAIN m.pt[g].pte)
Emptied(n, g) == [n EXCEPT !.pt[g].tab = <<>>, !.pt[g].pte = <<>>]

LEMMA FreeAll ==
  ASSUME NEW m, NEW g \in DOMAIN m.pt, Good(m, {}), Described(m), Live(m)
  PROVE  LET n == FoldLeft(LAMBDA x, e : free_entry(g, x, e), m, Entries(m, g))
         IN  \/ Stopped(n)
             \/ \E X : /\ Good(n, X) /\ Frees(m, n)
                       /\ \A x, y : <<x, y>> \in X => x = g
                       /\ \A e \in DOMAIN m.pt[g].tab : <<g, e>> \in X
                       /\ \A u \in DOMAIN m.pt[g].pte : Undescribed(n, g, u)
<1> DEFINE E == DOMAIN m.pt[g].tab \cup DOMAIN m.pt[g].pte
           s == Entries(m, g)
           n == Cardinality(E)
           k == <<g, m, s>>
           r == FreeFold!Folded(k, m, s)
           X(i) == {<<g, s[j]>> : j \in 1 .. i}
<1>1. Directory(m, g) /\ DOMAIN m = Fields
  BY DEF Good, Shape
<1>2. E \in SUBSET Entry /\ IsFiniteSet(E)
  BY <1>1, FS_Union DEF Directory, Entry
<1>3. k[1] = g /\ k[2] = m /\ k[3] = s
  OBVIOUS
<1>4. FoldLeft(LAMBDA x, e : free_entry(g, x, e), m, s) = r
  BY <1>3 DEF FreeFold!Folded, FreeFold!FoldLeft, FreeFold!MapThenFoldSet,
     FoldLeft, MapThenFoldSet, FreeStep, Max, FreeFold!Max
<1>5. s = Ordered(E)
  BY DEF Entries
<1> HIDE DEF E, s, k, r
<1>6. /\ n \in Nat /\ DOMAIN s = 1 .. n /\ \A i \in 1 .. n : s[i] \in E
      /\ \A i, j \in 1 .. n : s[i] = s[j] => i = j
      /\ \A x \in E : \E i \in 1 .. n : s[i] = x
  BY <1>2, <1>5, OrderedSeq
<1> HIDE DEF n
<1>7. FreeHolds(k, 0, m)
  <2>1. {<<k[1], k[3][j]>> : j \in 1 .. 0} = {}
    OBVIOUS
  <2>2. Frees(m, m)
    BY <1>1 DEF Frees
  <2> QED
    BY <1>3, <2>1, <2>2 DEF FreeHolds
<1>8. ASSUME NEW i \in 1 .. n, NEW x, FreeHolds(k, i - 1, x)
      PROVE  FreeHolds(k, i, FreeStep(k, x, s[i]))
  <2> DEFINE y == free_entry(g, x, s[i])
  <2>1. FreeStep(k, x, s[i]) = y
    BY <1>3 DEF FreeStep
  <2>2. CASE Stopped(x)
    <3>1. y = x
      BY <2>2, Zenon DEF free_entry, Stopped
    <3> QED
      BY <2>1, <2>2, <3>1 DEF FreeHolds
  <2>3. CASE ~ Stopped(x)
    <3>1. /\ Good(x, X(i - 1)) /\ Frees(m, x)
          /\ \A j \in 1 .. (i - 1) : s[j] \notin DOMAIN m.pt[g].tab => Undescribed(x, g, s[j])
      BY <1>3, <1>8, <2>3 DEF FreeHolds
    <3>2. <<g, s[i]>> \notin X(i - 1)
      <4> SUFFICES ASSUME NEW j \in 1 .. (i - 1), s[j] = s[i]
                   PROVE  FALSE
        OBVIOUS
      <4>1. j \in 1 .. n /\ j # i
        BY <1>6
      <4> QED
        BY <1>6, <4>1
    <3>3. X(i) = X(i - 1) \cup {<<g, s[i]>>}
      <4>1. 1 .. i = (1 .. (i - 1)) \cup {i}
        BY <1>6
      <4> QED
        BY <4>1
    <3>4. s[i] \in Entry
      BY <1>2, <1>6
    <3> HIDE DEF X, y
    <3>5. \/ Stopped(y)
          \/ /\ Good(y, X(i)) /\ Frees(m, y) /\ Frees(x, y)
             /\ s[i] \notin DOMAIN m.pt[g].tab => Undescribed(y, g, s[i])
      BY <3>1, <3>2, <3>3, <3>4, FreeEntryGood DEF y
    <3>6. Frees(x, y) => \A u : Undescribed(x, g, u) => Undescribed(y, g, u)
      BY DEF Frees, Undescribed
    <3>7. CASE Stopped(y)
      BY <2>1, <3>7 DEF FreeHolds
    <3>8. CASE ~ Stopped(y)
      <4>1. ASSUME NEW j \in 1 .. i, s[j] \notin DOMAIN m.pt[g].tab
            PROVE  Undescribed(y, g, s[j])
        <5>1. j = i \/ j \in 1 .. (i - 1)
          OBVIOUS
        <5> QED
          BY <3>1, <3>5, <3>6, <3>8, <4>1, <5>1
      <4>2. Good(y, X(i)) /\ Frees(m, y)
        BY <3>5, <3>8
      <4> QED
        BY <1>3, <2>1, <4>1, <4>2 DEF FreeHolds, X
    <3> QED
      BY <3>7, <3>8
  <2> QED
    BY <2>2, <2>3
<1>9. FreeHolds(k, n, r)
  BY <1>6, <1>7, <1>8, FreeFold!FoldRule DEF r
<1>10. CASE ~ Stopped(r)
  <2>1. /\ Good(r, X(n)) /\ Frees(m, r)
        /\ \A j \in 1 .. n : s[j] \notin DOMAIN m.pt[g].tab => Undescribed(r, g, s[j])
    BY <1>3, <1>9, <1>10 DEF FreeHolds
  <2>2. /\ \A x, y : <<x, y>> \in X(n) => x = g
        /\ \A e \in DOMAIN m.pt[g].tab : <<g, e>> \in X(n)
    BY <1>6 DEF E
  <2> HIDE DEF X
  <2>3. ASSUME NEW u \in DOMAIN m.pt[g].pte PROVE Undescribed(r, g, u)
    <3>1. u \in Uva /\ DOMAIN m.pt[g].tab \subseteq Node
      BY <1>1 DEF Directory
    <3>2. u \notin Node
      BY <3>1 DEF Uva, Node
    <3>3. PICK j \in 1 .. n : s[j] = u
      BY <1>6 DEF E
    <3> QED
      BY <2>1, <3>1, <3>2, <3>3
  <2> QED
    BY <1>4, <2>1, <2>2, <2>3 DEF s
<1> QED
  BY <1>4, <1>10 DEF s

LEMMA EmptiedGood ==
  ASSUME NEW m, NEW g \in DOMAIN m.pt, NEW X, Good(m, X), \A x, y : <<x, y>> \in X => x = g
  PROVE  LET n == Emptied(m, g)
         IN  /\ Good(n, {}) /\ Only(m, n, {"pt"}) /\ DOMAIN n.pt = DOMAIN m.pt
             /\ \A h \in DOMAIN m.pt \ {g} : n.pt[h] = m.pt[h]
<1> DEFINE n == Emptied(m, g)
<1>1. /\ DOMAIN m = Fields /\ m.frontier \in Nat \ {0}
      /\ DOMAIN m.pt[g] = {"tab", "pte", "task"} /\ Directory(m, g)
  BY DEF Good, Shape, Directory
<1>2. /\ Only(m, n, {"pt"}) /\ DOMAIN n.pt = DOMAIN m.pt
      /\ \A h \in DOMAIN m.pt \ {g} : n.pt[h] = m.pt[h]
      /\ DOMAIN n.pt[g] = DOMAIN m.pt[g]
      /\ n.pt[g].tab = <<>> /\ n.pt[g].pte = <<>>
  BY <1>1 DEF Emptied, Only, Fields
<1> HIDE DEF n
<1>3. /\ n.kstacks = m.kstacks /\ n.pages = m.pages /\ n.present = m.present
      /\ n.swapped = m.swapped /\ n.present_pages_num = m.present_pages_num
      /\ n.share = m.share /\ DOMAIN n = Fields /\ n.frontier = m.frontier /\ Fr(n) = Fr(m)
      /\ n.free = m.free /\ n.mem = m.mem
  BY <1>2 DEF Only, Fields, Fr
<1>4. DOMAIN n.pt[g].tab = {} /\ DOMAIN n.pt[g].pte = {}
  BY <1>2
<1>5. Loses(m, n, X, {})
  <2>1. ASSUME NEW k, NEW x, NEW y, NEW f, Takes(n, {}, k, x, y, f)
        PROVE  Takes(m, X, k, x, y, f)
    <3>1. CASE k = "table"
      <4>1. x \in DOMAIN n.pt /\ y \in DOMAIN n.pt[x].tab /\ n.pt[x].tab[y] = f
        BY <2>1, <3>1 DEF Takes
      <4>2. x # g
        BY <1>4, <4>1
      <4>3. <<x, y>> \notin X /\ n.pt[x] = m.pt[x] /\ x \in DOMAIN m.pt
        BY <1>2, <4>1, <4>2
      <4> QED
        BY <3>1, <4>1, <4>3 DEF Takes
    <3>2. CASE k # "table"
      BY <1>2, <1>3, <2>1, <3>2 DEF Takes
    <3> QED
      BY <3>1, <3>2
  <2> QED
    BY <1>3, <2>1 DEF Loses
<1>6. Sorted(n, {})
  BY <1>5, DropRule DEF Good
<1>7. Directory(n, g)
  BY <1>1, <1>2, <1>4, FS_EmptySet DEF Directory
<1>8. Shape(n)
  <2>1. \A h \in DOMAIN n.pt : Directory(n, h)
    BY <1>1, <1>2, <1>3, <1>7, ShapeParts DEF Good, Shape
  <2>2. \A d \in 1 .. MAX_PFN : Descriptor(n, d)
    BY <1>1, <1>3, ShapeParts DEF Good, Shape
  <2>3. \A i \in 1 .. MAX_SHARE_PAGE_NUM : Slot(n, i)
    BY <1>1, <1>3, ShapeParts DEF Good, Shape
  <2> QED
    BY <1>2, <1>3, <2>1, <2>2, <2>3 DEF Good, Shape
<1>9. Queued(n)
  BY <1>3 DEF Queued, Good
<1> QED
  BY <1>2, <1>6, <1>8, <1>9 DEF Good, n

\* What free_pagetable leaves.
Bare(m, n, g) ==
  /\ DOMAIN n = Fields /\ DOMAIN n.pt = DOMAIN m.pt /\ n.share = m.share
  /\ n.halted = m.halted /\ Fr(n) = Fr(m) /\ Gone(n, g)

LEMMA FreePagetableGood ==
  ASSUME NEW m, NEW g \in DOMAIN m.pt, Good(m, {}), Described(m), Live(m)
  PROVE  LET n == free_pagetable(m, g)
         IN  Stopped(n) \/ (Good(n, {}) /\ Described(n) /\ Bare(m, n, g))
<1> DEFINE r == FoldLeft(LAMBDA x, e : free_entry(g, x, e), m, Entries(m, g))
           n == Emptied(r, g)
<1>1. free_pagetable(m, g) = n
  BY DEF free_pagetable, Entries, Emptied
<1>2. \/ Stopped(r)
      \/ \E X : /\ Good(r, X) /\ Frees(m, r)
                /\ \A x, y : <<x, y>> \in X => x = g
                /\ \A e \in DOMAIN m.pt[g].tab : <<g, e>> \in X
                /\ \A u \in DOMAIN m.pt[g].pte : Undescribed(r, g, u)
  BY FreeAll
<1> HIDE DEF r
<1>3. CASE Stopped(r)
  <2>1. DOMAIN n = Fields /\ n.halted = r.halted
    <3>1. DOMAIN r = Fields
      BY <1>3, Zenon DEF Stopped
    <3> QED
      BY <3>1 DEF Emptied, Fields
  <2> HIDE DEF n
  <2>2. Stopped(n)
    BY <1>3, <2>1, Zenon DEF Stopped
  <2> QED
    BY <1>1, <2>2
<1>4. CASE ~ Stopped(r)
  <2>1. PICK X : /\ Good(r, X) /\ Frees(m, r)
                 /\ \A x, y : <<x, y>> \in X => x = g
                 /\ \A u \in DOMAIN m.pt[g].pte : Undescribed(r, g, u)
    BY <1>2, <1>4
  <2>2. g \in DOMAIN r.pt
    BY <2>1 DEF Frees
  <2> HIDE DEF n
  <2>3. /\ Good(n, {}) /\ Only(r, n, {"pt"}) /\ DOMAIN n.pt = DOMAIN r.pt
        /\ \A h \in DOMAIN r.pt \ {g} : n.pt[h] = r.pt[h]
    BY <2>1, <2>2, EmptiedGood DEF n
  <2>4. /\ DOMAIN n = Fields /\ n.pages = r.pages /\ n.share = r.share
        /\ n.halted = r.halted /\ Fr(n) = Fr(r)
    BY <2>3 DEF Only, Fields, Fr
  <2>5. ASSUME NEW d \in 1 .. MAX_PFN, n.pages[d].used
        PROVE  /\ m.pages[d].used /\ n.pages[d].uva = m.pages[d].uva
               /\ n.pages[d].pgdir = m.pages[d].pgdir
    BY <2>1, <2>4, <2>5 DEF Frees
  <2>6. Gone(n, g)
    <3> SUFFICES ASSUME NEW d \in 1 .. MAX_PFN, n.pages[d].used, n.pages[d].pgdir = g,
                        ~ InWindow(n.pages[d].uva)
                 PROVE  FALSE
      BY DEF Gone
    <3>1. Mapped(m, n.pages[d].uva, g)
      BY <2>5 DEF Described
    <3>2. Undescribed(r, g, n.pages[d].uva)
      BY <2>1, <3>1 DEF Mapped
    <3> QED
      BY <2>4, <3>2 DEF Undescribed
  <2>7. ASSUME NEW d \in 1 .. MAX_PFN, n.pages[d].used
        PROVE  InWindow(n.pages[d].uva) \/ Mapped(n, n.pages[d].uva, n.pages[d].pgdir)
    <3>1. CASE n.pages[d].pgdir = g
      BY <2>6, <2>7, <3>1 DEF Gone
    <3>2. CASE n.pages[d].pgdir # g
      <4>1. \/ InWindow(n.pages[d].uva)
            \/ Mapped(m, n.pages[d].uva, n.pages[d].pgdir)
        BY <2>5, <2>7 DEF Described
      <4>2. r.pt = m.pt
        BY <2>1 DEF Frees
      <4> QED
        BY <2>3, <3>2, <4>1, <4>2 DEF Mapped
    <3> QED
      BY <3>1, <3>2
  <2>8. Described(n)
    BY <2>5, <2>7 DEF Described
  <2>9. Bare(m, n, g)
    BY <2>1, <2>3, <2>4, <2>6 DEF Bare, Frees
  <2> QED
    BY <1>1, <2>3, <2>8, <2>9
<1> QED
  BY <1>3, <1>4

Undirected(m, g) == [m EXCEPT !.pt = [h \in DOMAIN @ \ {g} |-> @[h]]]

LEMMA FreePgdirGood ==
  ASSUME NEW m, NEW g \in DOMAIN m.pt, Good(m, {}), Described(m), Gone(m, g)
  PROVE  LET n == free_pgdir(m, g)
         IN  /\ Good(n, {}) /\ Described(n)
             /\ n.share = m.share /\ n.halted = m.halted /\ Fr(n) = Fr(m)
<1> DEFINE n == Undirected(m, g)
           r == kfree(n, g)
<1>1. /\ DOMAIN m = Fields /\ m.frontier \in Nat \ {0} /\ g \in Fr(m)
  BY DEF Good, Shape
<1>2. free_pgdir(m, g) = r
  BY DEF free_pgdir, Undirected
<1>3. /\ Only(m, n, {"pt"}) /\ DOMAIN n.pt = DOMAIN m.pt \ {g}
      /\ \A h \in DOMAIN m.pt \ {g} : n.pt[h] = m.pt[h]
  BY <1>1 DEF Undirected, Only, Fields
<1> HIDE DEF n
<1>4. /\ n.kstacks = m.kstacks /\ n.pages = m.pages /\ n.present = m.present
      /\ n.swapped = m.swapped /\ n.present_pages_num = m.present_pages_num
      /\ n.share = m.share /\ DOMAIN n = Fields /\ n.frontier = m.frontier /\ Fr(n) = Fr(m)
      /\ n.free = m.free /\ n.mem = m.mem /\ n.halted = m.halted
  BY <1>3 DEF Only, Fields, Fr
<1>5. Loses(m, n, {}, {})
  BY <1>3, <1>4 DEF Loses, Takes
<1>6. Takes(m, {}, "pgdir", 0, 0, g) /\ ~ Takes(n, {}, "pgdir", 0, 0, g)
  BY <1>3 DEF Takes
<1>7. Sorted(n, {}) /\ Loose(n, {}, g)
  BY <1>5, <1>6, DropRule DEF Good
<1>8. Shape(n)
  <2>1. \A h \in DOMAIN n.pt : Directory(n, h)
    BY <1>1, <1>3, <1>4, ShapeParts DEF Good, Shape
  <2>2. \A d \in 1 .. MAX_PFN : Descriptor(n, d)
    BY <1>1, <1>4, ShapeParts DEF Good, Shape
  <2>3. \A i \in 1 .. MAX_SHARE_PAGE_NUM : Slot(n, i)
    BY <1>1, <1>4, ShapeParts DEF Good, Shape
  <2> QED
    BY <1>3, <1>4, <2>1, <2>2, <2>3 DEF Good, Shape
<1>9. Good(n, {})
  BY <1>4, <1>7, <1>8 DEF Queued, Good
<1> HIDE DEF r
<1>10. Good(r, {})
  BY <1>7, <1>9, KfreeGood DEF r
<1>11. g # 0
  BY <1>1 DEF Fr
<1>12. Only(n, r, {"free", "mem"})
  BY <1>4, <1>11, KfreeEffect DEF r
<1>13. r.pt = n.pt /\ r.pages = m.pages /\ r.share = m.share /\ r.halted = m.halted /\ Fr(r) = Fr(m)
  BY <1>4, <1>12 DEF Only, Fields, Fr
<1>14. Described(r)
  BY <1>3, <1>13 DEF Described, Gone, Mapped
<1> QED
  BY <1>2, <1>10, <1>13, <1>14

-----------------------------------------------------------------------------
(* A new process *)

AddDirectory(m, g, t) == [m EXCEPT !.pt = Put(@, g, [tab |-> <<>>, pte |-> <<>>, task |-> t])]

LEMMA AddDirectoryGood ==
  ASSUME NEW m, NEW g, NEW t, Good(m, {}), Loose(m, {}, g)
  PROVE  LET n == AddDirectory(m, g, t)
         IN  /\ Good(n, {}) /\ Only(m, n, {"pt"}) /\ DOMAIN n.pt = DOMAIN m.pt \cup {g}
             /\ g \notin DOMAIN m.pt /\ DOMAIN n.pt[g].pte = {}
             /\ \A h \in DOMAIN m.pt : n.pt[h] = m.pt[h]
<1> DEFINE n == AddDirectory(m, g, t)
<1>1. /\ DOMAIN m = Fields /\ m.frontier \in Nat \ {0} /\ g \in Fr(m)
  BY DEF Good, Shape, Loose
<1>2. g \notin DOMAIN m.pt
  BY DEF Loose, Takes
<1>3. /\ Only(m, n, {"pt"}) /\ DOMAIN n.pt = DOMAIN m.pt \cup {g}
      /\ \A h \in DOMAIN m.pt : n.pt[h] = m.pt[h]
      /\ n.pt[g] = [tab |-> <<>>, pte |-> <<>>, task |-> t]
  BY <1>1, <1>2 DEF AddDirectory, Only, Fields, Put, PutAll
<1> HIDE DEF n
<1>4. /\ n.kstacks = m.kstacks /\ n.pages = m.pages /\ n.present = m.present
      /\ n.swapped = m.swapped /\ n.present_pages_num = m.present_pages_num
      /\ n.share = m.share /\ DOMAIN n = Fields /\ n.frontier = m.frontier /\ Fr(n) = Fr(m)
      /\ n.free = m.free /\ n.mem = m.mem
  BY <1>3 DEF Only, Fields, Fr
<1>5. /\ DOMAIN n.pt[g] = {"tab", "pte", "task"}
      /\ DOMAIN n.pt[g].tab = {} /\ DOMAIN n.pt[g].pte = {}
  BY <1>3
<1>6. Gains(m, n, {}, "pgdir", 0, 0, g)
  <2>1. ASSUME NEW k, NEW x, NEW y, NEW f, Takes(n, {}, k, x, y, f)
        PROVE  Takes(m, {}, k, x, y, f) \/ (k = "pgdir" /\ x = 0 /\ y = 0 /\ f = g)
    <3>1. CASE k = "table"
      <4>1. x \in DOMAIN n.pt /\ y \in DOMAIN n.pt[x].tab /\ n.pt[x].tab[y] = f
        BY <2>1, <3>1 DEF Takes
      <4>2. x # g
        BY <1>5, <4>1
      <4>3. x \in DOMAIN m.pt /\ n.pt[x] = m.pt[x]
        BY <1>3, <4>1, <4>2
      <4> QED
        BY <3>1, <4>1, <4>3 DEF Takes
    <3>2. CASE k # "table"
      BY <1>3, <1>4, <2>1, <3>2 DEF Takes
    <3> QED
      BY <3>1, <3>2
  <2> QED
    BY <1>4, <2>1 DEF Gains
<1>7. Sorted(n, {})
  BY <1>6, TakeRule DEF Good
<1>8. Directory(n, g)
  BY <1>5, FS_EmptySet DEF Directory
<1>9. Shape(n)
  <2>1. \A h \in DOMAIN n.pt : Directory(n, h)
    BY <1>1, <1>3, <1>4, <1>8, ShapeParts DEF Good, Shape
  <2>2. \A d \in 1 .. MAX_PFN : Descriptor(n, d)
    BY <1>1, <1>4, ShapeParts DEF Good, Shape
  <2>3. \A i \in 1 .. MAX_SHARE_PAGE_NUM : Slot(n, i)
    BY <1>1, <1>4, ShapeParts DEF Good, Shape
  <2> QED
    BY <1>1, <1>3, <1>4, <2>1, <2>2, <2>3 DEF Good, Shape
<1> QED
  BY <1>2, <1>3, <1>4, <1>5, <1>7, <1>9 DEF Queued, Good, n

AddStack(m, f) == [m EXCEPT !.kstacks = @ \cup {f}]

LEMMA AddStackGood ==
  ASSUME NEW m, NEW f, Good(m, {}), Loose(m, {}, f)
  PROVE  Good(AddStack(m, f), {}) /\ Only(m, AddStack(m, f), {"kstacks"})
<1> DEFINE n == AddStack(m, f)
<1>1. /\ DOMAIN m = Fields /\ m.frontier \in Nat \ {0} /\ f \in Fr(m)
  BY DEF Good, Shape, Loose
<1>2. Only(m, n, {"kstacks"}) /\ n.kstacks = m.kstacks \cup {f}
  BY <1>1 DEF AddStack, Only, Fields
<1> HIDE DEF n
<1>3. /\ n.pt = m.pt /\ n.pages = m.pages /\ n.present = m.present
      /\ n.swapped = m.swapped /\ n.present_pages_num = m.present_pages_num
      /\ n.share = m.share /\ DOMAIN n = Fields /\ n.frontier = m.frontier /\ Fr(n) = Fr(m)
      /\ n.free = m.free /\ n.mem = m.mem
  BY <1>2 DEF Only, Fields, Fr
<1>4. Gains(m, n, {}, "stack", 0, 0, f)
  BY <1>2, <1>3 DEF Gains, Takes
<1>5. Sorted(n, {})
  BY <1>4, TakeRule DEF Good
<1>6. Shape(n)
  <2>1. \A h \in DOMAIN n.pt : Directory(n, h)
    BY <1>1, <1>3, ShapeParts DEF Good, Shape
  <2>2. \A d \in 1 .. MAX_PFN : Descriptor(n, d)
    BY <1>1, <1>3, ShapeParts DEF Good, Shape
  <2>3. \A i \in 1 .. MAX_SHARE_PAGE_NUM : Slot(n, i)
    BY <1>1, <1>3, ShapeParts DEF Good, Shape
  <2> QED
    BY <1>1, <1>2, <1>3, <2>1, <2>2, <2>3 DEF Good, Shape
<1> QED
  BY <1>2, <1>3, <1>5, <1>6 DEF Queued, Good, n

\* After the first i pages of the program; k is <<directory, bytes, m>>.
LoadStep(k, n, e) == load_page(k[1], k[2], n, e)
LoadHolds(k, i, n) ==
  \/ Stopped(n)
  \/ /\ Good(n, {}) /\ Described(n) /\ Live(n) /\ n.share = k[3].share
     /\ Fr(k[3]) \subseteq Fr(n) /\ DOMAIN n.pt = DOMAIN k[3].pt
     /\ DOMAIN n.pt[k[1]].pte = {Code(j) : j \in 0 .. (i - 1)}

Loaded(m, g, bytes, c) ==
  FoldLeft(LAMBDA x, e : load_page(g, bytes, x, e), m, [i \in 1 .. c |-> i - 1])

LoadFold == INSTANCE FoldTheorems WITH Op <- LoadStep, Holds <- LoadHolds

LEMMA LoadGood ==
  ASSUME NEW m, NEW g \in DOMAIN m.pt, NEW bytes, NEW c \in Nat,
         Good(m, {}), Described(m), Live(m), DOMAIN m.pt[g].pte = {}
  PROVE  LET n == Loaded(m, g, bytes, c)
         IN  \/ Stopped(n)
             \/ /\ Good(n, {}) /\ Described(n) /\ Live(n) /\ n.share = m.share
                /\ Fr(m) \subseteq Fr(n) /\ DOMAIN n.pt = DOMAIN m.pt
                /\ \A u \in DOMAIN n.pt[g].pte : \E j \in Nat : u = Code(j)
<1> DEFINE k == <<g, bytes, m>>
           s == [i \in 1 .. c |-> i - 1]
           r == LoadFold!Folded(k, m, s)
<1>1. k[1] = g /\ k[2] = bytes /\ k[3] = m
  OBVIOUS
<1>2. Loaded(m, g, bytes, c) = r
  BY <1>1 DEF Loaded, LoadFold!Folded, LoadFold!FoldLeft, LoadFold!MapThenFoldSet,
     FoldLeft, MapThenFoldSet, LoadStep, Max, LoadFold!Max
<1>3. DOMAIN s = 1 .. c /\ \A i \in 1 .. c : s[i] = i - 1
  OBVIOUS
<1> HIDE DEF s, k, r
<1>4. LoadHolds(k, 0, m)
  <2>1. {Code(j) : j \in 0 .. (0 - 1)} = {}
    OBVIOUS
  <2> QED
    BY <1>1, <2>1 DEF LoadHolds
<1>5. ASSUME NEW i \in 1 .. c, NEW x, LoadHolds(k, i - 1, x)
      PROVE  LoadHolds(k, i, LoadStep(k, x, s[i]))
  <2> DEFINE y == load_page(g, bytes, x, i - 1)
             u == Code(i - 1)
  <2>1. LoadStep(k, x, s[i]) = y
    BY <1>1, <1>3 DEF LoadStep
  <2>2. CASE Stopped(x)
    <3>1. y = x
      BY <2>2, Zenon DEF load_page, Stopped
    <3> QED
      BY <2>1, <2>2, <3>1 DEF LoadHolds
  <2>3. CASE ~ Stopped(x)
    <3>1. /\ Good(x, {}) /\ Described(x) /\ Live(x) /\ x.share = m.share
          /\ Fr(m) \subseteq Fr(x) /\ DOMAIN x.pt = DOMAIN m.pt
          /\ DOMAIN x.pt[g].pte = {Code(j) : j \in 0 .. ((i - 1) - 1)}
      BY <1>1, <1>5, <2>3 DEF LoadHolds
    <3>2. y = alloc_page_helper(x, u, g, <<g, u, bytes[i - 1]>>)
      BY <3>1, Zenon DEF load_page, Live
    <3>3. u \in Uva
      BY DEF Code, Uva
    <3>4. ~ Mapped(x, u, g)
      <4> SUFFICES ASSUME NEW j \in 0 .. ((i - 1) - 1), u = Code(j)
                   PROVE  FALSE
        BY <3>1 DEF Mapped
      <4>1. j = i - 1
        BY DEF Code
      <4> QED
        BY <4>1
    <3> HIDE DEF y
    <3>5. Stopped(y) \/ (Good(y, {}) /\ Gets(x, y, g, u))
      <4>1. g \in DOMAIN x.pt
        BY <3>1
      <4> HIDE DEF u
      <4> QED
        BY <3>1, <3>2, <3>3, <4>1, AllocGood
    <3>6. CASE Stopped(y)
      BY <2>1, <3>6 DEF LoadHolds, y
    <3>7. CASE ~ Stopped(y)
      <4>1. Good(y, {}) /\ Gets(x, y, g, u)
        BY <3>5, <3>7
      <4>2. Described(y)
        <5>1. g \in DOMAIN x.pt
          BY <3>1
        <5> HIDE DEF u
        <5> QED
          BY <3>1, <3>4, <4>1, <5>1, GetsDescribed
      <4>3. /\ y.share = m.share /\ y.halted = x.halted /\ Fr(m) \subseteq Fr(y)
            /\ DOMAIN y.pt = DOMAIN m.pt /\ DOMAIN y.pt[g].pte = DOMAIN x.pt[g].pte \cup {u}
        BY <3>1, <4>1 DEF Gets, Visits, Adds
      <4>4. Live(y)
        BY <3>1, <4>3, Zenon DEF Live
      <4>5. DOMAIN y.pt[g].pte = {Code(j) : j \in 0 .. (i - 1)}
        <5>1. 0 .. (i - 1) = (0 .. ((i - 1) - 1)) \cup {i - 1}
          OBVIOUS
        <5> QED
          BY <3>1, <4>3, <5>1
      <4> QED
        BY <1>1, <2>1, <4>1, <4>2, <4>3, <4>4, <4>5 DEF LoadHolds
    <3> QED
      BY <3>6, <3>7
  <2> QED
    BY <2>2, <2>3
<1>6. LoadHolds(k, c, r)
  BY <1>3, <1>4, <1>5, LoadFold!FoldRule DEF r
<1>7. CASE ~ Stopped(r)
  <2>1. /\ Good(r, {}) /\ Described(r) /\ Live(r) /\ r.share = m.share
        /\ Fr(m) \subseteq Fr(r) /\ DOMAIN r.pt = DOMAIN m.pt
        /\ DOMAIN r.pt[g].pte = {Code(j) : j \in 0 .. (c - 1)}
    BY <1>1, <1>6, <1>7 DEF LoadHolds
  <2>2. \A u \in DOMAIN r.pt[g].pte : \E j \in Nat : u = Code(j)
    BY <2>1
  <2> QED
    BY <1>2, <2>1, <2>2 DEF s
<1> QED
  BY <1>2, <1>7 DEF s

-----------------------------------------------------------------------------
(* The calls *)

\* A slot of share_pages is free, or has a key, a page and users.
Slots(m) ==
  \A i \in 1 .. MAX_SHARE_PAGE_NUM :
    /\ m.share[i].kva \in Fr(m) \cup {0}
    /\ m.share[i].key = 0 <=> m.share[i].kva = 0
    /\ m.share[i].kva # 0 => m.share[i].ref # 0

Sane(m) == Good(m, {}) /\ Described(m) /\ Slots(m)

LEMMA SlotsKept ==
  ASSUME NEW m, NEW n, Slots(m), n.share = m.share, Fr(m) \subseteq Fr(n)
  PROVE  Slots(n)
BY DEF Slots

LEMMA KeepsSane ==
  ASSUME NEW m, NEW n, Sane(m), Good(n, {}), Keeps(m, n)
  PROVE  Sane(n)
<1>1. Described(n)
  BY KeepsDescribed DEF Sane
<1>2. Slots(n)
  BY SlotsKept DEF Sane, Keeps
<1> QED
  BY <1>1, <1>2 DEF Sane

LEMMA HaltSane ==
  ASSUME NEW m, NEW why, Sane(m)
  PROVE  Sane(halt(m, why))
<1> DEFINE n == halt(m, why)
<1>1. /\ DOMAIN m = Fields /\ m.frontier \in Nat \ {0}
  BY DEF Sane, Good, Shape
<1>2. Only(m, n, {"halted"})
  BY <1>1 DEF halt, Only, Fields
<1> HIDE DEF n
<1>3. /\ n.kstacks = m.kstacks /\ n.pages = m.pages /\ n.present = m.present
      /\ n.swapped = m.swapped /\ n.present_pages_num = m.present_pages_num
      /\ n.share = m.share /\ DOMAIN n = Fields /\ n.frontier = m.frontier /\ Fr(n) = Fr(m)
      /\ n.free = m.free /\ n.mem = m.mem /\ n.pt = m.pt
  BY <1>2 DEF Only, Fields, Fr
<1>4. Loses(m, n, {}, {})
  BY <1>3 DEF Loses, Takes
<1>5. Sorted(n, {})
  BY <1>4, DropRule DEF Sane, Good
<1>6. Shape(n)
  <2>1. \A h \in DOMAIN n.pt : Directory(n, h)
    BY <1>1, <1>3, ShapeParts DEF Sane, Good, Shape
  <2>2. \A d \in 1 .. MAX_PFN : Descriptor(n, d)
    BY <1>1, <1>3, ShapeParts DEF Sane, Good, Shape
  <2>3. \A i \in 1 .. MAX_SHARE_PAGE_NUM : Slot(n, i)
    BY <1>1, <1>3, ShapeParts DEF Sane, Good, Shape
  <2> QED
    BY <1>1, <1>3, <2>1, <2>2, <2>3 DEF Sane, Good, Shape
<1>7. Queued(n)
  BY <1>3 DEF Queued, Sane, Good
<1>8. Described(n) /\ Slots(n)
  BY <1>3 DEF Described, Mapped, Slots, Sane
<1> QED
  BY <1>5, <1>6, <1>7, <1>8 DEF Sane, Good, n

LEMMA CommitSane ==
  ASSUME NEW m, Commit(m), Sane(mm), Stopped(m) \/ Sane(m)
  PROVE  Sane(mm') /\ files' = files
<1>1. /\ files' = files
      /\ mm' = halt(mm, m.halted) \/ (mm' = m /\ ~ Stopped(m))
  BY Zenon DEF Commit, Stopped
<1> QED
  BY <1>1, HaltSane

LEMMA AllocSane ==
  ASSUME NEW m, NEW g, NEW uva \in Uva, NEW data, Sane(m), g \in DOMAIN m.pt,
         InWindow(uva) \/ ~ Mapped(m, uva, g)
  PROVE  LET n == alloc_page_helper(m, uva, g, data)
         IN  Stopped(n) \/ Sane(n)
<1> DEFINE n == alloc_page_helper(m, uva, g, data)
<1>1. Good(m, {}) /\ Described(m) /\ Slots(m)
  BY DEF Sane
<1>2. Stopped(n) \/ (Good(n, {}) /\ Gets(m, n, g, uva))
  BY <1>1, AllocGood
<1> HIDE DEF n
<1>3. CASE ~ Stopped(n)
  <2>1. Described(n)
    BY <1>1, <1>2, <1>3, GetsDescribed
  <2>2. Slots(n)
    BY <1>1, <1>2, <1>3, SlotsKept DEF Gets, Visits
  <2> QED
    BY <1>2, <1>3, <2>1, <2>2 DEF Sane, n
<1> QED
  BY <1>3 DEF n

LEMMA KallocSane ==
  ASSUME NEW m, Sane(m)
  PROVE  /\ Sane(kalloc(m)) /\ Loose(kalloc(m), {}, NextFrame(m))
         /\ Only(m, kalloc(m), {"frontier", "free", "mem"})
<1> DEFINE n == kalloc(m)
<1>1. Good(m, {}) /\ DOMAIN m = Fields /\ m.frontier \in Nat \ {0}
  BY DEF Sane, Good, Shape
<1>2. /\ Only(m, n, {"frontier", "free", "mem"})
      /\ n.frontier = m.frontier \/ n.frontier = m.frontier + 1
  BY <1>1, KallocEffect
<1>3. Good(n, {}) /\ Loose(n, {}, NextFrame(m))
  BY <1>1, KallocGood
<1> HIDE DEF n
<1>4. Fr(m) \subseteq Fr(n)
  BY <1>1, <1>2, ShapeParts
<1>5. Keeps(m, n)
  BY <1>1, <1>2, <1>4 DEF Keeps, Only, Fields, SamePages
<1> QED
  BY <1>2, <1>3, <1>5, KeepsSane DEF n

LEMMA PagesFinite ==
  ASSUME NEW file \in Images, NEW t \in DOMAIN taskinfo(file)
  PROVE  Cardinality(PagesOfTask(file, t)) \in Nat
<1> DEFINE M == taskinfo(file)[t].memsz
           S == PagesOf(taskinfo(file)[t])
           T == PagesOfTask(file, t)
           h == [sz \in S |-> sz \div PAGE_SIZE]
<1>1. M \in Nat
  BY MemoryAssumption
<1>2. S \subseteq 0 .. (M - 1)
  BY DEF PagesOf
<1>3. IsFiniteSet(0 .. (M - 1))
  BY <1>1, FS_Interval
<1>4. T = {sz \div PAGE_SIZE : sz \in S}
  BY DEF PagesOfTask
<1> HIDE DEF M, S, T
<1>5. IsFiniteSet(S)
  BY <1>2, <1>3, FS_Subset
<1>6. h \in Surjection(S, T)
  <2> DEFINE q(sz) == sz \div PAGE_SIZE
  <2>1. T = {q(sz) : sz \in S} /\ h = [sz \in S |-> q(sz)]
    BY <1>4
  <2> HIDE DEF q, h
  <2> QED
    BY <2>1 DEF Surjection
<1> HIDE DEF h
<1>7. IsFiniteSet(T)
  BY <1>5, <1>6, FS_Surjection
<1> QED
  BY <1>7, FS_CardinalityType DEF T

\* do_exec, from the page directory on.
LEMMA ExecSane ==
  ASSUME NEW m, NEW t, NEW bytes, NEW c \in Nat, Sane(m), Live(m)
  PROVE  LET g == NextFrame(m)
             m0 == AddDirectory(kalloc(m), g, t)
             m1 == Loaded(m0, g, bytes, c)
             m2 == AddStack(kalloc(m1), NextFrame(m1))
         IN  \/ Stopped(m1)
             \/ /\ Live(m1)
                /\ \A data : LET n == alloc_page_helper(m2, Stack, g, data)
                             IN  Stopped(n) \/ Sane(n)
<1> DEFINE g == NextFrame(m)
           a == kalloc(m)
           m0 == AddDirectory(a, g, t)
           m1 == Loaded(m0, g, bytes, c)
           b == kalloc(m1)
           m2 == AddStack(b, NextFrame(m1))
<1>1. Sane(a) /\ Loose(a, {}, g) /\ Only(m, a, {"frontier", "free", "mem"})
  BY KallocSane
<1> HIDE DEF g, a
<1>2. /\ Good(m0, {}) /\ Only(a, m0, {"pt"}) /\ DOMAIN m0.pt = DOMAIN a.pt \cup {g}
      /\ g \notin DOMAIN a.pt /\ DOMAIN m0.pt[g].pte = {}
      /\ \A h \in DOMAIN a.pt : m0.pt[h] = a.pt[h]
  BY <1>1, AddDirectoryGood DEF Sane
<1> HIDE DEF m0
<1>3. m0.pages = a.pages /\ m0.share = a.share /\ m0.halted = m.halted /\ Fr(m0) = Fr(a)
  BY <1>1, <1>2 DEF Only, Fields, Fr
<1>4. Described(m0)
  BY <1>1, <1>2, <1>3 DEF Sane, Described, Mapped
<1>5. Slots(m0)
  BY <1>1, <1>3, SlotsKept DEF Sane
<1>6. g \in DOMAIN m0.pt
  BY <1>2
<1>7. Live(m0)
  BY <1>3, Zenon DEF Live
<1>8. \/ Stopped(m1)
      \/ /\ Good(m1, {}) /\ Described(m1) /\ Live(m1) /\ m1.share = m0.share
         /\ Fr(m0) \subseteq Fr(m1) /\ DOMAIN m1.pt = DOMAIN m0.pt
         /\ \A u \in DOMAIN m1.pt[g].pte : \E j \in Nat : u = Code(j)
  BY <1>2, <1>4, <1>6, <1>7, LoadGood
<1> HIDE DEF m1
<1>9. CASE ~ Stopped(m1)
  <2>1. Sane(m1)
    BY <1>5, <1>8, <1>9, SlotsKept DEF Sane
  <2>2. /\ Sane(b) /\ Loose(b, {}, NextFrame(m1)) /\ Only(m1, b, {"frontier", "free", "mem"})
    BY <2>1, KallocSane
  <2> HIDE DEF b
  <2>3. Good(m2, {}) /\ Only(b, m2, {"kstacks"})
    BY <2>2, AddStackGood DEF Sane
  <2> HIDE DEF m2
  <2>4. /\ DOMAIN m2 = Fields /\ m2.pt = m1.pt /\ m2.pt = b.pt /\ m2.share = b.share
        /\ m2.pages = b.pages /\ m2.halted = b.halted /\ Fr(m2) = Fr(b)
    BY <2>2, <2>3 DEF Only, Fields, Fr
  <2>5. Keeps(b, m2)
    BY <2>4 DEF Keeps, SamePages
  <2>6. Sane(m2)
    BY <2>2, <2>3, <2>5, KeepsSane
  <2>7. g \in DOMAIN m2.pt
    BY <1>6, <1>8, <1>9, <2>4
  <2>8. ~ Mapped(m2, Stack, g)
    <3>1. \A j \in Nat : Stack # Code(j)
      BY DEF Stack, Code
    <3> QED
      BY <1>8, <1>9, <2>4, <3>1 DEF Mapped
  <2>9. Stack \in Uva
    BY DEF Stack, Uva
  <2> HIDE DEF b
  <2>10. ASSUME NEW data
         PROVE  LET n == alloc_page_helper(m2, Stack, g, data) IN Stopped(n) \/ Sane(n)
    BY <2>6, <2>7, <2>8, <2>9, AllocSane
  <2> QED
    BY <1>8, <1>9, <2>10 DEF m2, b, m1, m0, a, g
<1> QED
  BY <1>9 DEF m1, m0, a, g

LEMMA DoExecSane ==
  ASSUME NEW t \in DOMAIN taskinfo(files), files \in Images, Sane(mm), do_exec(t)
  PROVE  Sane(mm') /\ files' = files
<1> DEFINE g == NextFrame(mm)
           bytes == LoadedPages[files][t]
           m0 == AddDirectory(kalloc(mm), g, t)
           c == Cardinality(DOMAIN bytes)
           m1 == Loaded(m0, g, bytes, c)
           m2 == AddStack(kalloc(m1), NextFrame(m1))
           n == alloc_page_helper(m2, Stack, g, <<g, Stack, Zero>>)
<1>1. DOMAIN bytes = PagesOfTask(files, t)
  BY DEF LoadedPages, PageBytes
<1>2. c \in Nat
  BY <1>1, PagesFinite
<1>3. /\ Commit(IF m1.halted # "" THEN m1 ELSE n)
      /\ Live(mm)
  <2>1. Commit(IF m1.halted # "" THEN m1 ELSE n)
    BY DEF do_exec, AddDirectory, AddStack, Loaded
  <2> QED
    BY <2>1, Zenon DEF Commit, Live
<1> HIDE DEF bytes, c
<1>4. Stopped(m1) \/ (Live(m1) /\ (Stopped(n) \/ Sane(n)))
  BY <1>2, <1>3, ExecSane
<1> HIDE DEF m1, n
<1>5. \/ Commit(n) /\ (Stopped(n) \/ Sane(n))
      \/ Commit(m1) /\ Stopped(m1)
  BY <1>3, <1>4, Zenon DEF Stopped, Live
<1> QED
  BY <1>5, CommitSane

LEMMA ScheduleSane ==
  ASSUME NEW g \in DOMAIN mm.pt, Sane(mm), Schedule(g)
  PROVE  Sane(mm') /\ files' = files
<1> DEFINE n == swap_in_all_pages(mm, g)
<1>1. Good(n, {}) /\ Keeps(mm, n)
  BY SwapInAllGood DEF Sane
<1>2. Commit(n)
  BY DEF Schedule
<1> HIDE DEF n
<1>3. Sane(n)
  BY <1>1, KeepsSane
<1> QED
  BY <1>2, <1>3, CommitSane

\* A process goes: its pages, what is done in between, its directory.
LEMMA GoneSane ==
  ASSUME NEW m, NEW g \in DOMAIN m.pt, Sane(m), Gone(m, g)
  PROVE  Sane(free_pgdir(m, g))
<1> DEFINE n == free_pgdir(m, g)
<1>1. Good(m, {}) /\ Described(m) /\ Slots(m)
  BY DEF Sane
<1>2. Good(n, {}) /\ Described(n) /\ n.share = m.share /\ Fr(n) = Fr(m)
  BY <1>1, FreePgdirGood
<1> HIDE DEF n
<1>3. Slots(n)
  BY <1>1, <1>2, SlotsKept
<1> QED
  BY <1>2, <1>3 DEF Sane, n

LEMMA BareSane ==
  ASSUME NEW m, NEW g \in DOMAIN m.pt, Sane(m), Live(m)
  PROVE  LET n == free_pagetable(m, g)
         IN  Stopped(n) \/ (Sane(n) /\ Gone(n, g) /\ DOMAIN n.pt = DOMAIN m.pt /\ Live(n))
<1> DEFINE n == free_pagetable(m, g)
<1>1. Good(m, {}) /\ Described(m) /\ Slots(m)
  BY DEF Sane
<1>2. Stopped(n) \/ (Good(n, {}) /\ Described(n) /\ Bare(m, n, g))
  BY <1>1, FreePagetableGood
<1> HIDE DEF n
<1>3. CASE ~ Stopped(n)
  <2>1. Slots(n)
    BY <1>1, <1>2, <1>3, SlotsKept DEF Bare
  <2>2. n.halted = m.halted
    BY <1>2, <1>3 DEF Bare
  <2>3. Live(n)
    BY <2>2, Zenon DEF Live
  <2> QED
    BY <1>2, <1>3, <2>1, <2>3 DEF Sane, Bare, n
<1> QED
  BY <1>3 DEF n

LEMMA ExitSane ==
  ASSUME NEW g \in DOMAIN mm.pt, NEW q \in DOMAIN mm.pt \cup {0}, Sane(mm), do_exit(g, q)
  PROVE  Sane(mm') /\ files' = files
<1> DEFINE a == free_pagetable(mm, g)
           b == swap_in_all_pages(a, q)
           n == free_pgdir(b, g)
<1>1. Live(mm) /\ Commit(IF a.halted # "" THEN a ELSE n)
  <2>1. Commit(IF a.halted # "" THEN a ELSE n)
    BY Zenon DEF do_exit
  <2> QED
    BY <2>1, Zenon DEF Commit, Live
<1>2. Stopped(a) \/ (Sane(a) /\ Gone(a, g) /\ DOMAIN a.pt = DOMAIN mm.pt /\ Live(a))
  BY <1>1, BareSane
<1> HIDE DEF a
<1>3. CASE Stopped(a)
  <2>1. Commit(a)
    BY <1>1, <1>3, Zenon DEF Stopped
  <2> QED
    BY <1>3, <2>1, CommitSane
<1>4. CASE ~ Stopped(a)
  <2>1. Commit(n)
    BY <1>1, <1>2, <1>4, Zenon DEF Live
  <2>2. Good(b, {}) /\ Keeps(a, b)
    <3>1. Good(a, {}) /\ q \in DOMAIN a.pt \cup {0}
      BY <1>2, <1>4 DEF Sane
    <3> QED
      BY <3>1, SwapInAllGood
  <2> HIDE DEF b
  <2>3. Sane(b) /\ Gone(b, g) /\ g \in DOMAIN b.pt
    <3>1. Described(a) /\ DOMAIN b.pt = DOMAIN mm.pt
      BY <1>2, <1>4, <2>2 DEF Sane, Keeps
    <3> QED
      BY <1>2, <1>4, <2>2, <3>1, KeepsSane, KeepsDescribed
  <2>4. Sane(n)
    BY <2>3, GoneSane
  <2> HIDE DEF n
  <2> QED
    BY <2>1, <2>4, CommitSane
<1> QED
  BY <1>3, <1>4

LEMMA KillSane ==
  ASSUME NEW g \in DOMAIN mm.pt, Sane(mm), do_kill(g)
  PROVE  Sane(mm') /\ files' = files
<1> DEFINE a == free_pagetable(mm, g)
           n == free_pgdir(a, g)
<1>1. Live(mm) /\ Commit(IF a.halted # "" THEN a ELSE n)
  <2>1. Commit(IF a.halted # "" THEN a ELSE n)
    BY Zenon DEF do_kill
  <2> QED
    BY <2>1, Zenon DEF Commit, Live
<1>2. Stopped(a) \/ (Sane(a) /\ Gone(a, g) /\ DOMAIN a.pt = DOMAIN mm.pt /\ Live(a))
  BY <1>1, BareSane
<1> HIDE DEF a
<1>3. CASE Stopped(a)
  <2>1. Commit(a)
    BY <1>1, <1>3, Zenon DEF Stopped
  <2> QED
    BY <1>3, <2>1, CommitSane
<1>4. CASE ~ Stopped(a)
  <2>1. Commit(n)
    BY <1>1, <1>2, <1>4, Zenon DEF Live
  <2>2. Sane(n)
    BY <1>2, <1>4, GoneSane
  <2> HIDE DEF n
  <2> QED
    BY <2>1, <2>2, CommitSane
<1> QED
  BY <1>3, <1>4

\* A page that is swapped out comes back, perhaps in the place of another one.
LEMMA BackSane ==
  ASSUME NEW d \in Range(mm.swapped), Sane(mm), Live(mm), mm.pages[d].pgdir \in DOMAIN mm.pt
  PROVE  LET m1 == IF mm.present_pages_num >= MAX_PRESENT_PFN THEN swap_out(mm) ELSE mm
         IN  Stopped(m1) \/ (Live(m1) /\ Sane(swap_in(m1, d)))
<1> DEFINE m1 == IF mm.present_pages_num >= MAX_PRESENT_PFN THEN swap_out(mm) ELSE mm
           n == swap_in(m1, d)
<1>1. /\ Good(mm, {}) /\ mm.present_pages_num = Len(mm.present) /\ Len(mm.present) \in Nat
      /\ Len(mm.present) <= MAX_PRESENT_PFN /\ d \in 1 .. MAX_PFN
  BY DEF Sane, Good, Queued
<1>2. \/ Stopped(m1)
      \/ Good(m1, {}) /\ Keeps(mm, m1) /\ Len(m1.present) < MAX_PRESENT_PFN /\ d \in Range(m1.swapped)
  <2>1. CASE mm.present_pages_num >= MAX_PRESENT_PFN
    <3>1. m1 = swap_out(mm) /\ mm.present # <<>>
      <4>1. m1 = swap_out(mm)
        BY <2>1
      <4>2. Len(mm.present) # 0
        BY <1>1, <2>1, MemoryAssumption
      <4> QED
        BY <4>1, <4>2
    <3> HIDE DEF m1
    <3>2. \/ Stopped(m1)
          \/ /\ Good(m1, {}) /\ Quiet(mm, m1) /\ Len(m1.present) = Len(mm.present) - 1
             /\ Range(mm.swapped) \subseteq Range(m1.swapped)
      BY <1>1, <3>1, SwapOutGood
    <3>3. Quiet(mm, m1) => Keeps(mm, m1)
      BY DEF Quiet, Keeps, SameEntries
    <3> QED
      BY <1>1, <3>2, <3>3, MemoryAssumption
  <2>2. CASE ~ (mm.present_pages_num >= MAX_PRESENT_PFN)
    <3>1. m1 = mm
      BY <2>2
    <3>2. DOMAIN mm = Fields
      BY <1>1 DEF Good, Shape
    <3>3. Keeps(mm, mm)
      BY <3>2 DEF Keeps, SamePages
    <3> HIDE DEF m1
    <3> QED
      BY <1>1, <2>2, <3>1, <3>3, MemoryAssumption
  <2> QED
    BY <2>1, <2>2
<1> HIDE DEF m1
<1>3. CASE ~ Stopped(m1)
  <2>1. Sane(m1)
    BY <1>2, <1>3, KeepsSane
  <2>2. m1.pages[d].pgdir \in DOMAIN m1.pt
    BY <1>1, <1>2, <1>3 DEF Keeps, SamePages
  <2>3. Good(n, {}) /\ SamePages(m1, n) /\ Visits(m1, n, m1.pages[d].pgdir, m1.pages[d].uva)
    BY <1>2, <1>3, <2>2, SwapInGood
  <2> HIDE DEF n
  <2>4. Keeps(m1, n)
    BY <2>3 DEF Keeps, Visits, Adds
  <2>5. Sane(n)
    BY <2>1, <2>3, <2>4, KeepsSane
  <2>6. m1.halted = mm.halted
    BY <1>2, <1>3 DEF Keeps
  <2>7. Live(m1)
    BY <2>6, Zenon DEF Live
  <2> QED
    BY <2>5, <2>7 DEF n, m1
<1> QED
  BY <1>3 DEF m1

LEMMA FaultSane ==
  ASSUME NEW g \in DOMAIN mm.pt, NEW uva \in Uva, Sane(mm), Fault(g, uva)
  PROVE  Sane(mm') /\ files' = files
<1> DEFINE q == mm.swapped
           I == {k \in 1 .. Len(q) : mm.pages[q[k]].uva = uva /\ mm.pages[q[k]].pgdir = g}
           i == SelectInSeq(q, LAMBDA d : mm.pages[d].uva = uva /\ mm.pages[d].pgdir = g)
           m1 == IF mm.present_pages_num >= MAX_PRESENT_PFN THEN swap_out(mm) ELSE mm
           a == alloc_page_helper(mm, uva, g, <<g, uva, Zero>>)
           b == swap_in(m1, q[i])
<1>1. Commit(IF get_kva_of_uva(mm, uva, g) = 0 THEN a
             ELSE IF i = 0 THEN halt(mm, "null")
             ELSE IF m1.halted # "" THEN m1 ELSE b)
  BY Zenon DEF Fault, handle_page_fault
<1>2. q \in Seq(1 .. MAX_PFN) /\ Len(q) \in Nat
  BY DEF Sane, Good, Queued
<1>3. get_kva_of_uva(mm, uva, g) = 0 => ~ Mapped(mm, uva, g)
  <2> SUFFICES ASSUME Mapped(mm, uva, g)
               PROVE  mm.pt[g].pte[uva].kva # 0
    BY DEF get_kva_of_uva
  <2>1. Directory(mm, g) /\ mm.frontier \in Nat
    BY DEF Sane, Good, Shape
  <2>2. mm.pt[g].pte[uva].kva \in Fr(mm)
    BY <2>1 DEF Mapped, Directory
  <2> QED
    BY <2>1, <2>2 DEF Fr
<1>4. i # 0 => q[i] \in Range(q) /\ mm.pages[q[i]].pgdir = g
  <2> SUFFICES ASSUME i # 0
               PROVE  q[i] \in Range(q) /\ mm.pages[q[i]].pgdir = g
    OBVIOUS
  <2>1. I # {} /\ i = Min(I)
    BY DEF SelectInSeq
  <2>2. Min(I) \in I
    <3>1. I \in SUBSET (0 .. Len(q))
      OBVIOUS
    <3> HIDE DEF I, q, i
    <3> QED
      BY <1>2, <2>1, <3>1, MinIn
  <2> HIDE DEF i
  <2> QED
    BY <1>2, <2>1, <2>2, RangeSeq
<1> HIDE DEF i, I
<1>5. CASE get_kva_of_uva(mm, uva, g) = 0
  <2>1. Commit(a)
    BY <1>1, <1>5
  <2>2. Stopped(a) \/ Sane(a)
    BY <1>3, <1>5, AllocSane
  <2> HIDE DEF a
  <2> QED
    BY <2>1, <2>2, CommitSane
<1>6. CASE get_kva_of_uva(mm, uva, g) # 0 /\ i = 0
  <2>1. Commit(halt(mm, "null"))
    BY <1>1, <1>6
  <2>2. Sane(halt(mm, "null"))
    BY HaltSane
  <2> QED
    BY <2>1, <2>2, CommitSane
<1>7. CASE get_kva_of_uva(mm, uva, g) # 0 /\ i # 0
  <2>1. Commit(IF m1.halted # "" THEN m1 ELSE b)
    BY <1>1, <1>7, Zenon
  <2>2. Stopped(m1) \/ (Live(m1) /\ Sane(b))
    <3>1. Live(mm)
      BY <2>1, Zenon DEF Commit, Live
    <3> QED
      BY <1>4, <1>7, <3>1, BackSane
  <2> HIDE DEF m1, b
  <2>3. \/ Commit(m1) /\ Stopped(m1)
        \/ Commit(b) /\ Sane(b)
    BY <2>1, <2>2, Zenon DEF Stopped, Live
  <2> QED
    BY <2>3, CommitSane
<1> QED
  BY <1>5, <1>6, <1>7

-----------------------------------------------------------------------------
(* Shared pages *)

LEMMA FreeWindowGood ==
  ASSUME NEW m, NEW g \in DOMAIN m.pt, Good(m, {}), Cardinality(Attached(m, g)) < MaxAttach
  PROVE  FreeWindow(m, g) \in Uva /\ InWindow(FreeWindow(m, g))
<1> DEFINE J == {j \in 0 .. MaxAttach : ~ Mapped(m, Window(j), g)}
           A == Attached(m, g)
           w == [j \in 0 .. MaxAttach |-> Window(j)]
<1>1. J # {}
  <2> SUFFICES ASSUME J = {}
               PROVE  FALSE
    OBVIOUS
  <2>1. MaxAttach \in Nat
    BY MemoryAssumption
  <2>2. IsFiniteSet(A)
    <3>1. IsFiniteSet(DOMAIN m.pt[g].pte)
      BY DEF Good, Shape, Directory
    <3>2. A \subseteq DOMAIN m.pt[g].pte
      BY DEF Attached
    <3> HIDE DEF A
    <3> QED
      BY <3>1, <3>2, FS_Subset
  <2>3. \A j \in 0 .. MaxAttach : Window(j) \in A
    BY DEF Attached, InWindow, Mapped
  <2> HIDE DEF A
  <2>4. \A i, j \in 0 .. MaxAttach : Window(i) = Window(j) => i = j
    BY <2>1 DEF Window
  <2>5. w \in Injection(0 .. MaxAttach, A)
    BY <2>3, <2>4 DEF Injection, IsInjective
  <2> HIDE DEF w
  <2>6. Cardinality(0 .. MaxAttach) <= Cardinality(A)
    BY <2>2, <2>5, FS_Injection
  <2>7. Cardinality(0 .. MaxAttach) = MaxAttach + 1
    BY <2>1, FS_Interval
  <2>8. Cardinality(A) \in Nat
    BY <2>2, FS_CardinalityType
  <2> QED
    BY <2>1, <2>6, <2>7, <2>8 DEF A
<1>2. Min(J) \in 0 .. MaxAttach
  <2>1. J \in SUBSET (0 .. MaxAttach)
    OBVIOUS
  <2>2. MaxAttach \in Nat
    BY MemoryAssumption
  <2> HIDE DEF J
  <2>3. Min(J) \in J
    BY <1>1, <2>1, <2>2, MinIn
  <2> QED
    BY <2>1, <2>3
<1>3. FreeWindow(m, g) = Window(Min(J))
  BY DEF FreeWindow
<1> HIDE DEF J
<1> QED
  BY <1>2, <1>3 DEF InWindow, Window, Uva

\* Only the slots differ.
LEMMA ShareGood ==
  ASSUME NEW m, NEW n, Good(m, {}), Described(m), Only(m, n, {"share"}),
         DOMAIN n.share = 1 .. MAX_SHARE_PAGE_NUM, \A i \in 1 .. MAX_SHARE_PAGE_NUM : Slot(n, i)
  PROVE  /\ Good(n, {}) /\ Described(n) /\ n.pt = m.pt /\ Fr(n) = Fr(m)
         /\ n.free = m.free /\ n.frontier = m.frontier /\ n.halted = m.halted
<1>1. /\ DOMAIN m = Fields /\ m.frontier \in Nat \ {0}
  BY DEF Good, Shape
<1>2. /\ n.kstacks = m.kstacks /\ n.pages = m.pages /\ n.present = m.present
      /\ n.swapped = m.swapped /\ n.present_pages_num = m.present_pages_num
      /\ DOMAIN n = Fields /\ n.frontier = m.frontier /\ Fr(n) = Fr(m)
      /\ n.free = m.free /\ n.mem = m.mem /\ n.pt = m.pt /\ n.halted = m.halted
  BY DEF Only, Fields, Fr
<1>3. Loses(m, n, {}, {})
  BY <1>2 DEF Loses, Takes
<1>4. Sorted(n, {})
  BY <1>3, DropRule DEF Good
<1>5. Shape(n)
  <2>1. \A h \in DOMAIN n.pt : Directory(n, h)
    BY <1>1, <1>2, ShapeParts DEF Good, Shape
  <2>2. \A d \in 1 .. MAX_PFN : Descriptor(n, d)
    BY <1>1, <1>2, ShapeParts DEF Good, Shape
  <2> QED
    BY <1>1, <1>2, <2>1, <2>2 DEF Good, Shape
<1>6. Queued(n) /\ Described(n)
  BY <1>2 DEF Queued, Good, Described, Mapped
<1> QED
  BY <1>2, <1>4, <1>5, <1>6 DEF Good

\* Slot i with other values.
SetSlot(m, i, s) == [m EXCEPT !.share[i] = s]

LEMMA SetSlotGood ==
  ASSUME NEW m, NEW i \in 1 .. MAX_SHARE_PAGE_NUM, NEW k, NEW r \in Nat, NEW f,
         Good(m, {}), Described(m)
  PROVE  LET n == SetSlot(m, i, [kva |-> f, ref |-> r, key |-> k])
         IN  /\ Good(n, {}) /\ Described(n) /\ n.pt = m.pt /\ Fr(n) = Fr(m)
             /\ n.free = m.free /\ n.frontier = m.frontier /\ n.halted = m.halted
             /\ \A j \in 1 .. MAX_SHARE_PAGE_NUM \ {i} : n.share[j] = m.share[j]
             /\ n.share[i] = [kva |-> f, ref |-> r, key |-> k]
<1> DEFINE n == SetSlot(m, i, [kva |-> f, ref |-> r, key |-> k])
<1>1. DOMAIN m = Fields /\ DOMAIN m.share = 1 .. MAX_SHARE_PAGE_NUM
  BY DEF Good, Shape
<1>2. /\ Only(m, n, {"share"}) /\ DOMAIN n.share = 1 .. MAX_SHARE_PAGE_NUM
      /\ \A j \in 1 .. MAX_SHARE_PAGE_NUM \ {i} : n.share[j] = m.share[j]
      /\ n.share[i] = [kva |-> f, ref |-> r, key |-> k]
  BY <1>1 DEF SetSlot, Only, Fields
<1> HIDE DEF n
<1>3. \A j \in 1 .. MAX_SHARE_PAGE_NUM : Slot(n, j)
  <2>1. Slot(n, i)
    BY <1>2 DEF Slot
  <2>2. \A j \in 1 .. MAX_SHARE_PAGE_NUM \ {i} : Slot(n, j)
    BY <1>2 DEF Slot, Good, Shape
  <2> QED
    BY <2>1, <2>2
<1> QED
  BY <1>2, <1>3, ShareGood DEF n

\* The assignments of the source, as a new slot.
WithKey(m, i, key, f) ==
  [m EXCEPT !.share[i].key = key, !.share[i].ref = @ + 1, !.share[i].kva = f]
Freed(m, i) == [m EXCEPT !.share[i].key = 0, !.share[i].kva = 0]

LEMMA SlotForms ==
  ASSUME NEW m, NEW i \in 1 .. MAX_SHARE_PAGE_NUM, Good(m, {})
  PROVE  /\ [m EXCEPT !.share[i].ref = @ + 1]
              = SetSlot(m, i, [kva |-> m.share[i].kva, ref |-> m.share[i].ref + 1,
                               key |-> m.share[i].key])
         /\ [m EXCEPT !.share[i].ref = @ - 1]
              = SetSlot(m, i, [kva |-> m.share[i].kva, ref |-> m.share[i].ref - 1,
                               key |-> m.share[i].key])
<1> DEFINE s == m.share[i]
<1>1. /\ DOMAIN m = Fields /\ DOMAIN m.share = 1 .. MAX_SHARE_PAGE_NUM
      /\ DOMAIN s = {"kva", "ref", "key"}
  BY DEF Good, Shape, Slot
<1>2. /\ [s EXCEPT !.ref = @ + 1] = [kva |-> s.kva, ref |-> s.ref + 1, key |-> s.key]
      /\ [s EXCEPT !.ref = @ - 1] = [kva |-> s.kva, ref |-> s.ref - 1, key |-> s.key]
  <2> HIDE DEF s
  <2>1. [s EXCEPT !.ref = @ + 1] = [kva |-> s.kva, ref |-> s.ref + 1, key |-> s.key]
    BY <1>1
  <2>2. [s EXCEPT !.ref = @ - 1] = [kva |-> s.kva, ref |-> s.ref - 1, key |-> s.key]
    BY <1>1
  <2> QED
    BY <2>1, <2>2
<1>3. [m EXCEPT !.share[i].ref = @ + 1] = SetSlot(m, i, [s EXCEPT !.ref = @ + 1])
  BY <1>1 DEF SetSlot, Fields
<1>4. [m EXCEPT !.share[i].ref = @ - 1] = SetSlot(m, i, [s EXCEPT !.ref = @ - 1])
  BY <1>1 DEF SetSlot, Fields
<1> QED
  BY <1>2, <1>3, <1>4

LEMMA WithKeyForm ==
  ASSUME NEW m, NEW i \in 1 .. MAX_SHARE_PAGE_NUM, NEW key, NEW f, Good(m, {})
  PROVE  WithKey(m, i, key, f)
           = SetSlot(m, i, [kva |-> f, ref |-> m.share[i].ref + 1, key |-> key])
<1> DEFINE s == m.share[i]
           r == [s EXCEPT !.key = key, !.ref = @ + 1, !.kva = f]
<1>1. /\ DOMAIN m = Fields /\ DOMAIN m.share = 1 .. MAX_SHARE_PAGE_NUM
      /\ DOMAIN s = {"kva", "ref", "key"}
  BY DEF Good, Shape, Slot
<1>2. WithKey(m, i, key, f) = SetSlot(m, i, r)
  BY <1>1 DEF SetSlot, Fields, WithKey
<1>3. /\ r = [x \in {"kva", "ref", "key"} |-> r[x]]
      /\ r.kva = f /\ r.ref = s.ref + 1 /\ r.key = key
  BY <1>1
<1> HIDE DEF r
<1>4. r = [kva |-> f, ref |-> s.ref + 1, key |-> key]
  BY <1>3
<1> QED
  BY <1>2, <1>4

LEMMA FreedForm ==
  ASSUME NEW m, NEW i \in 1 .. MAX_SHARE_PAGE_NUM, Good(m, {})
  PROVE  Freed(m, i) = SetSlot(m, i, [kva |-> 0, ref |-> m.share[i].ref, key |-> 0])
<1> DEFINE s == m.share[i]
           z == [s EXCEPT !.key = 0, !.kva = 0]
<1>1. /\ DOMAIN m = Fields /\ DOMAIN m.share = 1 .. MAX_SHARE_PAGE_NUM
      /\ DOMAIN s = {"kva", "ref", "key"}
  BY DEF Good, Shape, Slot
<1>2. Freed(m, i) = SetSlot(m, i, z)
  BY <1>1 DEF SetSlot, Fields, Freed
<1>3. /\ z = [x \in {"kva", "ref", "key"} |-> z[x]]
      /\ z.kva = 0 /\ z.ref = s.ref /\ z.key = 0
  BY <1>1
<1> HIDE DEF z
<1>4. z = [kva |-> 0, ref |-> s.ref, key |-> 0]
  BY <1>3
<1> QED
  BY <1>2, <1>4

\* A process attaches a page that is there.
LEMMA AttachSane ==
  ASSUME NEW m, NEW g \in DOMAIN m.pt, NEW uva \in Uva, NEW i \in 1 .. MAX_SHARE_PAGE_NUM,
         Sane(m), m.share[i].key # 0
  PROVE  Sane(map_uva_to_kva([m EXCEPT !.share[i].ref = @ + 1], uva, m.share[i].kva, g))
<1> DEFINE f == m.share[i].kva
           m0 == SetSlot(m, i, [kva |-> f, ref |-> m.share[i].ref + 1, key |-> m.share[i].key])
           n == map_uva_to_kva(m0, uva, f, g)
<1>1. Good(m, {}) /\ Described(m) /\ Slots(m)
  BY DEF Sane
<1>2. [m EXCEPT !.share[i].ref = @ + 1] = m0
  BY <1>1, SlotForms
<1>3. m.share[i].ref \in Nat
  BY <1>1 DEF Good, Shape, Slot
<1>4. /\ Good(m0, {}) /\ Described(m0) /\ m0.pt = m.pt /\ Fr(m0) = Fr(m)
      /\ \A j \in 1 .. MAX_SHARE_PAGE_NUM \ {i} : m0.share[j] = m.share[j]
      /\ m0.share[i] = [kva |-> f, ref |-> m.share[i].ref + 1, key |-> m.share[i].key]
  BY <1>1, <1>3, SetSlotGood
<1> HIDE DEF m0
<1>5. f \in Fr(m)
  BY <1>1 DEF Slots
<1>6. Slots(m0)
  <2>1. /\ m0.share[i].kva = f /\ m0.share[i].key = m.share[i].key
        /\ m0.share[i].ref = m.share[i].ref + 1
    BY <1>4
  <2>2. m0.share[i].ref # 0
    BY <1>3, <2>1
  <2> QED
    BY <1>1, <1>4, <2>1, <2>2 DEF Slots
<1>7. g \in DOMAIN m0.pt /\ f \in Fr(m0)
  BY <1>4, <1>5
<1> HIDE DEF f
<1>8. Good(n, {}) /\ Grows(m0, n) /\ Adds(m0, n, g, uva)
  BY <1>4, <1>7, MapGood
<1> HIDE DEF n
<1>9. Keeps(m0, n)
  BY <1>8 DEF Grows, Adds, Keeps, Only, Fields, SamePages
<1>10. Sane(m0)
  BY <1>4, <1>6 DEF Sane
<1>11. Sane(n)
  BY <1>8, <1>9, <1>10, KeepsSane
<1> QED
  BY <1>2, <1>11 DEF n, f

\* The first process to get the key.
LEMMA CreateSane ==
  ASSUME NEW m, NEW g \in DOMAIN m.pt, NEW uva \in Uva, NEW i \in 1 .. MAX_SHARE_PAGE_NUM,
         NEW key, NEW data, Sane(m), key # 0, InWindow(uva)
  PROVE  LET n == alloc_page_helper(WithKey(m, i, key, NextFrame(m)), uva, g, data)
         IN  Stopped(n) \/ Sane(n)
<1> DEFINE f == NextFrame(m)
           m0 == SetSlot(m, i, [kva |-> f, ref |-> m.share[i].ref + 1, key |-> key])
           n == alloc_page_helper(m0, uva, g, data)
<1>1. Good(m, {}) /\ Described(m) /\ Slots(m)
  BY DEF Sane
<1>2. WithKey(m, i, key, f) = m0
  BY <1>1, WithKeyForm
<1>3. m.share[i].ref \in Nat
  BY <1>1 DEF Good, Shape, Slot
<1>4. /\ Good(m0, {}) /\ Described(m0) /\ m0.pt = m.pt /\ Fr(m0) = Fr(m)
      /\ m0.free = m.free /\ m0.frontier = m.frontier
      /\ \A j \in 1 .. MAX_SHARE_PAGE_NUM \ {i} : m0.share[j] = m.share[j]
      /\ m0.share[i] = [kva |-> f, ref |-> m.share[i].ref + 1, key |-> key]
  BY <1>1, <1>3, SetSlotGood
<1> HIDE DEF m0
<1>5. NextFrame(m0) = f
  BY <1>4 DEF NextFrame
<1> HIDE DEF f
<1>6. g \in DOMAIN m0.pt
  BY <1>4
<1>7. Stopped(n) \/ (Good(n, {}) /\ Gets(m0, n, g, uva) /\ f \in Fr(n))
  BY <1>4, <1>5, <1>6, AllocGood
<1> HIDE DEF n
<1>8. ASSUME ~ Stopped(n) PROVE Sane(n)
  <2>1. Described(n)
    BY <1>4, <1>6, <1>7, <1>8, GetsDescribed
  <2>2. n.share = m0.share /\ Fr(m) \subseteq Fr(n) /\ f \in Fr(n)
    BY <1>4, <1>7, <1>8 DEF Gets, Visits
  <2>3. /\ n.share[i].kva = f /\ n.share[i].key = key
        /\ n.share[i].ref = m.share[i].ref + 1
    BY <1>4, <2>2
  <2>4. n.share[i].ref # 0 /\ f # 0
    BY <1>3, <2>2, <2>3 DEF Fr
  <2>5. Slots(n)
    BY <1>1, <1>4, <2>2, <2>3, <2>4 DEF Slots
  <2> QED
    BY <1>7, <1>8, <2>1, <2>5 DEF Sane
<1>9. Stopped(n) \/ Sane(n)
  BY <1>8
<1> QED
  BY <1>2, <1>9 DEF n, f

LEMMA ShmGetSane ==
  ASSUME NEW g \in DOMAIN mm.pt, NEW key \in Keys, 0 \notin Keys, Sane(mm), ShmGet(g, key)
  PROVE  Sane(mm') /\ files' = files
<1> DEFINE old == share_with(mm, key)
           new == share_with(mm, 0)
           uva == FreeWindow(mm, g)
           a == map_uva_to_kva([mm EXCEPT !.share[Min(old)].ref = @ + 1],
                               uva, mm.share[Min(old)].kva, g)
           c == alloc_page_helper(WithKey(mm, Min(new), key, NextFrame(mm)),
                                  uva, g, <<"key", key>>)
<1>1. /\ Cardinality(Attached(mm, g)) < MaxAttach
      /\ Commit(IF old # {} THEN a ELSE IF new # {} THEN c ELSE mm)
  BY DEF ShmGet, shm_page_get, WithKey
<1>2. uva \in Uva /\ InWindow(uva)
  BY <1>1, FreeWindowGood DEF Sane
<1> HIDE DEF uva
<1>3. MAX_SHARE_PAGE_NUM \in Nat
  BY MemoryAssumption
<1>4. old \in SUBSET (0 .. MAX_SHARE_PAGE_NUM) /\ new \in SUBSET (0 .. MAX_SHARE_PAGE_NUM)
  BY DEF share_with
<1>5. CASE old # {}
  <2>1. Min(old) \in old
    <3> HIDE DEF old
    <3> QED
      BY <1>3, <1>4, <1>5, MinIn
  <2>2. Min(old) \in 1 .. MAX_SHARE_PAGE_NUM /\ mm.share[Min(old)].key # 0
    BY <2>1 DEF share_with
  <2> HIDE DEF old
  <2>3. Sane(a)
    BY <1>2, <2>2, AttachSane
  <2> HIDE DEF a, c
  <2>4. Commit(a)
    BY <1>1, <1>5
  <2> QED
    BY <2>3, <2>4, CommitSane
<1>6. CASE old = {} /\ new # {}
  <2>1. Min(new) \in new
    <3> HIDE DEF new
    <3> QED
      BY <1>3, <1>4, <1>6, MinIn
  <2>2. Min(new) \in 1 .. MAX_SHARE_PAGE_NUM
    BY <2>1 DEF share_with
  <2> HIDE DEF old, new
  <2>3. Stopped(c) \/ Sane(c)
    BY <1>2, <2>2, CreateSane
  <2> HIDE DEF a, c
  <2>4. Commit(c)
    BY <1>1, <1>6
  <2> QED
    BY <2>3, <2>4, CommitSane
<1>7. CASE old = {} /\ new = {}
  <2> HIDE DEF a, c, old, new
  <2>1. Commit(mm)
    BY <1>1, <1>7
  <2> QED
    BY <2>1, CommitSane
<1> QED
  BY <1>5, <1>6, <1>7

\* Entry uva of directory g goes.
Unmap(m, g, uva) == [m EXCEPT !.pt[g].pte = [u \in DOMAIN @ \ {uva} |-> @[u]]]

LEMMA UnmapGood ==
  ASSUME NEW m, NEW g \in DOMAIN m.pt, NEW uva, InWindow(uva), Good(m, {}), Described(m)
  PROVE  LET n == Unmap(m, g, uva)
         IN  /\ Good(n, {}) /\ Described(n)
             /\ n.share = m.share /\ n.halted = m.halted /\ Fr(n) = Fr(m)
<1> DEFINE n == Unmap(m, g, uva)
<1>1. /\ DOMAIN m = Fields /\ m.frontier \in Nat \ {0}
      /\ DOMAIN m.pt[g] = {"tab", "pte", "task"} /\ Directory(m, g)
  BY DEF Good, Shape, Directory
<1>2. /\ Only(m, n, {"pt"}) /\ DOMAIN n.pt = DOMAIN m.pt
      /\ \A h \in DOMAIN m.pt \ {g} : n.pt[h] = m.pt[h]
      /\ DOMAIN n.pt[g] = DOMAIN m.pt[g] /\ n.pt[g].tab = m.pt[g].tab
      /\ DOMAIN n.pt[g].pte = DOMAIN m.pt[g].pte \ {uva}
      /\ \A x \in DOMAIN m.pt[g].pte \ {uva} : n.pt[g].pte[x] = m.pt[g].pte[x]
  BY <1>1 DEF Unmap, Only, Fields
<1> HIDE DEF n
<1>3. /\ n.kstacks = m.kstacks /\ n.pages = m.pages /\ n.present = m.present
      /\ n.swapped = m.swapped /\ n.present_pages_num = m.present_pages_num
      /\ n.share = m.share /\ DOMAIN n = Fields /\ n.frontier = m.frontier /\ Fr(n) = Fr(m)
      /\ n.free = m.free /\ n.mem = m.mem /\ n.halted = m.halted
  BY <1>2 DEF Only, Fields, Fr
<1>4. Loses(m, n, {}, {})
  BY <1>2, <1>3 DEF Takes, Loses
<1>5. Sorted(n, {})
  BY <1>4, DropRule DEF Good
<1>6. Directory(n, g)
  <2>1. IsFiniteSet(DOMAIN n.pt[g].pte)
    <3>1. IsFiniteSet(DOMAIN m.pt[g].pte)
      BY <1>1 DEF Directory
    <3> QED
      BY <1>2, <3>1, FS_Subset
  <2> QED
    BY <1>1, <1>2, <1>3, <2>1 DEF Directory
<1>7. Shape(n)
  <2>1. \A h \in DOMAIN n.pt : Directory(n, h)
    BY <1>1, <1>2, <1>3, <1>6, ShapeParts DEF Good, Shape
  <2>2. \A d \in 1 .. MAX_PFN : Descriptor(n, d)
    BY <1>1, <1>3, ShapeParts DEF Good, Shape
  <2>3. \A i \in 1 .. MAX_SHARE_PAGE_NUM : Slot(n, i)
    BY <1>1, <1>3, ShapeParts DEF Good, Shape
  <2> QED
    BY <1>2, <1>3, <2>1, <2>2, <2>3 DEF Good, Shape
<1>8. Queued(n)
  BY <1>3 DEF Queued, Good
<1>9. Described(n)
  <2>1. \A u, h : Mapped(m, u, h) => Mapped(n, u, h) \/ u = uva
    BY <1>2 DEF Mapped
  <2> QED
    BY <1>3, <2>1 DEF Described
<1> QED
  BY <1>3, <1>5, <1>7, <1>8, <1>9 DEF Good, n

\* The last process to detach a page of slot i frees it.
LEMMA LastSane ==
  ASSUME NEW m, NEW i \in 1 .. MAX_SHARE_PAGE_NUM, NEW f, Good(m, {}), Described(m),
         \A j \in 1 .. MAX_SHARE_PAGE_NUM \ {i} :
           /\ m.share[j].kva \in Fr(m) \cup {0}
           /\ m.share[j].key = 0 <=> m.share[j].kva = 0
           /\ m.share[j].kva # 0 => m.share[j].ref # 0
  PROVE  LET n == Freed(free_page_with_kva(m, f), i)
         IN  Stopped(n) \/ Sane(n)
<1> DEFINE r == free_page_with_kva(m, f)
           n == Freed(r, i)
<1>1. Stopped(r) \/ \E d : InUse(m, d) /\ m.pages[d].kva = f /\ r = Release(m, d)
  BY FreeKva
<1> HIDE DEF r
<1>2. CASE Stopped(r)
  <2>1. DOMAIN n = Fields /\ n.halted = r.halted
    <3>1. DOMAIN r = Fields
      BY <1>2, Zenon DEF Stopped
    <3> QED
      BY <3>1 DEF Freed, Fields
  <2> HIDE DEF n
  <2>2. Stopped(n)
    BY <1>2, <2>1, Zenon DEF Stopped
  <2> QED
    BY <2>2 DEF n, r
<1>3. CASE ~ Stopped(r)
  <2>1. PICK d : InUse(m, d) /\ r = Release(m, d)
    BY <1>1, <1>3
  <2>2. Good(r, {}) /\ Frees(m, r)
    BY <2>1, ReleaseFrees
  <2>3. Described(r) /\ r.share = m.share /\ Fr(r) = Fr(m)
    BY <2>2 DEF Described, Frees, Mapped
  <2>4. n = SetSlot(r, i, [kva |-> 0, ref |-> r.share[i].ref, key |-> 0])
    BY <2>2, FreedForm
  <2>5. r.share[i].ref \in Nat
    BY <2>2 DEF Good, Shape, Slot
  <2> HIDE DEF n
  <2>6. /\ Good(n, {}) /\ Described(n) /\ Fr(n) = Fr(r)
        /\ \A j \in 1 .. MAX_SHARE_PAGE_NUM \ {i} : n.share[j] = r.share[j]
        /\ n.share[i] = [kva |-> 0, ref |-> r.share[i].ref, key |-> 0]
    BY <2>2, <2>3, <2>4, <2>5, SetSlotGood
  <2>7. n.share[i].kva = 0 /\ n.share[i].key = 0
    BY <2>6
  <2>8. Slots(n)
    BY <2>3, <2>6, <2>7 DEF Slots
  <2> QED
    BY <2>6, <2>8 DEF Sane, n, r
<1> QED
  BY <1>2, <1>3

\* A process detaches a page of slot i.
LEMMA DetachSane ==
  ASSUME NEW m, NEW i \in 1 .. MAX_SHARE_PAGE_NUM, NEW f, f # 0, m.share[i].kva = f,
         Good(m, {}), Described(m), Slots(m)
  PROVE  LET n == [m EXCEPT !.share[i].ref = @ - 1]
             r == Freed(free_page_with_kva(n, f), i)
         IN  /\ n.share[i].ref # 0 => Sane(n)
             /\ Stopped(r) \/ Sane(r)
<1> DEFINE n == [m EXCEPT !.share[i].ref = @ - 1]
           r == Freed(free_page_with_kva(n, f), i)
           ref == m.share[i].ref
<1>1. n = SetSlot(m, i, [kva |-> m.share[i].kva, ref |-> m.share[i].ref - 1,
                         key |-> m.share[i].key])
  BY SlotForms
<1>2. ref - 1 \in Nat
  <2>1. ref \in Nat
    BY DEF Good, Shape, Slot
  <2>2. ref # 0
    BY DEF Slots
  <2> HIDE DEF ref
  <2> QED
    BY <2>1, <2>2
<1> HIDE DEF n
<1>3. /\ Good(n, {}) /\ Described(n) /\ Fr(n) = Fr(m)
      /\ \A j \in 1 .. MAX_SHARE_PAGE_NUM \ {i} : n.share[j] = m.share[j]
      /\ n.share[i] = [kva |-> m.share[i].kva, ref |-> m.share[i].ref - 1,
                       key |-> m.share[i].key]
  BY <1>1, <1>2, SetSlotGood
<1>4. n.share[i].kva = m.share[i].kva /\ n.share[i].key = m.share[i].key
  BY <1>3
<1>5. n.share[i].ref # 0 => Sane(n)
  BY <1>3, <1>4 DEF Sane, Slots
<1>6. Stopped(r) \/ Sane(r)
  <2>1. \A j \in 1 .. MAX_SHARE_PAGE_NUM \ {i} :
          /\ n.share[j].kva \in Fr(n) \cup {0}
          /\ n.share[j].key = 0 <=> n.share[j].kva = 0
          /\ n.share[j].kva # 0 => n.share[j].ref # 0
    BY <1>3 DEF Slots
  <2> QED
    BY <1>3, <2>1, LastSane
<1> QED
  BY <1>5, <1>6 DEF n

LEMMA ShmDtSane ==
  ASSUME NEW g \in DOMAIN mm.pt, NEW uva \in Attached(mm, g), Sane(mm), ShmDt(g, uva)
  PROVE  Sane(mm') /\ files' = files
<1> DEFINE kva == get_kva_of_uva(mm, uva, g)
           slots == {i \in 1 .. MAX_SHARE_PAGE_NUM : mm.share[i].kva = kva}
           m1 == Unmap(mm, g, uva)
           i == Min(slots)
           m2 == [m1 EXCEPT !.share[i].ref = @ - 1]
           r == Freed(free_page_with_kva(m2, kva), i)
<1>1. Commit(IF slots = {} THEN m1 ELSE IF m2.share[i].ref # 0 THEN m2 ELSE r)
  <2>1. Mapped(mm, uva, g)
    BY DEF Attached, Mapped
  <2> QED
    BY <2>1 DEF ShmDt, shm_page_dt, Unmap, Freed
<1>2. InWindow(uva) /\ uva \in DOMAIN mm.pt[g].pte
  BY DEF Attached
<1>3. kva \in Fr(mm) /\ kva # 0
  <2>1. Directory(mm, g)
    BY DEF Sane, Good, Shape
  <2>2. kva = mm.pt[g].pte[uva].kva
    BY <1>2 DEF get_kva_of_uva, Mapped
  <2>3. kva \in Fr(mm)
    BY <1>2, <2>1, <2>2 DEF Directory
  <2> QED
    BY <2>3 DEF Fr
<1>4. /\ Good(m1, {}) /\ Described(m1) /\ m1.share = mm.share /\ Fr(m1) = Fr(mm)
  BY <1>2, UnmapGood DEF Sane
<1> HIDE DEF m1, kva
<1>5. Slots(m1)
  BY <1>4, SlotsKept DEF Sane
<1>6. CASE slots = {}
  <2>1. Sane(m1)
    BY <1>4, <1>5 DEF Sane
  <2> HIDE DEF r, m2, slots
  <2>2. Commit(m1)
    BY <1>1, <1>6
  <2> QED
    BY <2>1, <2>2, CommitSane
<1>7. CASE slots # {}
  <2>1. i \in slots
    <3>1. MAX_SHARE_PAGE_NUM \in Nat
      BY MemoryAssumption
    <3>2. slots \in SUBSET (0 .. MAX_SHARE_PAGE_NUM)
      OBVIOUS
    <3> HIDE DEF slots
    <3> QED
      BY <1>7, <3>1, <3>2, MinIn
  <2>2. i \in 1 .. MAX_SHARE_PAGE_NUM /\ m1.share[i].kva = kva
    BY <1>4, <2>1
  <2> HIDE DEF slots, i
  <2>3. /\ m2.share[i].ref # 0 => Sane(m2)
        /\ Stopped(r) \/ Sane(r)
    BY <1>3, <1>4, <1>5, <2>2, DetachSane
  <2> HIDE DEF m2, r
  <2>4. (m2.share[i].ref # 0 /\ Commit(m2)) \/ Commit(r)
    BY <1>1, <1>7
  <2> QED
    BY <2>3, <2>4, CommitSane
<1> QED
  BY <1>6, <1>7

-----------------------------------------------------------------------------
(* The specification *)

LEMMA InitSane ==
  ASSUME Init
  PROVE  Sane(mm)
<1>1. /\ DOMAIN mm = Fields
      /\ mm.frontier = 3 /\ mm.free = <<>> /\ mm.kstacks = {1, 2} /\ DOMAIN mm.mem = {1, 2}
      /\ mm.pt = <<>> /\ mm.present = <<>> /\ mm.swapped = <<>> /\ mm.present_pages_num = 0
  BY DEF Init, Fields
<1>2. /\ DOMAIN mm.pages = 1 .. MAX_PFN
      /\ \A d \in 1 .. MAX_PFN : mm.pages[d] = Unused
  BY DEF Init
<1>3. /\ DOMAIN mm.share = 1 .. MAX_SHARE_PAGE_NUM
      /\ \A i \in 1 .. MAX_SHARE_PAGE_NUM : mm.share[i] = [kva |-> 0, ref |-> 0, key |-> 0]
  BY DEF Init
<1>4. Fr(mm) = {1, 2} /\ DOMAIN mm.pt = {} /\ Range(mm.present) = {} /\ Range(mm.free) = {}
      /\ Range(mm.swapped) = {}
  BY <1>1 DEF Fr, Range
<1>5. Shape(mm)
  <2>1. ASSUME NEW d \in 1 .. MAX_PFN PROVE Descriptor(mm, d)
    <3>1. mm.pages[d] = Unused
      BY <1>2
    <3>2. /\ DOMAIN Unused = {"used", "uva", "kva", "pgdir", "sector_id"}
          /\ Unused.used = FALSE /\ Unused.kva = 0
      BY DEF Unused
    <3> QED
      BY <3>1, <3>2, Zenon DEF Descriptor
  <2>2. \A i \in 1 .. MAX_SHARE_PAGE_NUM : Slot(mm, i)
    BY <1>3 DEF Slot
  <2> QED
    BY <1>1, <1>2, <1>3, <1>4, <2>1, <2>2 DEF Shape
<1>6. Sorted(mm, {})
  <2>1. mm.free \in Seq(Fr(mm)) /\ IsInjective(mm.free)
    BY <1>1 DEF IsInjective
  <2>2. \A k, x, y, f : Takes(mm, {}, k, x, y, f) =>
          k = "stack" /\ x = 0 /\ y = 0 /\ f \in mm.kstacks
    BY <1>4 DEF Takes
  <2> QED
    BY <1>1, <1>4, <2>1, <2>2 DEF Sorted
<1>7. Queued(mm)
  <2>1. \A d \in 1 .. MAX_PFN : ~ mm.pages[d].used
    BY <1>2 DEF Unused
  <2>2. {d \in 1 .. MAX_PFN : mm.pages[d].used} = {}
    BY <2>1
  <2> QED
    BY <1>1, <1>4, <2>2, MemoryAssumption DEF Queued, IsInjective
<1>8. Described(mm)
  BY <1>2 DEF Described, Unused
<1>9. Slots(mm)
  BY <1>3 DEF Slots
<1> QED
  BY <1>5, <1>6, <1>7, <1>8, <1>9 DEF Sane, Good

MemoryInv == files \in Images /\ Sane(mm)

LEMMA NextSane ==
  ASSUME 0 \notin Keys, "detach_any" \notin Unsafe, MemoryInv, Next
  PROVE  MemoryInv'
<1>1. files \in Images /\ Sane(mm)
  BY DEF MemoryInv
<1>2. ASSUME NEW t \in DOMAIN taskinfo(files), do_exec(t)
      PROVE  Sane(mm') /\ files' = files
  BY <1>1, <1>2, DoExecSane
<1>3. ASSUME NEW g \in DOMAIN mm.pt, Schedule(g)
      PROVE  Sane(mm') /\ files' = files
  BY <1>1, <1>3, ScheduleSane
<1>4. ASSUME NEW g \in DOMAIN mm.pt, NEW q \in DOMAIN mm.pt \cup {0}, do_exit(g, q)
      PROVE  Sane(mm') /\ files' = files
  BY <1>1, <1>4, ExitSane
<1>5. ASSUME NEW g \in DOMAIN mm.pt, do_kill(g)
      PROVE  Sane(mm') /\ files' = files
  BY <1>1, <1>5, KillSane
<1>6. ASSUME NEW g \in DOMAIN mm.pt, NEW uva \in Heap \cup DOMAIN mm.pt[g].pte, Fault(g, uva)
      PROVE  Sane(mm') /\ files' = files
  <2>1. Directory(mm, g)
    BY <1>1 DEF Sane, Good, Shape
  <2>2. uva \in Uva
    BY <2>1, MemoryAssumption DEF Directory
  <2> QED
    BY <1>1, <1>6, <2>2, FaultSane
<1>7. ASSUME NEW g \in DOMAIN mm.pt, NEW key \in Keys, ShmGet(g, key)
      PROVE  Sane(mm') /\ files' = files
  BY <1>1, <1>7, ShmGetSane
<1>8. ASSUME NEW g \in DOMAIN mm.pt, NEW uva \in Heap \cup DOMAIN mm.pt[g].pte, ShmDt(g, uva)
      PROVE  Sane(mm') /\ files' = files
  <2>1. uva \in Attached(mm, g)
    BY <1>8 DEF ShmDt
  <2> QED
    BY <1>1, <1>8, <2>1, ShmDtSane
<1>9. Sane(mm') /\ files' = files
  BY <1>2, <1>3, <1>4, <1>5, <1>6, <1>7, <1>8 DEF Next
<1> QED
  BY <1>1, <1>9 DEF MemoryInv

\* If 0 is no key, as no program uses it, and programs detach only pages that
\* they have attached, the strengthened invariant holds.  The theorems below are
\* about such programs.
THEOREM MemorySane ==
  ASSUME 0 \notin Keys, "detach_any" \notin Unsafe
  PROVE  Spec => []MemoryInv
<1>1. Init => MemoryInv
  <2> SUFFICES ASSUME Init PROVE MemoryInv
    OBVIOUS
  <2>1. files \in Images
    BY DEF Init
  <2> QED
    BY <2>1, InitSane DEF MemoryInv
<1>2. MemoryInv /\ [Next]_vars => MemoryInv'
  <2>1. CASE Next
    BY <2>1, NextSane
  <2>2. CASE UNCHANGED vars
    BY <2>2 DEF vars, MemoryInv
  <2> QED
    BY <2>1, <2>2
<1> QED
  BY <1>1, <1>2, PTL DEF Spec

-----------------------------------------------------------------------------
(* The properties *)

LEMMA SaneTypes ==
  ASSUME MemoryInv
  PROVE  TypeOK
<1>1. Shape(mm) /\ Sorted(mm, {}) /\ files \in Images
  BY DEF MemoryInv, Sane, Good
<1>2. Frames = Fr(mm)
  BY DEF Frames, Fr
<1>3. Range(mm.free) \subseteq Frames
  BY <1>1, <1>2, RangeSeq DEF Sorted
<1>4. ASSUME NEW g \in DOMAIN mm.pt
      PROVE  /\ Range(mm.pt[g].tab) \subseteq Frames
             /\ \A uva \in DOMAIN mm.pt[g].pte :
                  /\ Pte(g, uva).kva \in Frames
                  /\ {<<uva[1]>>, <<uva[1], uva[2]>>} \subseteq DOMAIN mm.pt[g].tab
  BY <1>1, <1>2, <1>4 DEF Shape, Directory, Pte, Range
<1>5. \A i \in DOMAIN mm.share : mm.share[i].ref \in Nat
  BY <1>1 DEF Shape, Slot
<1>6. \A d \in 1 .. MAX_PFN : mm.pages[d].kva \in Frames \cup {0}
  BY <1>1, <1>2 DEF Shape, Descriptor
<1> QED
  BY <1>1, <1>2, <1>3, <1>4, <1>5, <1>6 DEF Shape, TypeOK

\* The name that Uses gives a use.
Name(k, x, y, f) ==
  IF k = "table" THEN <<k, x, y>> ELSE IF k = "page" THEN <<k, x>> ELSE <<k, f>>

LEMMA UsesNamed ==
  ASSUME NEW f, NEW u \in Uses(f)
  PROVE  \/ \E i \in DOMAIN mm.free : mm.free[i] = f /\ u = <<"free", i>>
         \/ \E k, x, y : Takes(mm, {}, k, x, y, f) /\ u = Name(k, x, y, f)
<1>1. CASE \E i \in DOMAIN mm.free : mm.free[i] = f /\ u = <<"free", i>>
  BY <1>1
<1>2. CASE u = <<"stack", f>> /\ f \in mm.kstacks
  <2>1. Takes(mm, {}, "stack", 0, 0, f) /\ u = Name("stack", 0, 0, f)
    BY <1>2 DEF Takes, Name
  <2> QED
    BY <2>1
<1>3. CASE u = <<"pgdir", f>> /\ f \in DOMAIN mm.pt
  <2>1. Takes(mm, {}, "pgdir", 0, 0, f) /\ u = Name("pgdir", 0, 0, f)
    BY <1>3 DEF Takes, Name
  <2> QED
    BY <2>1
<1>4. ASSUME NEW g \in DOMAIN mm.pt, NEW n \in DOMAIN mm.pt[g].tab, mm.pt[g].tab[n] = f,
             u = <<"table", g, n>>
      PROVE  \E k, x, y : Takes(mm, {}, k, x, y, f) /\ u = Name(k, x, y, f)
  <2>1. Takes(mm, {}, "table", g, n, f) /\ u = Name("table", g, n, f)
    BY <1>4 DEF Takes, Name
  <2> QED
    BY <2>1
<1>5. ASSUME NEW d \in Range(mm.present), mm.pages[d].kva = f, u = <<"page", d>>
      PROVE  \E k, x, y : Takes(mm, {}, k, x, y, f) /\ u = Name(k, x, y, f)
  <2>1. Takes(mm, {}, "page", d, 0, f) /\ u = Name("page", d, 0, f)
    BY <1>5 DEF Takes, Name
  <2> QED
    BY <2>1
<1> DEFINE F == {<<"free", i>> : i \in {j \in DOMAIN mm.free : mm.free[j] = f}}
           S == {<<"stack", f>> : x \in mm.kstacks \cap {f}}
           P == {<<"pgdir", f>> : x \in DOMAIN mm.pt \cap {f}}
           T == UNION {{<<"table", g, n>> :
                          n \in {e \in DOMAIN mm.pt[g].tab : mm.pt[g].tab[e] = f}} :
                       g \in DOMAIN mm.pt}
           D == {<<"page", d>> : d \in {e \in Range(mm.present) : mm.pages[e].kva = f}}
<1>6. Uses(f) = F \cup S \cup P \cup T \cup D
  BY Zenon DEF Uses
<1>7. u \in F => \E i \in DOMAIN mm.free : mm.free[i] = f /\ u = <<"free", i>>
  OBVIOUS
<1>8. u \in S => u = <<"stack", f>> /\ f \in mm.kstacks
  OBVIOUS
<1>9. u \in P => u = <<"pgdir", f>> /\ f \in DOMAIN mm.pt
  OBVIOUS
<1>10. u \in T => \E g \in DOMAIN mm.pt : \E n \in DOMAIN mm.pt[g].tab :
                    mm.pt[g].tab[n] = f /\ u = <<"table", g, n>>
  OBVIOUS
<1>11. u \in D => \E d \in Range(mm.present) : mm.pages[d].kva = f /\ u = <<"page", d>>
  OBVIOUS
<1> HIDE DEF F, S, P, T, D
<1>12. u \in F \/ u \in S \/ u \in P \/ u \in T \/ u \in D
  BY <1>6
<1>13. CASE u \in F
  BY <1>1, <1>7, <1>13
<1>14. CASE u \in S
  BY <1>2, <1>8, <1>14
<1>15. CASE u \in P
  BY <1>3, <1>9, <1>15
<1>16. CASE u \in T
  BY <1>4, <1>10, <1>16
<1>17. CASE u \in D
  BY <1>5, <1>11, <1>17
<1> QED
  BY <1>12, <1>13, <1>14, <1>15, <1>16, <1>17

LEMMA SaneExclusive ==
  ASSUME MemoryInv
  PROVE  FramesExclusive
<1> SUFFICES ASSUME NEW f \in Frames PROVE Cardinality(Uses(f)) <= 1
  BY DEF FramesExclusive
<1>1. Sorted(mm, {})
  BY DEF MemoryInv, Sane, Good
<1>2. ASSUME NEW u \in Uses(f), NEW v \in Uses(f) PROVE u = v
  <2>1. CASE \E i \in DOMAIN mm.free : mm.free[i] = f /\ u = <<"free", i>>
    <3>1. f \in Range(mm.free)
      BY <2>1 DEF Range
    <3>2. \A k, x, y : ~ Takes(mm, {}, k, x, y, f)
      BY <1>1, <3>1 DEF Sorted
    <3>3. \E i \in DOMAIN mm.free : mm.free[i] = f /\ v = <<"free", i>>
      BY <3>2, UsesNamed
    <3>4. \A i, j \in DOMAIN mm.free : mm.free[i] = mm.free[j] => i = j
      BY <1>1 DEF Sorted, IsInjective
    <3> QED
      BY <2>1, <3>3, <3>4
  <2>2. CASE \E k, x, y : Takes(mm, {}, k, x, y, f) /\ u = Name(k, x, y, f)
    <3>1. f \notin Range(mm.free)
      BY <1>1, <2>2 DEF Sorted
    <3>2. ~ \E i \in DOMAIN mm.free : mm.free[i] = f
      BY <3>1 DEF Range
    <3>3. \E k, x, y : Takes(mm, {}, k, x, y, f) /\ v = Name(k, x, y, f)
      BY <3>2, UsesNamed
    <3> QED
      BY <1>1, <2>2, <3>3 DEF Sorted
  <2> QED
    BY <2>1, <2>2, UsesNamed
<1>3. CASE Uses(f) = {}
  BY <1>3, FS_EmptySet
<1>4. CASE Uses(f) # {}
  <2>1. PICK u : u \in Uses(f)
    BY <1>4
  <2>2. Uses(f) = {u}
    BY <1>2, <2>1
  <2>3. Cardinality({u}) = 1
    BY FS_Singleton
  <2> QED
    BY <2>2, <2>3
<1> QED
  BY <1>3, <1>4

LEMMA SaneQueues ==
  ASSUME MemoryInv
  PROVE  QueuesExact /\ DescriptorsMapped
<1>1. Good(mm, {}) /\ Queued(mm) /\ Described(mm)
  BY DEF MemoryInv, Sane, Good
<1>2. /\ IsInjective(Queues(mm))
      /\ Range(Queues(mm)) = Range(mm.present) \cup Range(mm.swapped)
  BY <1>1, InQueues
<1>3. Range(Queues(mm)) = {d \in 1 .. MAX_PFN : mm.pages[d].used}
  BY <1>1, <1>2 DEF Queued
<1>4. QueuesExact
  BY <1>1, <1>2, <1>3 DEF Queued, QueuesExact
<1>5. DescriptorsMapped
  BY <1>1, <1>3 DEF Described, DescriptorsMapped
<1> QED
  BY <1>4, <1>5

\* Types of descriptors, page tables and the free list, for every set of
\* programs and every number of frames, descriptors, slots and processes.
THEOREM MemoryTypes ==
  ASSUME 0 \notin Keys, "detach_any" \notin Unsafe
  PROVE  Spec => []TypeOK
BY MemorySane, SaneTypes, PTL

\* kalloc never hands out a frame that is in use and kfree never puts one into
\* freemem_list that is there or in use, in any order of the calls of processes
\* that detach only what they attached: no frame has two uses.
THEOREM MemoryFramesExclusive ==
  ASSUME 0 \notin Keys, "detach_any" \notin Unsafe
  PROVE  Spec => []FramesExclusive
BY MemorySane, SaneExclusive, PTL

\* present_pages_num is the length of the present queue, at most
\* MAX_PRESENT_PFN, and the queues hold every descriptor in use once.
THEOREM MemoryQueuesExact ==
  ASSUME 0 \notin Keys, "detach_any" \notin Unsafe
  PROVE  Spec => []QueuesExact
<1>1. MemoryInv => QueuesExact
  BY SaneQueues
<1> QED
  BY <1>1, MemorySane, PTL

\* A private page that has a descriptor is in its process's page table, so
\* swap_out finds its entry, as long as programs detach only pages that they have
\* attached: free_pagetable leaves no descriptor behind.
THEOREM MemoryDescriptorsMapped ==
  ASSUME 0 \notin Keys, "detach_any" \notin Unsafe
  PROVE  Spec => []DescriptorsMapped
<1>1. MemoryInv => DescriptorsMapped
  BY SaneQueues
<1> QED
  BY <1>1, MemorySane, PTL
=============================================================================
