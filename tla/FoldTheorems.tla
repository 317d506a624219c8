---------------------------- MODULE FoldTheorems ----------------------------
(***************************************************************************)
(* What FoldLeft computes.  The induction principle of the library has an  *)
(* operator as its parameter; here the operators are the constants of the  *)
(* module, and each instance of it proves something about one fold.        *)
(***************************************************************************)
EXTENDS Integers, SequencesExt, WellFoundedInduction, TLAPS

CONSTANTS
  Op(_, _, _),    \* Op(k, x, e): one step of the fold, with a parameter k
  Holds(_, _, _)  \* Holds(k, i, x): what holds of x after the first i steps

\* Induction on the natural numbers, for a set.
LEMMA Induction ==
  ASSUME NEW S, 0 \in S, \A i \in Nat : i \in S => i + 1 \in S
  PROVE  Nat \subseteq S
<1> SUFFICES ASSUME NEW n \in Nat, n \notin S
             PROVE  FALSE
  OBVIOUS
<1> DEFINE T == Nat \ S
           R == OpToRel(<, Nat)
<1>1. PICK x \in T : \A y \in T : ~ (<<y, x>> \in R)
  <2>1. T \subseteq Nat /\ T # {}
    OBVIOUS
  <2>2. IsWellFoundedOn(R, Nat)
    BY NatLessThanWellFounded
  <2> HIDE DEF T, R
  <2> QED
    BY <2>1, <2>2, WFMin
<1>2. \A y \in Nat : y < x => <<y, x>> \in R
  BY DEF OpToRel
<1> HIDE DEF R
<1>3. x # 0 /\ x - 1 \in Nat /\ x - 1 < x /\ x \in Nat /\ (x - 1) + 1 = x
  OBVIOUS
<1> QED
  BY <1>1, <1>2, <1>3

\* The recursion of MapThenFoldSet, on the subsets of 1 .. j.
Iter(f, k, base, seq, j) ==
  f = [s \in SUBSET (1 .. j) |->
         IF s = {} THEN base ELSE Op(k, f[s \ {Max(s)}], seq[Max(s)])]

\* The step for a set of indexes is the one for its last index.
LEMMA MaxLast ==
  ASSUME NEW j \in Nat, NEW s \in SUBSET (1 .. j), j \in s
  PROVE  Max(s) = j
<1>1. \A y \in s : j >= y /\ y \in Nat
  OBVIOUS
<1>2. \A x \in s : (\A y \in s : x >= y) => x = j
  BY <1>1
<1>3. Max(s) \in s /\ \A y \in s : Max(s) >= y
  BY <1>1 DEF Max
<1> QED
  BY <1>2, <1>3

\* The recursion has a solution, although its definition is a CHOOSE.
LEMMA IterExists ==
  ASSUME NEW k, NEW base, NEW seq
  PROVE  \A j \in Nat : \E f : Iter(f, k, base, seq, j)
<1> DEFINE S == {j \in Nat : \E f : Iter(f, k, base, seq, j)}
<1>1. 0 \in S
  <2> DEFINE g == [s \in SUBSET (1 .. 0) |-> base]
  <2>1. \A s \in SUBSET (1 .. 0) : s = {}
    OBVIOUS
  <2>2. Iter(g, k, base, seq, 0)
    BY <2>1 DEF Iter
  <2> QED
    BY <2>2
<1>2. ASSUME NEW j \in Nat, j \in S
      PROVE  j + 1 \in S
  <2>1. PICK f : Iter(f, k, base, seq, j)
    BY <1>2
  <2> DEFINE g == [s \in SUBSET (1 .. (j + 1)) |->
                     IF j + 1 \in s THEN Op(k, f[s \ {j + 1}], seq[j + 1]) ELSE f[s]]
  <2>2. \A s \in SUBSET (1 .. j) : s \in SUBSET (1 .. (j + 1)) /\ j + 1 \notin s /\ g[s] = f[s]
    OBVIOUS
  <2>3. ASSUME NEW s \in SUBSET (1 .. (j + 1))
        PROVE  g[s] = IF s = {} THEN base ELSE Op(k, g[s \ {Max(s)}], seq[Max(s)])
    <3>1. CASE j + 1 \in s
      <4>1. Max(s) = j + 1 /\ s # {}
        BY <3>1, MaxLast
      <4>2. s \ {j + 1} \in SUBSET (1 .. j)
        OBVIOUS
      <4> QED
        BY <2>2, <3>1, <4>1, <4>2
    <3>2. CASE j + 1 \notin s
      <4>1. s \subseteq 1 .. j
        BY <3>2
      <4>2. f[s] = IF s = {} THEN base ELSE Op(k, f[s \ {Max(s)}], seq[Max(s)])
        BY <2>1, <4>1 DEF Iter
      <4>3. s \ {Max(s)} \in SUBSET (1 .. j)
        BY <4>1
      <4> HIDE DEF g
      <4> QED
        BY <2>2, <4>1, <4>2, <4>3
    <3> QED
      BY <3>1, <3>2
  <2>4. Iter(g, k, base, seq, j + 1)
    <3> DEFINE h == [s \in SUBSET (1 .. (j + 1)) |->
                       IF s = {} THEN base ELSE Op(k, g[s \ {Max(s)}], seq[Max(s)])]
    <3>1. g = h
      BY <2>3
    <3> QED
      BY <3>1 DEF Iter
  <2> QED
    BY <2>4
<1>3. Nat \subseteq S
  <2> HIDE DEF S
  <2> QED
    BY <1>1, <1>2, Induction
<1> QED
  BY <1>3

\* The fold of seq from base.
Folded(k, base, seq) == FoldLeft(LAMBDA x, e : Op(k, x, e), base, seq)

\* What holds at the start and is carried on by every step holds at the end.
THEOREM FoldRule ==
  ASSUME NEW k, NEW base, NEW seq, NEW n \in Nat, DOMAIN seq = 1 .. n,
         Holds(k, 0, base),
         \A i \in 1 .. n : \A x : Holds(k, i - 1, x) => Holds(k, i, Op(k, x, seq[i]))
  PROVE  Holds(k, n, Folded(k, base, seq))
<1> DEFINE it == CHOOSE f : Iter(f, k, base, seq, n)
<1>1. Iter(it, k, base, seq, n)
  BY IterExists
<1>2. Folded(k, base, seq) = it[1 .. n]
  BY DEF Folded, FoldLeft, MapThenFoldSet, Iter
<1> HIDE DEF it
<1> DEFINE S == {j \in Nat : j <= n => Holds(k, j, it[1 .. j])}
<1>3. 0 \in S
  <2>1. 1 .. 0 = {} /\ {} \in SUBSET (1 .. n)
    OBVIOUS
  <2>2. it[{}] = base
    BY <1>1, <2>1 DEF Iter
  <2> QED
    BY <2>1, <2>2
<1>4. ASSUME NEW j \in Nat, j \in S
      PROVE  j + 1 \in S
  <2> SUFFICES ASSUME j + 1 <= n
               PROVE  Holds(k, j + 1, it[1 .. (j + 1)])
    OBVIOUS
  <2>1. Holds(k, j, it[1 .. j]) /\ j + 1 \in 1 .. n /\ (j + 1) - 1 = j
    BY <1>4
  <2>2. 1 .. (j + 1) \in SUBSET (1 .. n) /\ 1 .. (j + 1) # {} /\ (1 .. (j + 1)) \ {j + 1} = 1 .. j
    OBVIOUS
  <2>3. Max(1 .. (j + 1)) = j + 1
    BY MaxLast
  <2>4. it[1 .. (j + 1)] = Op(k, it[1 .. j], seq[j + 1])
    BY <1>1, <2>2, <2>3 DEF Iter
  <2> QED
    BY <2>1, <2>4
<1>5. Nat \subseteq S
  <2> HIDE DEF S
  <2> QED
    BY <1>3, <1>4, Induction
<1>6. Holds(k, n, it[1 .. n])
  BY <1>5
<1> QED
  BY <1>2, <1>6
=============================================================================
