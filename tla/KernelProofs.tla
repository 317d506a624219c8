---------------------------- MODULE KernelProofs ----------------------------
(***************************************************************************)
(* The invariants of module Kernel hold for every number of tasks, locks,  *)
(* barriers, condition variables and descriptors, as long as user programs *)
(* keep to the uses that the kernel handles (Admitted).                    *)
(*                                                                         *)
(* The first part is what the paths through the kernel do to the           *)
(* invariant.  Sound says that lists, statuses and slots agree, with the   *)
(* exception of the tasks X that are being torn down; Runs says that they  *)
(* agree with what the harts run.  The list operations preserve Sound      *)
(* (SoundMoved, SoundDrained, SoundDeleted); a hart that enters the kernel *)
(* finds Sound and Runs (CoreElim, TearElim); and every path through the   *)
(* kernel ends in one of three ways, each of which turns them into the     *)
(* invariant: the hart goes on in the same task (CoreSame), switches to    *)
(* another one (CoreSwitch, CoreBlock) or is in the middle of a teardown   *)
(* (TearIntro).                                                            *)
(*                                                                         *)
(* In the second part, one lemma per system call or interrupt shows that   *)
(* it re-establishes Core, the scheduler's part of the invariant, and that *)
(* the same tasks have exited afterwards, or how that changes.             *)
(***************************************************************************)
EXTENDS Kernel, SequenceTheorems, FiniteSetTheorems, TLAPS

-----------------------------------------------------------------------------
(* What the list operations do, for any lists in which every node is linked *)
(* at most once: the types they keep, and which entry is on which list      *)
(* afterwards.                                                              *)

\* Unlinking the entry at position i closes the gap and keeps the order.
LEMMA RemoveFirstAt ==
  ASSUME NEW S, NEW s \in Seq(S), NEW i \in 1 .. Len(s),
         \A j \in 1 .. Len(s) : s[j] = s[i] => j = i
  PROVE  RemoveFirst(s, s[i]) =
           [k \in 1 .. (Len(s) - 1) |-> IF k < i THEN s[k] ELSE s[k + 1]]
<1> DEFINE a == SubSeq(s, 1, i - 1)
           b == SubSeq(s, i + 1, Len(s))
<1>1. {j \in 1 .. Len(s) : s[j] = s[i]} = {i}
  OBVIOUS
<1>2. SelectInSeq(s, LAMBDA v : v = s[i]) = i
  BY <1>1 DEF SelectInSeq, Min
<1>3. RemoveFirst(s, s[i]) = a \o b
  BY <1>2 DEF RemoveFirst, RemoveAt
<1>4. a \in Seq(S) /\ Len(a) = i - 1 /\ \A k \in 1 .. (i - 1) : a[k] = s[k]
  OBVIOUS
<1>5. /\ b \in Seq(S) /\ Len(b) = Len(s) - i
      /\ \A k \in 1 .. (Len(s) - i) : b[k] = s[k + i]
  OBVIOUS
<1> HIDE DEF a, b
<1>6. a \o b \in Seq(S) /\ Len(a \o b) = Len(s) - 1
  <2>1. a \o b \in Seq(S) /\ Len(a \o b) = Len(a) + Len(b)
    BY <1>4, <1>5, ConcatProperties, Zenon
  <2> QED
    BY <1>4, <1>5, <2>1
<1>7. \A k \in 1 .. (Len(s) - 1) : (a \o b)[k] = IF k <= Len(a) THEN a[k] ELSE b[k - Len(a)]
  BY <1>4, <1>5, ConcatProperties
<1>8. \A k \in 1 .. (Len(s) - 1) : (a \o b)[k] = IF k < i THEN s[k] ELSE s[k + 1]
  BY <1>4, <1>5, <1>7
<1> QED
  <2> DEFINE d == [k \in 1 .. (Len(s) - 1) |-> IF k < i THEN s[k] ELSE s[k + 1]]
  <2>1. d \in Seq(S) /\ Len(d) = Len(s) - 1
    OBVIOUS
  <2>2. \A k \in 1 .. Len(a \o b) : (a \o b)[k] = d[k]
    BY <1>6, <1>8
  <2> HIDE DEF d
  <2>3. a \o b = d
    BY <1>6, <2>1, <2>2, SeqEqual
  <2> QED
    BY <1>3, <2>3 DEF d

\* The effect of list_delete_entry on one list.
LEMMA RemoveFirstProperties ==
  ASSUME NEW S, NEW s \in Seq(S), NEW p,
         \A i, j \in 1 .. Len(s) : s[i] = s[j] => i = j
  PROVE  LET d == RemoveFirst(s, p)
         IN  /\ d \in Seq(S)
             /\ \A i, j \in 1 .. Len(d) : d[i] = d[j] => i = j
             /\ \A q : Contains(d, q) <=> q # p /\ Contains(s, q)
             /\ s # <<>> /\ s[1] # p => d # <<>> /\ d[1] = s[1]
<1>1. CASE \E i \in 1 .. Len(s) : s[i] = p
  <2>1. PICK i \in 1 .. Len(s) : s[i] = p
    BY <1>1
  <2> DEFINE d == [k \in 1 .. (Len(s) - 1) |-> IF k < i THEN s[k] ELSE s[k + 1]]
  <2>2. RemoveFirst(s, p) = d
    BY <2>1, RemoveFirstAt
  <2>3. d \in Seq(S) /\ Len(d) = Len(s) - 1
    OBVIOUS
  <2>4. \A m, n \in 1 .. Len(d) : d[m] = d[n] => m = n
    BY <2>3
  <2>5. ASSUME NEW q PROVE Contains(d, q) <=> q # p /\ Contains(s, q)
    <3>1. ASSUME NEW k \in 1 .. Len(d), d[k] = q PROVE q # p /\ Contains(s, q)
      BY <2>1, <2>3, <3>1 DEF Contains
    <3>2. ASSUME NEW k \in 1 .. Len(s), s[k] = q, q # p PROVE Contains(d, q)
      <4>1. CASE k < i
        BY <2>1, <2>3, <3>2, <4>1 DEF Contains
      <4>2. CASE k > i
        <5>1. k - 1 \in 1 .. Len(d) /\ d[k - 1] = q
          BY <2>1, <2>3, <3>2, <4>2
        <5> HIDE DEF d
        <5> QED
          BY <5>1 DEF Contains
      <4> QED
        BY <2>1, <3>2, <4>1, <4>2
    <3> HIDE DEF d
    <3> QED
      BY <3>1, <3>2 DEF Contains
  <2>6. s # <<>> /\ s[1] # p => d # <<>> /\ d[1] = s[1]
    <3> SUFFICES ASSUME s # <<>>, s[1] # p PROVE d # <<>> /\ d[1] = s[1]
      OBVIOUS
    <3>1. i > 1 /\ Len(s) > 1
      BY <2>1
    <3>2. Len(d) > 0 /\ d[1] = s[1]
      BY <2>3, <3>1
    <3> HIDE DEF d
    <3> QED
      BY <3>2, EmptySeq
  <2> HIDE DEF d
  <2> QED
    BY <2>2, <2>3, <2>4, <2>5, <2>6
<1>2. CASE ~ \E i \in 1 .. Len(s) : s[i] = p
  BY <1>2 DEF RemoveFirst, Contains
<1> QED
  BY <1>1, <1>2

\* list_delete_entry unlinks p, wherever it is, and moves nobody else.
LEMMA DeleteProperties ==
  ASSUME NEW H, NEW S, NEW Q \in [H -> Seq(S)], LinkedOnce(Q), NEW p
  PROVE  LET D == list_delete_entry(Q, p)
         IN  /\ D \in [H -> Seq(S)]
             /\ LinkedOnce(D)
             /\ \A h \in H : \A q : On(D, h, q) <=> q # p /\ On(Q, h, q)
             /\ \A h \in H : Q[h] # <<>> /\ Q[h][1] # p => D[h] # <<>> /\ D[h][1] = Q[h][1]
<1> DEFINE D == list_delete_entry(Q, p)
<1>1. \A h \in H : \A i, j \in 1 .. Len(Q[h]) : Q[h][i] = Q[h][j] => i = j
  BY DEF LinkedOnce
<1>2. ASSUME NEW h \in H
      PROVE  /\ D[h] \in Seq(S)
             /\ \A i, j \in 1 .. Len(D[h]) : D[h][i] = D[h][j] => i = j
             /\ \A q : Contains(D[h], q) <=> q # p /\ Contains(Q[h], q)
             /\ Q[h] # <<>> /\ Q[h][1] # p => D[h] # <<>> /\ D[h][1] = Q[h][1]
  <2>1. D[h] = RemoveFirst(Q[h], p)
    BY DEF list_delete_entry
  <2>2. Q[h] \in Seq(S) /\ \A i, j \in 1 .. Len(Q[h]) : Q[h][i] = Q[h][j] => i = j
    BY <1>1
  <2> HIDE DEF D
  <2> QED
    BY <2>1, <2>2, RemoveFirstProperties, SMTT(30)
<1>3. D \in [H -> Seq(S)]
  BY <1>2 DEF list_delete_entry
<1> HIDE DEF D
<1>4. LinkedOnce(D)
  <2> SUFFICES ASSUME NEW h \in H, NEW g \in H, NEW i \in 1 .. Len(D[h]),
                      NEW j \in 1 .. Len(D[g]), D[h][i] = D[g][j]
               PROVE  h = g /\ i = j
    BY <1>3 DEF LinkedOnce
  <2>1. Contains(Q[h], D[h][i]) /\ Contains(Q[g], D[h][i])
    <3>1. Contains(D[h], D[h][i]) /\ Contains(D[g], D[h][i])
      BY DEF Contains
    <3> QED
      BY <1>2, <3>1
  <2>2. h = g
    BY <2>1 DEF LinkedOnce, Contains
  <2> QED
    BY <1>2, <2>2
<1> QED
  BY <1>2, <1>3, <1>4, Zenon DEF On, D

\* list_add_tail links p, which must be on no list, behind the others.
LEMMA AddProperties ==
  ASSUME NEW H, NEW S, NEW Q \in [H -> Seq(S)], LinkedOnce(Q),
         NEW p \in S, NEW h \in H, \A g \in H : ~ On(Q, g, p)
  PROVE  LET A == list_add_tail(Q, p, h)
         IN  /\ A \in [H -> Seq(S)]
             /\ LinkedOnce(A)
             /\ \A g \in H : \A q : On(A, g, q) <=> On(Q, g, q) \/ (g = h /\ q = p)
             /\ \A g \in H : Q[g] # <<>> => A[g] # <<>> /\ A[g][1] = Q[g][1]
<1> DEFINE A == list_add_tail(Q, p, h)
<1>1. A \in [H -> Seq(S)] /\ \A g \in H \ {h} : A[g] = Q[g]
  BY DEF list_add_tail
<1>2. /\ Len(A[h]) = Len(Q[h]) + 1
      /\ \A i \in 1 .. Len(Q[h]) : A[h][i] = Q[h][i]
      /\ A[h][Len(Q[h]) + 1] = p
  BY DEF list_add_tail
<1> HIDE DEF A
<1>3. \A g \in H : \A q : On(A, g, q) <=> On(Q, g, q) \/ (g = h /\ q = p)
  <2> SUFFICES ASSUME NEW g \in H, NEW q PROVE On(A, g, q) <=> On(Q, g, q) \/ (g = h /\ q = p)
    OBVIOUS
  <2>1. CASE g = h
    <3>1. ASSUME NEW i \in 1 .. Len(A[h]) PROVE i \in 1 .. Len(Q[h]) \/ i = Len(Q[h]) + 1
      BY <1>2
    <3> QED
      BY <1>1, <1>2, <2>1, <3>1 DEF On, Contains
  <2>2. CASE g # h
    BY <1>1, <2>2 DEF On
  <2> QED
    BY <2>1, <2>2
<1>4. LinkedOnce(A)
  <2> SUFFICES ASSUME NEW f \in H, NEW g \in H, NEW i \in 1 .. Len(A[f]),
                      NEW j \in 1 .. Len(A[g]), A[f][i] = A[g][j]
               PROVE  f = g /\ i = j
    BY <1>1 DEF LinkedOnce
  <2>1. \A g2 \in H : \A k \in 1 .. Len(A[g2]) :
           \/ k \in 1 .. Len(Q[g2]) /\ A[g2][k] = Q[g2][k]
           \/ g2 = h /\ k = Len(Q[h]) + 1 /\ A[g2][k] = p
    BY <1>1, <1>2, SMTT(30)
  <2>2. \A g2 \in H : \A k \in 1 .. Len(Q[g2]) : Q[g2][k] # p
    BY DEF On, Contains
  <2>3. \A e1, e2 \in H : \A k \in 1 .. Len(Q[e1]), n \in 1 .. Len(Q[e2]) :
           Q[e1][k] = Q[e2][n] => e1 = e2 /\ k = n
    BY DEF LinkedOnce
  <2>4. \/ i \in 1 .. Len(Q[f]) /\ A[f][i] = Q[f][i]
        \/ f = h /\ i = Len(Q[h]) + 1 /\ A[f][i] = p
    BY <2>1
  <2>5. \/ j \in 1 .. Len(Q[g]) /\ A[g][j] = Q[g][j]
        \/ g = h /\ j = Len(Q[h]) + 1 /\ A[g][j] = p
    BY <2>1
  <2> QED
    BY <2>2, <2>3, <2>4, <2>5
<1>5. ASSUME NEW g \in H, Q[g] # <<>> PROVE A[g] # <<>> /\ A[g][1] = Q[g][1]
  <2>1. Len(Q[g]) \in Nat \ {0}
    BY <1>5, EmptySeq
  <2>2. Len(A[g]) > 0 /\ A[g][1] = Q[g][1]
    BY <1>1, <1>2, <2>1, SMTT(30)
  <2> QED
    BY <2>2, EmptySeq
<1> QED
  BY <1>1, <1>3, <1>4, <1>5, Zenon DEF A

\* Moved puts p on list h and nowhere else.
LEMMA MovedProperties ==
  ASSUME NEW H, NEW S, NEW Q \in [H -> Seq(S)], LinkedOnce(Q),
         NEW p \in S, NEW h \in H
  PROVE  LET M == Moved(Q, p, h)
         IN  /\ M \in [H -> Seq(S)]
             /\ LinkedOnce(M)
             /\ \A g \in H : \A q : On(M, g, q) <=> IF q = p THEN g = h ELSE On(Q, g, q)
             /\ \A g \in H : Q[g] # <<>> /\ Q[g][1] # p => M[g] # <<>> /\ M[g][1] = Q[g][1]
<1> DEFINE D == list_delete_entry(Q, p)
           M == Moved(Q, p, h)
<1>1. /\ D \in [H -> Seq(S)]
      /\ LinkedOnce(D)
      /\ \A g \in H : \A q : On(D, g, q) <=> q # p /\ On(Q, g, q)
      /\ \A g \in H : Q[g] # <<>> /\ Q[g][1] # p => D[g] # <<>> /\ D[g][1] = Q[g][1]
  BY DeleteProperties, Zenon
<1>2. M = list_add_tail(D, p, h)
  BY DEF Moved
<1> HIDE DEF D, M
<1>3. \A g \in H : ~ On(D, g, p)
  BY <1>1
<1>4. /\ M \in [H -> Seq(S)]
      /\ LinkedOnce(M)
      /\ \A g \in H : \A q : On(M, g, q) <=> On(D, g, q) \/ (g = h /\ q = p)
      /\ \A g \in H : D[g] # <<>> => M[g] # <<>> /\ M[g][1] = D[g][1]
  BY <1>1, <1>2, <1>3, AddProperties
<1>5. \A g \in H : \A q : On(M, g, q) <=> IF q = p THEN g = h ELSE On(Q, g, q)
  BY <1>1, <1>4
<1>6. \A g \in H : Q[g] # <<>> /\ Q[g][1] # p => M[g] # <<>> /\ M[g][1] = Q[g][1]
  BY <1>1, <1>4
<1> QED
  BY <1>4, <1>5, <1>6, Zenon DEF M

\* Drained moves the entries of h, all of them, to g.
LEMMA DrainedProperties ==
  ASSUME NEW H, NEW S, NEW Q \in [H -> Seq(S)], LinkedOnce(Q),
         NEW h \in H, NEW g \in H, h # g
  PROVE  LET M == Drained(Q, h, g)
         IN  /\ M \in [H -> Seq(S)]
             /\ LinkedOnce(M)
             /\ \A f \in H : \A q : On(M, f, q) <=>
                   IF On(Q, h, q) THEN f = g ELSE On(Q, f, q)
             /\ Q[g] # <<>> => M[g] # <<>> /\ M[g][1] = Q[g][1]
             /\ M[h] = <<>>
<1> DEFINE M == Drained(Q, h, g)
<1>0. Q[g] \o Q[h] \in Seq(S) /\ <<>> \in Seq(S)
  BY ConcatProperties
<1>1. /\ M \in [H -> Seq(S)]
      /\ M[g] = Q[g] \o Q[h] /\ M[h] = <<>>
      /\ \A f \in H \ {g, h} : M[f] = Q[f]
  BY <1>0 DEF Drained
<1> HIDE DEF M
<1>2. /\ Len(M[g]) = Len(Q[g]) + Len(Q[h])
      /\ \A i \in 1 .. Len(M[g]) : M[g][i] = IF i <= Len(Q[g]) THEN Q[g][i] ELSE Q[h][i - Len(Q[g])]
  BY <1>1, ConcatProperties
<1>3. \A f \in H : \A i \in 1 .. Len(M[f]) :
         \/ f # h /\ i \in 1 .. Len(Q[f]) /\ M[f][i] = Q[f][i]
         \/ f = g /\ i - Len(Q[g]) \in 1 .. Len(Q[h]) /\ M[f][i] = Q[h][i - Len(Q[g])]
  <2> SUFFICES ASSUME NEW f \in H, NEW i \in 1 .. Len(M[f])
               PROVE  \/ f # h /\ i \in 1 .. Len(Q[f]) /\ M[f][i] = Q[f][i]
                      \/ /\ f = g /\ i - Len(Q[g]) \in 1 .. Len(Q[h])
                         /\ M[f][i] = Q[h][i - Len(Q[g])]
    OBVIOUS
  <2>1. CASE f = h
    BY <1>1, <2>1, EmptySeq
  <2>2. CASE f = g
    <3>1. Len(Q[g]) \in Nat /\ Len(Q[h]) \in Nat /\ i \in 1 .. (Len(Q[g]) + Len(Q[h]))
      BY <1>2, <2>2
    <3>2. CASE i <= Len(Q[g])
      BY <1>2, <2>2, <3>1, <3>2
    <3>3. CASE ~ (i <= Len(Q[g]))
      BY <1>2, <2>2, <3>1, <3>3
    <3> QED
      BY <3>2, <3>3
  <2>3. CASE f \in H \ {g, h}
    BY <1>1, <2>3
  <2> QED
    BY <2>1, <2>2, <2>3
<1>4. /\ \A f \in H \ {h} : \A i \in 1 .. Len(Q[f]) : i \in 1 .. Len(M[f]) /\ M[f][i] = Q[f][i]
      /\ \A i \in 1 .. Len(Q[h]) : i + Len(Q[g]) \in 1 .. Len(M[g]) /\ M[g][i + Len(Q[g])] = Q[h][i]
  <2>1. ASSUME NEW f \in H \ {h}, NEW i \in 1 .. Len(Q[f])
        PROVE  i \in 1 .. Len(M[f]) /\ M[f][i] = Q[f][i]
    <3>1. CASE f # g
      BY <1>1, <3>1
    <3>2. CASE f = g
      <4>1. Len(Q[g]) \in Nat /\ Len(Q[h]) \in Nat
        OBVIOUS
      <4>2. i \in 1 .. Len(M[g]) /\ i <= Len(Q[g])
        BY <1>2, <3>2, <4>1
      <4> QED
        BY <1>2, <3>2, <4>2
    <3> QED
      BY <3>1, <3>2
  <2>2. ASSUME NEW i \in 1 .. Len(Q[h])
        PROVE  i + Len(Q[g]) \in 1 .. Len(M[g]) /\ M[g][i + Len(Q[g])] = Q[h][i]
    <3>1. Len(Q[g]) \in Nat /\ Len(Q[h]) \in Nat
      OBVIOUS
    <3>2. i + Len(Q[g]) \in 1 .. Len(M[g]) /\ ~ (i + Len(Q[g]) <= Len(Q[g]))
             /\ (i + Len(Q[g])) - Len(Q[g]) = i
      BY <1>2, <3>1
    <3> QED
      BY <1>2, <3>2
  <2> QED
    BY <2>1, <2>2
<1>5. LinkedOnce(M)
  <2>0. DOMAIN M = H /\ \A f \in H : DOMAIN M[f] = 1 .. Len(M[f])
    BY <1>1
  <2> SUFFICES ASSUME NEW e \in DOMAIN M, NEW i \in DOMAIN M[e],
                      NEW f \in DOMAIN M, NEW j \in DOMAIN M[f], M[e][i] = M[f][j]
               PROVE  e = f /\ i = j
    BY DEF LinkedOnce
  <2> e \in H /\ f \in H /\ i \in 1 .. Len(M[e]) /\ j \in 1 .. Len(M[f])
    BY <2>0
  <2>1. \A e1, e2 \in H : \A k \in 1 .. Len(Q[e1]), n \in 1 .. Len(Q[e2]) :
           Q[e1][k] = Q[e2][n] => e1 = e2 /\ k = n
    BY DEF LinkedOnce
  <2>2. /\ \A e1 \in H : Len(Q[e1]) \in Nat
        /\ i \in Int /\ j \in Int
    BY <1>1
  <2>3. CASE e # h /\ i \in 1 .. Len(Q[e]) /\ M[e][i] = Q[e][i]
    <3>1. CASE f # h /\ j \in 1 .. Len(Q[f]) /\ M[f][j] = Q[f][j]
      <4>1. Q[e][i] = Q[f][j]
        BY <2>3, <3>1
      <4> QED
        BY <2>1, <2>3, <3>1, <4>1
    <3>2. CASE f = g /\ j - Len(Q[g]) \in 1 .. Len(Q[h]) /\ M[f][j] = Q[h][j - Len(Q[g])]
      <4>1. Q[e][i] = Q[h][j - Len(Q[g])]
        BY <2>3, <3>2
      <4>2. e = h
        BY <2>1, <2>3, <3>2, <4>1
      <4> QED
        BY <2>3, <4>2
    <3> QED
      BY <1>3, <3>1, <3>2
  <2>4. CASE e = g /\ i - Len(Q[g]) \in 1 .. Len(Q[h]) /\ M[e][i] = Q[h][i - Len(Q[g])]
    <3>1. CASE f # h /\ j \in 1 .. Len(Q[f]) /\ M[f][j] = Q[f][j]
      BY <2>1, <2>4, <3>1
    <3>2. CASE f = g /\ j - Len(Q[g]) \in 1 .. Len(Q[h]) /\ M[f][j] = Q[h][j - Len(Q[g])]
      <4>1. i - Len(Q[g]) = j - Len(Q[g])
        BY <2>1, <2>4, <3>2
      <4> QED
        BY <2>2, <2>4, <3>2, <4>1
    <3> QED
      BY <1>3, <3>1, <3>2
  <2> QED
    BY <1>3, <2>3, <2>4
<1>6. ASSUME NEW f \in H, NEW q
      PROVE  On(M, f, q) <=> IF On(Q, h, q) THEN f = g ELSE On(Q, f, q)
  <2>1. On(M, f, q) => IF On(Q, h, q) THEN f = g ELSE On(Q, f, q)
    <3> SUFFICES ASSUME NEW i \in 1 .. Len(M[f]), M[f][i] = q
                 PROVE  IF On(Q, h, q) THEN f = g ELSE On(Q, f, q)
      BY DEF On, Contains
    <3>1. CASE f # h /\ i \in 1 .. Len(Q[f]) /\ M[f][i] = Q[f][i]
      BY <3>1 DEF On, Contains, LinkedOnce
    <3>2. CASE f = g /\ i - Len(Q[g]) \in 1 .. Len(Q[h]) /\ M[f][i] = Q[h][i - Len(Q[g])]
      BY <3>2 DEF On, Contains
    <3> QED
      BY <1>3, <3>1, <3>2
  <2>2. ASSUME On(Q, h, q), f = g PROVE On(M, f, q)
    <3>1. PICK i \in 1 .. Len(Q[h]) : Q[h][i] = q
      BY <2>2 DEF On, Contains
    <3> QED
      BY <1>4, <2>2, <3>1 DEF On, Contains
  <2>3. ASSUME ~ On(Q, h, q), On(Q, f, q) PROVE On(M, f, q)
    <3>1. PICK i \in 1 .. Len(Q[f]) : Q[f][i] = q
      BY <2>3 DEF On, Contains
    <3>2. f # h
      BY <2>3
    <3> QED
      BY <1>4, <3>1, <3>2 DEF On, Contains
  <2> QED
    BY <2>1, <2>2, <2>3
<1>7. Q[g] # <<>> => M[g] # <<>> /\ M[g][1] = Q[g][1]
  BY <1>1, <1>2
<1> QED
  BY <1>1, <1>5, <1>6, <1>7, Zenon DEF M

-----------------------------------------------------------------------------
(* The invariant *)

AllLists == [ListHead -> Seq(Pcb)]

Linked(L, p) == \E h \in ListHead : On(L, h, p)

\* AllLists L, statuses S and pids P agree; the tasks X are being torn down.
Sound(L, S, P, X) ==
  /\ L \in AllLists
  /\ S \in [Pcb -> Status]
  /\ LinkedOnce(L)
  /\ \A p \in Pcb, h \in ListHead :
       On(L, h, p) => /\ P[p] # 0
                      /\ S[p] # "EXITED"
                      /\ h = ready_queue <=> S[p] \in {"READY", "RUNNING"}
  /\ \A p, q \in Pcb : On(L, wait_list(p), q) => P[p] # 0
  /\ \A p \in Pcb \cap X : P[p] # 0 /\ S[p] = "EXITED"
  /\ \A p \in Pcb \ X : P[p] # 0 => Linked(L, p)

\* ... and they agree with the tasks R[c] that the harts run.
Runs(L, S, P, R, X) ==
  /\ \A p \in Pcb : S[p] = "RUNNING" => \E d \in Cpu : R[d] = p
  /\ \A d \in Cpu : R[d] \in Pcb => P[R[d]] # 0 /\ (S[R[d]] = "RUNNING" \/ R[d] \in X)
  /\ R[1] = NULL /\ R[0] \in Pcb \ X => L[ready_queue] # <<>> /\ L[ready_queue][1] = R[0]

\* A list on which a task may block.
Blocker(P, h) ==
  h \in ListHead \ {ready_queue} /\ \A p \in Pcb : h = wait_list(p) => P[p] # 0

\* Each hart runs a task of its own, and hart 0 always runs one.
Harts(R) ==
  /\ R \in [Cpu -> Task \cup {NULL}]
  /\ \A d \in Cpu : R[d] \in Pcb \cup {pid0_pcb(d), NULL}
  /\ R[0] # NULL
  /\ \A c, d \in Cpu : R[c] = R[d] /\ R[c] # NULL => c = d

\* Where tasks may resume while nothing is torn down and hart c is in the kernel.
Resumes(K) ==
  /\ K \in [Task -> Cont]
  /\ \A t \in Task : /\ K[t].op \notin {"exit", "kill"}
                     /\ K[t].op \notin {"user", "sched"} => t \in Pcb
                     /\ K[t].op = "acquire" => K[t].x \in Mutex

Others(c, K, R) == \A d \in Cpu \ {c} : R[d] # NULL => K[R[d]].op = "user"

\* The part of the invariant that the scheduler is responsible for.
Core ==
  /\ kernel_spin_lock \in Cpu \cup {UNLOCKED}
  /\ runnings \in [Cpu -> Task \cup {NULL}]
  /\ status \in [Pcb -> Status]
  /\ list \in AllLists
  /\ cont \in [Task -> Cont]
  /\ TaskPlacement /\ OneHart /\ KernelLock /\ WaitersLive
  /\ HartPart /\ ContPart /\ TearPart /\ BootPart

\* The same tasks have exited.
Same(S, T) == \A p \in Pcb : S[p] = "EXITED" <=> T[p] = "EXITED"

-----------------------------------------------------------------------------
(* The list heads *)

\* The list heads of sched.c, lock.c and net.c are distinct objects.
LEMMA HeadsDiffer ==
  /\ ready_queue \in ListHead /\ sleep_queue \in ListHead
  /\ send_block_queue \in ListHead /\ recv_block_queue \in ListHead
  /\ \A p \in Pcb : wait_list(p) \in ListHead
  /\ \A m \in Mutex : block_queue(m) \in ListHead
  /\ \A b \in Barrier : block_list(b) \in ListHead
  /\ \A k \in Condition : cond_list(k) \in ListHead
  /\ \A b \in Mbox : send_list(b) \in ListHead /\ recv_list(b) \in ListHead
  /\ ready_queue # sleep_queue /\ ready_queue # send_block_queue
  /\ ready_queue # recv_block_queue /\ send_block_queue # recv_block_queue
  /\ \A i : ready_queue # wait_list(i) /\ ready_queue # block_queue(i)
  /\ \A i : ready_queue # block_list(i) /\ ready_queue # cond_list(i)
  /\ \A i : ready_queue # send_list(i) /\ ready_queue # recv_list(i)
  /\ \A i, j : wait_list(i) = wait_list(j) => i = j
  /\ \A i : /\ wait_list(i) # sleep_queue /\ wait_list(i) # send_block_queue
            /\ wait_list(i) # recv_block_queue
  /\ \A i, j : /\ wait_list(i) # block_queue(j) /\ wait_list(i) # block_list(j)
               /\ wait_list(i) # cond_list(j) /\ wait_list(i) # send_list(j)
               /\ wait_list(i) # recv_list(j)
  BY DEF ListHead, ready_queue, sleep_queue, send_block_queue, recv_block_queue,
         wait_list, block_queue, block_list, cond_list, send_list, recv_list

\* The lists on which the system calls block their task.
LEMMA Blockers ==
  ASSUME NEW P
  PROVE  /\ Blocker(P, sleep_queue)
         /\ Blocker(P, send_block_queue)
         /\ Blocker(P, recv_block_queue)
         /\ \A p \in Pcb : P[p] # 0 => Blocker(P, wait_list(p))
         /\ \A m \in Mutex : Blocker(P, block_queue(m))
         /\ \A b \in Barrier : Blocker(P, block_list(b))
         /\ \A k \in Condition : Blocker(P, cond_list(k))
         /\ \A b \in Mbox : Blocker(P, send_list(b)) /\ Blocker(P, recv_list(b))
  BY HeadsDiffer DEF Blocker

-----------------------------------------------------------------------------
(* The list operations *)

\* What Moved does to Sound and to Runs: p goes to ready_queue and is ready, or
\* to another list and is blocked.
LEMMA SoundMoved ==
  ASSUME NEW L, NEW S, NEW P, NEW X, Sound(L, S, P, X),
         NEW p \in Pcb, Linked(L, p),
         NEW h, h = ready_queue \/ Blocker(P, h)
  PROVE  LET M == Moved(L, p, h)
             T == [S EXCEPT ![p] = IF h = ready_queue THEN "READY" ELSE "BLOCKED"]
         IN  /\ Sound(M, T, P, X)
             /\ Same(S, T)
             /\ L[ready_queue] # <<>> /\ L[ready_queue][1] # p =>
                  M[ready_queue] # <<>> /\ M[ready_queue][1] = L[ready_queue][1]
<1> DEFINE M == Moved(L, p, h)
           v == IF h = ready_queue THEN "READY" ELSE "BLOCKED"
           T == [S EXCEPT ![p] = v]
<1>1. /\ L \in [ListHead -> Seq(Pcb)] /\ LinkedOnce(L)
      /\ S \in [Pcb -> Status] /\ h \in ListHead
  BY HeadsDiffer DEF Sound, Blocker, AllLists
<1>2. /\ M \in AllLists
      /\ LinkedOnce(M)
      /\ \A g \in ListHead : \A q : On(M, g, q) <=> IF q = p THEN g = h ELSE On(L, g, q)
      /\ \A g \in ListHead : L[g] # <<>> /\ L[g][1] # p => M[g] # <<>> /\ M[g][1] = L[g][1]
  BY <1>1, MovedProperties DEF AllLists
<1>3. P[p] # 0 /\ S[p] # "EXITED" /\ p \notin X
  BY DEF Sound, Linked
<1>4. /\ T \in [Pcb -> Status] /\ v # "EXITED"
      /\ v \in {"READY", "RUNNING"} <=> h = ready_queue
      /\ \A q \in Pcb : T[q] = IF q = p THEN v ELSE S[q]
  BY <1>1 DEF Status
<1> HIDE DEF M, T, v
<1>5. \A q \in Pcb, g \in ListHead :
        On(M, g, q) => /\ P[q] # 0
                       /\ T[q] # "EXITED"
                       /\ g = ready_queue <=> T[q] \in {"READY", "RUNNING"}
  BY <1>2, <1>3, <1>4 DEF Sound
<1>6. \A r, q \in Pcb : On(M, wait_list(r), q) => P[r] # 0
  BY <1>2, HeadsDiffer DEF Sound, Blocker
<1>7. \A q \in Pcb \cap X : P[q] # 0 /\ T[q] = "EXITED"
  BY <1>3, <1>4 DEF Sound
<1>8. \A q \in Pcb \ X : P[q] # 0 => Linked(M, q)
  BY <1>1, <1>2 DEF Sound, Linked
<1>9. Sound(M, T, P, X)
  BY <1>2, <1>4, <1>5, <1>6, <1>7, <1>8 DEF Sound
<1>10. Same(S, T)
  BY <1>3, <1>4 DEF Same
<1> QED
  BY <1>2, <1>9, <1>10, HeadsDiffer, Zenon DEF M, T, v

\* What unblocking a whole list does to Sound.
LEMMA SoundDrained ==
  ASSUME NEW L, NEW S, NEW P, NEW X, Sound(L, S, P, X),
         NEW h \in ListHead \ {ready_queue}
  PROVE  LET M == Drained(L, h, ready_queue)
             T == Readied(S, L, h)
         IN  /\ Sound(M, T, P, X)
             /\ Same(S, T)
             /\ \A p \in Pcb : ~ On(M, h, p)
             /\ L[ready_queue] # <<>> =>
                  M[ready_queue] # <<>> /\ M[ready_queue][1] = L[ready_queue][1]
<1> DEFINE M == Drained(L, h, ready_queue)
           T == Readied(S, L, h)
<1>1. /\ L \in [ListHead -> Seq(Pcb)] /\ LinkedOnce(L)
      /\ S \in [Pcb -> Status] /\ h \in ListHead /\ h # ready_queue
      /\ ready_queue \in ListHead
  BY HeadsDiffer DEF Sound, AllLists
<1>2. /\ M \in AllLists
      /\ LinkedOnce(M)
      /\ \A f \in ListHead : \A q : On(M, f, q) <=>
            IF On(L, h, q) THEN f = ready_queue ELSE On(L, f, q)
      /\ L[ready_queue] # <<>> =>
           M[ready_queue] # <<>> /\ M[ready_queue][1] = L[ready_queue][1]
  <2>1. /\ M \in [ListHead -> Seq(Pcb)]
        /\ LinkedOnce(M)
        /\ \A f \in ListHead : \A q : On(M, f, q) <=>
              IF On(L, h, q) THEN f = ready_queue ELSE On(L, f, q)
        /\ L[ready_queue] # <<>> => M[ready_queue] # <<>> /\ M[ready_queue][1] = L[ready_queue][1]
        /\ M[h] = <<>>
    BY <1>1, DrainedProperties, SMTT(60)
  <2> QED
    BY <2>1 DEF AllLists
<1>3. \A q \in Pcb : On(L, h, q) => P[q] # 0 /\ S[q] # "EXITED" /\ q \notin X
  BY DEF Sound
<1>4. /\ T \in [Pcb -> Status]
      /\ \A q \in Pcb : T[q] = IF On(L, h, q) THEN "READY" ELSE S[q]
  BY <1>1 DEF Status, Readied
<1> HIDE DEF M, T
<1>5. \A q \in Pcb, g \in ListHead :
        On(M, g, q) => /\ P[q] # 0
                       /\ T[q] # "EXITED"
                       /\ g = ready_queue <=> T[q] \in {"READY", "RUNNING"}
  BY <1>2, <1>3, <1>4 DEF Sound
<1>6. \A r, q \in Pcb : On(M, wait_list(r), q) => P[r] # 0
  BY <1>2, HeadsDiffer DEF Sound
<1>7. \A q \in Pcb \cap X : P[q] # 0 /\ T[q] = "EXITED"
  BY <1>3, <1>4 DEF Sound
<1>8. \A q \in Pcb \ X : P[q] # 0 => Linked(M, q)
  BY <1>1, <1>2, HeadsDiffer DEF Sound, Linked
<1>9. Sound(M, T, P, X)
  BY <1>2, <1>4, <1>5, <1>6, <1>7, <1>8 DEF Sound
<1>10. Same(S, T)
  BY <1>3, <1>4 DEF Same
<1>11. \A p \in Pcb : ~ On(M, h, p)
  BY <1>2
<1> QED
  BY <1>2, <1>9, <1>10, <1>11, Zenon DEF M, T

-----------------------------------------------------------------------------
(* Into the kernel and out of it *)

\* The idle tasks are no slots of pcb[], and each hart has its own.
LEMMA TaskFacts ==
  /\ Pcb \subseteq Nat /\ Pcb \subseteq Task /\ NULL \notin Task
  /\ \A c \in Cpu : pid0_pcb(c) \in Task /\ pid0_pcb(c) \notin Pcb /\ pid0_pcb(c) # NULL
  /\ \A c, d \in Cpu : pid0_pcb(c) = pid0_pcb(d) => c = d
  /\ UNLOCKED \notin Cpu /\ 0 \in Cpu /\ 1 \in Cpu /\ 0 \in Pcb
  BY KernelAssumption DEF Pcb, Task, NULL, pid0_pcb, Cpu, UNLOCKED

\* A hart that enters the kernel, or goes on in it with nothing torn down, finds
\* lists, statuses, slots and harts in agreement.
LEMMA CoreElim ==
  ASSUME Core, NEW c \in Cpu,
         Trap(c) \/ \E op \in Op \ {"exit", "kill"} : InKernel(c, op)
  PROVE  /\ Sound(list, status, pid, {})
         /\ Runs(list, status, pid, runnings, {})
         /\ Harts(runnings)
         /\ Resumes(cont)
         /\ Others(c, cont, runnings)
         /\ runnings[c] \in Task /\ runnings[c] # NULL
         /\ runnings[c] = pid0_pcb(c) \/ runnings[c] \in Pcb
<1>1. runnings[c] \in Task /\ runnings[c] # NULL
  BY TaskFacts DEF Trap, InKernel, Core, HartPart
<1>2. \A t \in Task : cont[t].op \notin {"exit", "kill"}
  <2> SUFFICES ASSUME NEW t \in Task, cont[t].op \in {"exit", "kill"}
               PROVE  FALSE
    OBVIOUS
  <2>1. PICK d \in Cpu : kernel_spin_lock = d /\ runnings[d] = t
    BY DEF Core, ContPart
  <2> QED
    BY <2>1, TaskFacts DEF Trap, InKernel
<1>3. \A p \in Pcb : ~ Dying(p)
  BY <1>2, TaskFacts DEF Dying, InKernel, Core, HartPart
<1>4. Sound(list, status, pid, {})
  BY <1>3 DEF Sound, Core, TaskPlacement, WaitersLive, Linked
<1>5. \A d \in Cpu : ~ InKernel(d, "exit")
  BY <1>2, TaskFacts DEF InKernel, Core, HartPart
<1>6. Runs(list, status, pid, runnings, {})
  BY <1>5, TaskFacts DEF Runs, Core, OneHart, BootPart
<1>7. Harts(runnings)
  BY DEF Harts, Core, HartPart, OneHart
<1>8. Resumes(cont)
  BY <1>2 DEF Resumes, Core, ContPart
<1>9. Others(c, cont, runnings)
  BY TaskFacts DEF Others, Core, KernelLock, Trap, InKernel
<1> QED
  BY <1>1, <1>4, <1>6, <1>7, <1>8, <1>9 DEF Harts

\* ... and leaves them so: the hart is in the kernel iff its task has something
\* left to do there.
LEMMA CoreIntro ==
  ASSUME NEW c \in Cpu,
         Sound(list', status', pid', {}),
         Runs(list', status', pid', runnings', {}),
         Harts(runnings'), Resumes(cont'), Others(c, cont', runnings'),
         runnings'[c] # NULL,
         kernel_spin_lock' = IF cont'[runnings'[c]].op = "user" THEN UNLOCKED ELSE c
  PROVE  Core'
<1>1. /\ kernel_spin_lock' \in Cpu \cup {UNLOCKED}
      /\ runnings' \in [Cpu -> Task \cup {NULL}]
      /\ status' \in [Pcb -> Status]
      /\ list' \in AllLists
      /\ cont' \in [Task -> Cont]
  BY DEF Sound, Harts, Resumes
<1>2. TaskPlacement'
  BY DEF TaskPlacement, Sound, Linked
<1>3. OneHart'
  BY DEF OneHart, Harts, Runs
<1>4. KernelLock'
  BY <1>1, TaskFacts DEF KernelLock, Others
<1>5. WaitersLive'
  BY DEF WaitersLive, Sound
<1>6. HartPart'
  BY TaskFacts DEF HartPart, Harts
<1>7. ContPart'
  BY DEF ContPart, Resumes
<1>8. TearPart'
  BY DEF TearPart, Resumes
<1>9. BootPart'
  BY DEF BootPart, Runs
<1> QED
  BY <1>1, <1>2, <1>3, <1>4, <1>5, <1>6, <1>7, <1>8, <1>9 DEF Core

\* Hart c returns to user mode, or stays in the kernel, in the same task.
LEMMA CoreSame ==
  ASSUME NEW c \in Cpu, NEW k \in Cont,
         Sound(list', status', pid', {}),
         Runs(list', status', pid', runnings, {}),
         Harts(runnings), Resumes(cont), Others(c, cont, runnings),
         runnings[c] \in Task,
         runnings' = runnings,
         cont' = [cont EXCEPT ![runnings[c]] = k],
         k.op \notin {"exit", "kill"},
         k.op \notin {"user", "sched"} => runnings[c] \in Pcb,
         k.op = "acquire" => k.x \in Mutex,
         kernel_spin_lock' = IF k.op = "user" THEN UNLOCKED ELSE c
  PROVE  Core'
<1>1. /\ cont' \in [Task -> Cont]
      /\ \A t \in Task : cont'[t] = IF t = runnings[c] THEN k ELSE cont[t]
  BY DEF Resumes
<1>2. Resumes(cont')
  BY <1>1 DEF Resumes
<1>3. Others(c, cont', runnings')
  BY <1>1 DEF Others, Harts
<1>4. runnings'[c] # NULL /\ cont'[runnings'[c]] = k
  BY <1>1, TaskFacts
<1> QED
  BY <1>2, <1>3, <1>4, CoreIntro

\* Hart c has given up its task: lists L, statuses S and pids P agree with what
\* the other harts run.
Vacant(c, L, S, P, R) ==
  /\ \A p \in Pcb : S[p] = "RUNNING" => \E d \in Cpu \ {c} : R[d] = p
  /\ \A d \in Cpu \ {c} : R[d] \in Pcb => P[R[d]] # 0 /\ S[R[d]] = "RUNNING"

\* find_idle_task takes a task that no hart runs.
LEMMA CoreSwitch ==
  ASSUME NEW c \in Cpu, NEW L, NEW S, NEW K,
         Sound(L, S, pid', {}), Vacant(c, L, S, pid', runnings),
         Harts(runnings), Resumes(K), Others(c, K, runnings),
         find_idle_task(c, L, S, K)
  PROVE  Core' /\ Same(S, status')
<1>1. PICK t \in Pcb \cup {pid0_pcb(c)} :
        /\ Idles(c, L, S, t)
        /\ list' = L
        /\ status' = SetStatus(S, t, "RUNNING")
        /\ runnings' = [runnings EXCEPT ![c] = t]
        /\ cont' = K
        /\ kernel_spin_lock' = IF K[t].op = "user" THEN UNLOCKED ELSE c
  BY DEF find_idle_task
<1>2. /\ t \in Task /\ t # NULL
      /\ runnings' \in [Cpu -> Task \cup {NULL}]
      /\ \A d \in Cpu : runnings'[d] = IF d = c THEN t ELSE runnings[d]
  BY <1>1, TaskFacts DEF Harts
<1>3. /\ status' \in [Pcb -> Status]
      /\ \A p \in Pcb : status'[p] = IF p = t THEN "RUNNING" ELSE S[p]
  BY <1>1 DEF SetStatus, Status, Sound
<1>4. t \in Pcb => On(L, ready_queue, t) /\ S[t] = "READY"
  <2> SUFFICES ASSUME t \in Pcb
               PROVE  On(L, ready_queue, t) /\ S[t] = "READY"
    OBVIOUS
  <2>1. PICK i \in DOMAIN L[ready_queue] : t = L[ready_queue][i] /\ S[t] # "RUNNING"
    BY <1>1, TaskFacts DEF Idles
  <2>2. L[ready_queue] \in Seq(Pcb) /\ DOMAIN L[ready_queue] = 1 .. Len(L[ready_queue])
    BY HeadsDiffer DEF Sound, AllLists
  <2>3. On(L, ready_queue, t)
    BY <2>1, <2>2 DEF On, Contains
  <2> QED
    BY <2>1, <2>3, HeadsDiffer DEF Sound
<1>5. Sound(list', status', pid', {})
  <2>1. \A p \in Pcb, h \in ListHead :
          On(list', h, p) => /\ pid'[p] # 0
                             /\ status'[p] # "EXITED"
                             /\ h = ready_queue <=> status'[p] \in {"READY", "RUNNING"}
    BY <1>1, <1>3, <1>4 DEF Sound
  <2> QED
    BY <1>1, <1>3, <2>1 DEF Sound
<1>6. Same(S, status')
  BY <1>3, <1>4 DEF Same
<1>7. t \in Pcb => pid'[t] # 0 /\ \A d \in Cpu \ {c} : runnings[d] # t
  BY <1>4, HeadsDiffer DEF Sound, Vacant
<1>8. Harts(runnings')
  <2>1. \A d \in Cpu \ {c} : runnings[d] # t
    BY <1>1, <1>7, TaskFacts DEF Harts
  <2> QED
    BY <1>1, <1>2, <2>1 DEF Harts
<1>9. Runs(list', status', pid', runnings', {})
  <2>1. \A p \in Pcb : status'[p] = "RUNNING" => \E d \in Cpu : runnings'[d] = p
    BY <1>2, <1>3 DEF Vacant
  <2>2. \A d \in Cpu : runnings'[d] \in Pcb =>
          pid'[runnings'[d]] # 0 /\ status'[runnings'[d]] = "RUNNING"
    BY <1>2, <1>3, <1>7 DEF Vacant
  <2>3. ASSUME runnings'[1] = NULL, runnings'[0] \in Pcb
        PROVE  list'[ready_queue] # <<>> /\ list'[ready_queue][1] = runnings'[0]
    <3>1. c = 0 /\ t \in Pcb /\ runnings'[0] = t
      BY <1>2, <2>3, TaskFacts DEF Cpu
    <3>2. \A p \in Pcb : S[p] # "RUNNING"
      BY <1>2, <2>3, <3>1, TaskFacts DEF Vacant, Cpu
    <3>3. PICK i \in DOMAIN L[ready_queue] :
            t = L[ready_queue][i] /\ \A j \in 1 .. (i - 1) : S[L[ready_queue][j]] = "RUNNING"
      BY <1>1, <3>1, TaskFacts DEF Idles
    <3>4. L[ready_queue] \in Seq(Pcb) /\ DOMAIN L[ready_queue] = 1 .. Len(L[ready_queue])
      BY HeadsDiffer DEF Sound, AllLists
    <3>5. i = 1
      <4> SUFFICES ASSUME i # 1 PROVE FALSE
        OBVIOUS
      <4>1. 1 \in 1 .. (i - 1) /\ L[ready_queue][1] \in Pcb
        BY <3>3, <3>4
      <4> QED
        BY <3>2, <3>3, <4>1
    <3> QED
      BY <1>1, <3>1, <3>3, <3>4, <3>5
  <2> QED
    BY <2>1, <2>2, <2>3 DEF Runs
<1>10. Others(c, cont', runnings')
  BY <1>1, <1>2 DEF Others
<1>11. runnings'[c] = t
  BY <1>2
<1> QED
  BY <1>1, <1>2, <1>5, <1>6, <1>8, <1>9, <1>10, <1>11, CoreIntro

\* do_block: the running task goes to list h, where it is blocked.
LEMMA CoreBlock ==
  ASSUME NEW c \in Cpu, NEW L, NEW S, NEW h, NEW k \in Cont,
         Sound(L, S, pid', {}), Runs(L, S, pid', runnings, {}),
         Harts(runnings), Resumes(cont), Others(c, cont, runnings),
         runnings[c] \in Pcb, Blocker(pid', h),
         k.op \notin {"exit", "kill"},
         k.op = "acquire" => k.x \in Mutex,
         do_block(c, L, S, h, k)
  PROVE  Core' /\ Same(S, status')
<1> DEFINE p == runnings[c]
           M == Moved(L, p, h)
           T == [S EXCEPT ![p] = "BLOCKED"]
           K == [cont EXCEPT ![p] = k]
<1>1. find_idle_task(c, M, T, K)
  BY DEF do_block
<1>2. Linked(L, p)
  BY DEF Sound, Runs
<1>3. h # ready_queue
  BY DEF Blocker
<1>4. Sound(M, T, pid', {}) /\ Same(S, T)
  <2> DEFINE V == [S EXCEPT ![p] = IF h = ready_queue THEN "READY" ELSE "BLOCKED"]
  <2>1. p \in Pcb
    OBVIOUS
  <2>2. Sound(M, V, pid', {}) /\ Same(S, V)
    <3> HIDE DEF p
    <3> QED
      BY <1>2, <2>1, SoundMoved
  <2>3. V = T
    BY <1>3
  <2> QED
    BY <2>2, <2>3
<1>5. /\ K \in [Task -> Cont]
      /\ \A t \in Task : K[t] = IF t = p THEN k ELSE cont[t]
  BY TaskFacts DEF Resumes
<1>6. \A q \in Pcb : T[q] = IF q = p THEN "BLOCKED" ELSE S[q]
  BY DEF Sound
<1> HIDE DEF M, T, K
<1>7. Vacant(c, M, T, pid', runnings)
  <2>1. \A d \in Cpu \ {c} : runnings[d] # p
    BY TaskFacts DEF Harts
  <2> QED
    BY <1>6, <2>1 DEF Vacant, Runs
<1>8. Resumes(K)
  BY <1>5 DEF Resumes
<1>9. Others(c, K, runnings)
  BY <1>5, TaskFacts DEF Others, Harts
<1>10. Core' /\ Same(T, status')
  BY <1>1, <1>4, <1>7, <1>8, <1>9, CoreSwitch
<1> QED
  BY <1>4, <1>10 DEF Same

-----------------------------------------------------------------------------
(* Waking tasks *)

\* do_unblock of a task that waits on list h.
LEMMA UnblockOne ==
  ASSUME NEW L, NEW S, NEW P, NEW R, NEW X, Sound(L, S, P, X), Runs(L, S, P, R, X),
         NEW p \in Pcb, NEW h \in ListHead \ {ready_queue}, On(L, h, p)
  PROVE  LET M == Moved(L, p, ready_queue)
             T == [S EXCEPT ![p] = "READY"]
         IN  Sound(M, T, P, X) /\ Runs(M, T, P, R, X) /\ Same(S, T)
<1> DEFINE M == Moved(L, p, ready_queue)
           T == [S EXCEPT ![p] = "READY"]
<1>1. Linked(L, p)
  BY DEF Linked
<1>2. /\ Sound(M, T, P, X) /\ Same(S, T)
      /\ L[ready_queue] # <<>> /\ L[ready_queue][1] # p =>
           M[ready_queue] # <<>> /\ M[ready_queue][1] = L[ready_queue][1]
  BY <1>1, SoundMoved
<1>3. S[p] # "RUNNING" /\ p \notin X
  BY DEF Sound
<1>4. \A q \in Pcb : T[q] = IF q = p THEN "READY" ELSE S[q]
  BY DEF Sound
<1> HIDE DEF M, T
<1>5. Runs(M, T, P, R, X)
  BY <1>2, <1>3, <1>4, TaskFacts DEF Runs
<1> QED
  BY <1>2, <1>5, Zenon DEF M, T

\* do_unblock of every task on list h.
LEMMA UnblockMany ==
  ASSUME NEW L, NEW S, NEW P, NEW R, NEW X, Sound(L, S, P, X), Runs(L, S, P, R, X),
         NEW h \in ListHead \ {ready_queue}
  PROVE  LET M == Drained(L, h, ready_queue)
             T == Readied(S, L, h)
         IN  /\ Sound(M, T, P, X) /\ Runs(M, T, P, R, X) /\ Same(S, T)
             /\ \A p \in Pcb : ~ On(M, h, p)
<1> DEFINE M == Drained(L, h, ready_queue)
           T == Readied(S, L, h)
<1>1. /\ Sound(M, T, P, X) /\ Same(S, T)
      /\ \A p \in Pcb : ~ On(M, h, p)
      /\ L[ready_queue] # <<>> =>
           M[ready_queue] # <<>> /\ M[ready_queue][1] = L[ready_queue][1]
  BY SoundDrained
<1>2. \A q \in Pcb : On(L, h, q) => S[q] # "RUNNING" /\ q \notin X
  BY DEF Sound
<1>3. \A q \in Pcb : T[q] = IF On(L, h, q) THEN "READY" ELSE S[q]
  BY DEF Readied
<1> HIDE DEF M, T
<1>4. Runs(M, T, P, R, X)
  BY <1>1, <1>2, <1>3, TaskFacts DEF Runs
<1> QED
  BY <1>1, <1>4, Zenon DEF M, T

\* do_mutex_lock_release unblocks at most one task.
LEMMA ReleaseSound ==
  ASSUME NEW X, NEW m \in Mutex, NEW p \in Pcb,
         Sound(list, status, pid, X), Runs(list, status, pid, runnings, X),
         SyncTypeOK, ProcessTypeOK
  PROVE  LET r == do_mutex_lock_release(m, p)
         IN  /\ Sound(r.lists, r.statuses, pid, X)
             /\ Runs(r.lists, r.statuses, pid, runnings, X)
             /\ Same(status, r.statuses)
             /\ r.mlocks \in [Mutex -> [lock : BOOLEAN, pid : Nat]]
             /\ r.holds \in [Mutex -> SUBSET Pcb]
<1> DEFINE r == do_mutex_lock_release(m, p)
           q == list[block_queue(m)]
<1>1. block_queue(m) \in ListHead \ {ready_queue}
  BY HeadsDiffer
<1>2. q \in Seq(Pcb)
  BY <1>1 DEF Sound, AllLists
<1>3. CASE q = <<>>
  <2>1. r = [lists |-> list, statuses |-> status,
             mlocks |-> [mlocks EXCEPT ![m] = [lock |-> FALSE, pid |-> 0]],
             holds |-> [holds EXCEPT ![m] = @ \ {p}]]
    BY <1>3 DEF do_mutex_lock_release
  <2>2. /\ r.lists = list /\ r.statuses = status
        /\ r.mlocks = [mlocks EXCEPT ![m] = [lock |-> FALSE, pid |-> 0]]
        /\ r.holds = [holds EXCEPT ![m] = @ \ {p}]
    BY <2>1
  <2> HIDE DEF r
  <2>3. Same(status, status)
    BY DEF Same
  <2>4. /\ r.mlocks \in [Mutex -> [lock : BOOLEAN, pid : Nat]]
        /\ r.holds \in [Mutex -> SUBSET Pcb]
    BY <2>2 DEF SyncTypeOK
  <2> QED
    BY <2>2, <2>3, <2>4, Zenon DEF r
<1>4. CASE q # <<>>
  <2>1. q[1] \in Pcb /\ On(list, block_queue(m), q[1])
    BY <1>2, <1>4 DEF On, Contains
  <2>2. r = [lists |-> Moved(list, q[1], ready_queue),
             statuses |-> [status EXCEPT ![q[1]] = "READY"],
             mlocks |-> [mlocks EXCEPT ![m].pid = pid[q[1]]],
             holds |-> [holds EXCEPT ![m] = (@ \ {p}) \cup {q[1]}]]
    BY <1>4 DEF do_mutex_lock_release
  <2>3. /\ r.lists = Moved(list, q[1], ready_queue)
        /\ r.statuses = [status EXCEPT ![q[1]] = "READY"]
        /\ r.mlocks = [mlocks EXCEPT ![m].pid = pid[q[1]]]
        /\ r.holds = [holds EXCEPT ![m] = (@ \ {p}) \cup {q[1]}]
    BY <2>2
  <2> HIDE DEF r, q
  <2>4. /\ Sound(r.lists, r.statuses, pid, X)
        /\ Runs(r.lists, r.statuses, pid, runnings, X)
        /\ Same(status, r.statuses)
    BY <1>1, <2>1, <2>3, UnblockOne
  <2>5. pid[q[1]] \in Nat
    BY <2>1, ProcessAssumption DEF ProcessTypeOK, Pid
  <2>6. /\ r.mlocks \in [Mutex -> [lock : BOOLEAN, pid : Nat]]
        /\ r.holds \in [Mutex -> SUBSET Pcb]
    BY <2>1, <2>3, <2>5 DEF SyncTypeOK
  <2> QED
    BY <2>4, <2>6, Zenon DEF r
<1> QED
  BY <1>3, <1>4

-----------------------------------------------------------------------------
(* Tearing a task down *)

\* Hart c is in do_exit or do_kill and has unlinked the task x.
Tearing(c, L, S, P, R, K, N) ==
  LET k == K[R[c]]
  IN  /\ K \in [Task -> Cont] /\ Harts(R) /\ R[c] \in Pcb
      /\ k.op \in {"exit", "kill"} /\ k.x \in Pcb /\ k.y \in 0 .. LOCK_NUM
      /\ Sound(L, S, P, {k.x}) /\ Runs(L, S, P, R, {k.x})
      /\ k.op = "exit" => k.x = R[c] /\ N[P[k.x]] = 0
      /\ k.op = "kill" => \A d \in Cpu : R[d] # k.x
      /\ Others(c, K, R)
      /\ \A t \in Task : t # R[c] => K[t].op \notin {"exit", "kill"}
      /\ \A t \in Task : t # R[c] => (K[t].op \notin {"user", "sched"} => t \in Pcb)
      /\ \A t \in Task : t # R[c] => (K[t].op = "acquire" => K[t].x \in Mutex)

\* A hart that goes on with do_exit or do_kill finds what it left there.
LEMMA TearElim ==
  ASSUME Core, NEW c \in Cpu, InKernel(c, "exit") \/ InKernel(c, "kill")
  PROVE  Tearing(c, list, status, pid, runnings, cont, threads)
<1> DEFINE t == runnings[c]
           k == cont[t]
<1>1. kernel_spin_lock = c /\ k.op \in {"exit", "kill"} /\ t \in Task /\ t # NULL
  BY TaskFacts DEF InKernel, Core, HartPart
<1>2. /\ t \in Pcb /\ k.x \in Pcb /\ k.y \in 0 .. LOCK_NUM
      /\ pid[k.x] # 0 /\ status[k.x] = "EXITED"
      /\ k.op = "exit" => k.x = t /\ threads[pid[k.x]] = 0
  BY <1>1 DEF Core, ContPart, TearPart
<1>3. Harts(runnings)
  BY DEF Harts, Core, HartPart, OneHart
<1>4. \A d \in Cpu : InKernel(d, "exit") => d = c /\ k.op = "exit"
  BY <1>1, TaskFacts DEF InKernel
<1>5. \A p \in Pcb : Dying(p) => p = k.x
  BY <1>1, TaskFacts DEF Dying, InKernel
<1>6. Sound(list, status, pid, {k.x})
  BY <1>2, <1>5 DEF Sound, Core, TaskPlacement, WaitersLive, Linked
<1>7. Runs(list, status, pid, runnings, {k.x})
  BY <1>2, <1>4, TaskFacts DEF Runs, Core, OneHart, BootPart
<1>8. k.op = "kill" => \A d \in Cpu : runnings[d] # k.x
  BY <1>2, <1>4 DEF Core, OneHart
<1>9. Others(c, cont, runnings)
  BY <1>1, TaskFacts DEF Others, Core, KernelLock
<1>10. \A u \in Task \ {t} : cont[u].op \notin {"exit", "kill"}
  BY <1>1 DEF Core, ContPart
<1> QED
  BY <1>1, <1>2, <1>3, <1>6, <1>7, <1>8, <1>9, <1>10 DEF Tearing, Core, ContPart

\* ... and the invariant allows it to be there.
LEMMA TearIntro ==
  ASSUME NEW c \in Cpu, kernel_spin_lock' = c,
         Tearing(c, list', status', pid', runnings', cont', threads')
  PROVE  Core'
<1> DEFINE t == runnings'[c]
           k == cont'[t]
<1>1. /\ t \in Pcb /\ k.op \in {"exit", "kill"} /\ k.x \in Pcb /\ k.y \in 0 .. LOCK_NUM
      /\ Sound(list', status', pid', {k.x}) /\ Runs(list', status', pid', runnings', {k.x})
      /\ k.op = "exit" => k.x = t /\ threads'[pid'[k.x]] = 0
      /\ k.op = "kill" => \A d \in Cpu : runnings'[d] # k.x
      /\ cont' \in [Task -> Cont] /\ Harts(runnings') /\ Others(c, cont', runnings')
  BY DEF Tearing
<1>0. /\ \A u \in Task : u # t => cont'[u].op \notin {"exit", "kill"}
      /\ \A u \in Task : u # t => (cont'[u].op \notin {"user", "sched"} => u \in Pcb)
      /\ \A u \in Task : u # t => (cont'[u].op = "acquire" => cont'[u].x \in Mutex)
  BY DEF Tearing
<1>2. /\ kernel_spin_lock' \in Cpu \cup {UNLOCKED}
      /\ runnings' \in [Cpu -> Task \cup {NULL}]
      /\ status' \in [Pcb -> Status]
      /\ list' \in AllLists
  BY <1>1 DEF Sound, Harts
<1>3. status'[k.x] = "EXITED" /\ pid'[k.x] # 0 /\ \A p \in Pcb : p = k.x => Dying(p)'
  BY <1>1 DEF Dying, InKernel, Sound
<1>4. TaskPlacement'
  BY <1>1, <1>3 DEF TaskPlacement, Sound, Linked
<1>5. OneHart'
  <2>1. \A d \in Cpu : runnings'[d] = k.x => InKernel(d, "exit")'
    BY <1>1, TaskFacts DEF InKernel, Harts
  <2> QED
    BY <1>1, <2>1 DEF OneHart, Harts, Runs
<1>6. KernelLock'
  BY <1>1, TaskFacts DEF KernelLock, Others
<1>7. WaitersLive'
  BY <1>1 DEF WaitersLive, Sound
<1>8. HartPart'
  BY <1>1, TaskFacts DEF HartPart, Harts
<1>9. ContPart'
  <2> SUFFICES ASSUME NEW u \in Task
               PROVE  /\ cont'[u].op \notin {"user", "sched"} => u \in Pcb
                      /\ cont'[u].op = "acquire" => cont'[u].x \in Mutex
                      /\ cont'[u].op \in {"exit", "kill"} =>
                           \E d \in Cpu : kernel_spin_lock' = d /\ runnings'[d] = u
    BY DEF ContPart
  <2>1. CASE u = t
    BY <1>1, <2>1
  <2>2. CASE u # t
    BY <1>0, <2>2
  <2> QED
    BY <2>1, <2>2
<1>10. TearPart'
  <2>1. \A u \in Task : cont'[u].op \in {"exit", "kill"} => u = t
    BY <1>0
  <2> QED
    BY <1>1, <1>3, <2>1 DEF TearPart
<1>11. BootPart'
  BY <1>1, <1>3 DEF BootPart, Runs
<1> QED
  BY <1>1, <1>2, <1>4, <1>5, <1>6, <1>7, <1>8, <1>9, <1>10, <1>11 DEF Core

\* release_pcb unlinks p, which has exited.
LEMMA SoundDeleted ==
  ASSUME NEW L, NEW S, NEW P, Sound(L, S, P, {}), NEW p \in Pcb, P[p] # 0
  PROVE  LET D == list_delete_entry(L, p)
             T == [S EXCEPT ![p] = "EXITED"]
         IN  /\ Sound(D, T, P, {p})
             /\ L[ready_queue] # <<>> /\ L[ready_queue][1] # p =>
                  D[ready_queue] # <<>> /\ D[ready_queue][1] = L[ready_queue][1]
<1> DEFINE D == list_delete_entry(L, p)
           T == [S EXCEPT ![p] = "EXITED"]
<1>1. L \in [ListHead -> Seq(Pcb)] /\ LinkedOnce(L)
  BY DEF Sound, AllLists
<1>2. /\ D \in [ListHead -> Seq(Pcb)]
      /\ LinkedOnce(D)
      /\ \A h \in ListHead : \A q : On(D, h, q) <=> q # p /\ On(L, h, q)
      /\ \A h \in ListHead : L[h] # <<>> /\ L[h][1] # p => D[h] # <<>> /\ D[h][1] = L[h][1]
  BY <1>1, DeleteProperties
<1>3. /\ T \in [Pcb -> Status]
      /\ \A q \in Pcb : T[q] = IF q = p THEN "EXITED" ELSE S[q]
  BY DEF Sound, Status
<1> HIDE DEF D, T
<1>4. \A q \in Pcb, h \in ListHead :
        On(D, h, q) => /\ P[q] # 0
                       /\ T[q] # "EXITED"
                       /\ h = ready_queue <=> T[q] \in {"READY", "RUNNING"}
  BY <1>2, <1>3 DEF Sound
<1>5. \A r, q \in Pcb : On(D, wait_list(r), q) => P[r] # 0
  BY <1>2, HeadsDiffer DEF Sound
<1>6. \A q \in Pcb \ {p} : P[q] # 0 => Linked(D, q)
  BY <1>2 DEF Sound, Linked
<1>7. Sound(D, T, P, {p})
  BY <1>2, <1>3, <1>4, <1>5, <1>6 DEF Sound, AllLists
<1> QED
  BY <1>2, <1>7, HeadsDiffer, Zenon DEF D, T

\* Marking the slot of x unused, once nobody waits for it, ends the teardown.
LEMMA SoundFreed ==
  ASSUME NEW L, NEW S, NEW P \in [Pcb -> Pid], NEW x \in Pcb, Sound(L, S, P, {x}),
         \A q \in Pcb : ~ On(L, wait_list(x), q)
  PROVE  Sound(L, S, [P EXCEPT ![x] = 0], {})
<1> DEFINE P0 == [P EXCEPT ![x] = 0]
<1>1. \A q \in Pcb : P0[q] = IF q = x THEN 0 ELSE P[q]
  OBVIOUS
<1> HIDE DEF P0
<1>2. \A h \in ListHead : ~ On(L, h, x)
  BY DEF Sound
<1>3. \A q \in Pcb, h \in ListHead :
        On(L, h, q) => /\ P0[q] # 0
                       /\ S[q] # "EXITED"
                       /\ h = ready_queue <=> S[q] \in {"READY", "RUNNING"}
  BY <1>1, <1>2 DEF Sound
<1>4. \A r, q \in Pcb : On(L, wait_list(r), q) => P0[r] # 0
  BY <1>1 DEF Sound
<1>5. \A q \in Pcb : P0[q] # 0 => Linked(L, q)
  BY <1>1 DEF Sound
<1>6. Sound(L, S, P0, {})
  BY <1>3, <1>4, <1>5 DEF Sound
<1> QED
  BY <1>6 DEF P0

-----------------------------------------------------------------------------
(* The thread counts *)

Alive(P, S, q) == {p \in Pcb : P[p] = q /\ S[p] # "EXITED"}

\* The threads of a process are finitely many: they have slots.
LEMMA AliveFinite ==
  ASSUME NEW P, NEW S, NEW q
  PROVE  IsFiniteSet(Alive(P, S, q)) /\ Cardinality(Alive(P, S, q)) \in Nat
<1>1. IsFiniteSet(Pcb)
  BY KernelAssumption, FS_Interval DEF Pcb
<1>2. Alive(P, S, q) \subseteq Pcb
  BY DEF Alive
<1>3. IsFiniteSet(Alive(P, S, q))
  BY <1>1, <1>2, FS_Subset
<1> QED
  BY <1>3, FS_CardinalityType

\* A step that changes no thread's life keeps the counts right.
LEMMA CountKept ==
  ASSUME ThreadCount, threads' = threads,
         \A q \in Pid \ {0} : Alive(pid', status', q) = Alive(pid, status, q)
  PROVE  ThreadCount'
  BY DEF ThreadCount, Alive

\* Scheduling, blocking and waking do not change the counts.
LEMMA CountSame ==
  ASSUME ThreadCount, threads' = threads, pid' = pid, Same(status, status')
  PROVE  ThreadCount'
<1>1. \A q \in Pid \ {0} : Alive(pid', status', q) = Alive(pid, status, q)
  BY DEF Alive, Same
<1> QED
  BY <1>1, CountKept

\* A new thread of process q in slot p.
LEMMA CountAdd ==
  ASSUME ThreadCount, ProcessTypeOK, NEW p \in Pcb, NEW q \in Pid \ {0}, pid[p] = 0,
         status \in [Pcb -> Status],
         pid' = [pid EXCEPT ![p] = q],
         status' = [status EXCEPT ![p] = "READY"],
         threads' = [threads EXCEPT ![q] = @ + 1]
  PROVE  ThreadCount'
<1>1. /\ \A r \in Pcb : pid'[r] = IF r = p THEN q ELSE pid[r]
      /\ \A r \in Pcb : status'[r] = IF r = p THEN "READY" ELSE status[r]
      /\ \A r \in Pid : threads'[r] = IF r = q THEN threads[q] + 1 ELSE threads[r]
  BY DEF ProcessTypeOK
<1>2. \A r \in Pid \ {0} : r # q => Alive(pid', status', r) = Alive(pid, status, r)
  BY <1>1 DEF Alive
<1>3. Alive(pid', status', q) = Alive(pid, status, q) \cup {p} /\ p \notin Alive(pid, status, q)
  BY <1>1 DEF Alive
<1>4. Cardinality(Alive(pid', status', q)) = Cardinality(Alive(pid, status, q)) + 1
  <2>1. IsFiniteSet(Alive(pid, status, q))
    BY AliveFinite
  <2>2. Cardinality(Alive(pid, status, q) \cup {p}) =
          IF p \in Alive(pid, status, q) THEN Cardinality(Alive(pid, status, q))
                                         ELSE Cardinality(Alive(pid, status, q)) + 1
    BY <2>1, FS_AddElement, Zenon
  <2> QED
    BY <1>3, <2>2
<1>5. \A r \in Pid \ {0} : threads[r] = Cardinality(Alive(pid, status, r))
  BY DEF ThreadCount, Alive
<1>6. \A r \in Pid \ {0} : threads'[r] = Cardinality(Alive(pid', status', r))
  BY <1>1, <1>2, <1>4, <1>5
<1> QED
  BY <1>6 DEF ThreadCount, Alive

\* Thread p, which was alive, has exited.
LEMMA CountRemove ==
  ASSUME ThreadCount, ProcessTypeOK, NEW p \in Pcb, pid[p] # 0, status[p] # "EXITED",
         status \in [Pcb -> Status],
         pid' = pid,
         status' = [status EXCEPT ![p] = "EXITED"],
         threads' = [threads EXCEPT ![pid[p]] = @ - 1]
  PROVE  ThreadCount' /\ threads[pid[p]] >= 1
<1> DEFINE q == pid[p]
<1>0. q \in Pid \ {0}
  BY DEF ProcessTypeOK
<1>1. /\ \A r \in Pcb : status'[r] = IF r = p THEN "EXITED" ELSE status[r]
      /\ \A r \in Pid : threads'[r] = IF r = q THEN threads[q] - 1 ELSE threads[r]
  BY DEF ProcessTypeOK
<1>2. \A r \in Pid \ {0} : r # q => Alive(pid', status', r) = Alive(pid, status, r)
  BY <1>1 DEF Alive
<1>3. Alive(pid', status', q) = Alive(pid, status, q) \ {p} /\ p \in Alive(pid, status, q)
  BY <1>1 DEF Alive
<1>4. /\ Cardinality(Alive(pid', status', q)) = Cardinality(Alive(pid, status, q)) - 1
      /\ Cardinality(Alive(pid', status', q)) \in Nat
  <2>1. /\ IsFiniteSet(Alive(pid, status, q))
        /\ Cardinality(Alive(pid', status', q)) \in Nat
    BY AliveFinite
  <2>2. Cardinality(Alive(pid, status, q) \ {p}) = Cardinality(Alive(pid, status, q)) - 1
    BY <1>3, <2>1, FS_RemoveElement
  <2> QED
    BY <1>3, <2>1, <2>2
<1>5. \A r \in Pid \ {0} : threads[r] = Cardinality(Alive(pid, status, r))
  BY DEF ThreadCount, Alive
<1>6. \A r \in Pid \ {0} : threads'[r] = Cardinality(Alive(pid', status', r))
  BY <1>0, <1>1, <1>2, <1>4, <1>5
<1>7. threads[q] >= 1
  BY <1>0, <1>4, <1>5, AliveFinite
<1>8. ThreadCount'
  BY <1>6 DEF ThreadCount, Alive
<1> QED
  BY <1>7, <1>8

-----------------------------------------------------------------------------
(* What the system calls and interrupts do. *)

\* The uses of the system calls for which the invariants are proved.
Admitted == Unsafe \subseteq {"thread_kill", "kill_at_barrier"}

\* What a step must preserve beside Core, ThreadCount and the mailboxes' type.
RestTypeOK ==
  /\ wakeup_time \in [Pcb -> Nat]
  /\ tx \in 0 .. TXDESCS
  /\ rx \in 0 .. RXDESCS
  /\ SyncTypeOK
  /\ ProcessTypeOK

\* The inductive invariant, regrouped.
Base == Core /\ RestTypeOK /\ ThreadCount

LEMMA InvParts == KernelInv <=> Base /\ MailTypeOK
  BY DEF KernelInv, TypeOK, StateTypeOK, Base, Core, RestTypeOK, AllLists

LEMMA InvPartsNext == KernelInv' <=> Base' /\ MailTypeOK'
  BY DEF KernelInv, TypeOK, StateTypeOK, Base, Core, RestTypeOK, AllLists

\* The continuations of the system calls.
LEMMA ContFacts ==
  /\ User \in Cont /\ User.op = "user" /\ Sched \in Cont /\ Sched.op = "sched"
  /\ \A n \in Int, m \in Int, op \in Op : [op |-> op, x |-> n, y |-> m] \in Cont
  BY DEF User, Sched, Cont, Op

-----------------------------------------------------------------------------
(* The scheduler *)

\* A system call is made by a task that has a slot and runs.
LEMMA CallerFacts ==
  ASSUME Core, NEW c \in Cpu, Syscall(c)
  PROVE  runnings[c] \in Pcb /\ pid[runnings[c]] # 0 /\ status[runnings[c]] = "RUNNING"
<1>1. Runs(list, status, pid, runnings, {}) /\ runnings[c] \in Pcb
  BY CoreElim DEF Syscall
<1> QED
  BY <1>1 DEF Runs

\* A timer interrupt, or yield.
LEMMA TimerCore ==
  ASSUME Core, NEW c \in Cpu, Timer(c), pid' = pid
  PROVE  Core' /\ Same(status, status')
<1>1. /\ Sound(list, status, pid, {}) /\ Runs(list, status, pid, runnings, {})
      /\ Harts(runnings) /\ Resumes(cont) /\ Others(c, cont, runnings)
      /\ runnings[c] \in Task
  BY CoreElim DEF Timer
<1>2. Core'
  BY <1>1, CoreSame, ContFacts DEF Timer
<1> QED
  BY <1>2 DEF Same, Timer

\* check_sleeping wakes a sleeper while do_scheduler runs.
LEMMA SleepingCore ==
  ASSUME Core, NEW c \in Cpu, check_sleeping(c), pid' = pid
  PROVE  Core' /\ Same(status, status')
<1>1. InKernel(c, "sched") /\ "sched" \in Op \ {"exit", "kill"}
  BY DEF check_sleeping, Op
<1>2. /\ Sound(list, status, pid, {}) /\ Runs(list, status, pid, runnings, {})
      /\ Harts(runnings) /\ Resumes(cont) /\ Others(c, cont, runnings)
      /\ runnings[c] \in Task
  BY <1>1, CoreElim
<1>3. PICK i \in DOMAIN list[sleep_queue] :
        /\ list' = Moved(list, list[sleep_queue][i], ready_queue)
        /\ status' = [status EXCEPT ![list[sleep_queue][i]] = "READY"]
  BY DEF check_sleeping
<1> DEFINE p == list[sleep_queue][i]
<1>4. p \in Pcb /\ On(list, sleep_queue, p)
  BY <1>2, HeadsDiffer DEF Sound, AllLists, On, Contains
<1>5. sleep_queue \in ListHead \ {ready_queue}
  BY HeadsDiffer
<1>6. /\ Sound(list', status', pid', {}) /\ Runs(list', status', pid', runnings, {})
      /\ Same(status, status')
  <2> HIDE DEF p
  <2>1. list' = Moved(list, p, ready_queue) /\ status' = [status EXCEPT ![p] = "READY"]
    BY <1>3 DEF p
  <2> QED
    BY <1>2, <1>4, <1>5, <2>1, UnblockOne
<1>7. /\ cont[runnings[c]] \in Cont /\ cont[runnings[c]].op = "sched"
      /\ cont' = [cont EXCEPT ![runnings[c]] = cont[runnings[c]]]
      /\ kernel_spin_lock' = c /\ runnings' = runnings
  BY <1>1, <1>2 DEF check_sleeping, InKernel, Resumes
<1> QED
  BY <1>2, <1>6, <1>7, CoreSame

\* check_net_send and check_net_recv keep lists, statuses and harts in
\* agreement.
LEMMA NetSound ==
  ASSUME Sound(list, status, pid, {}), Runs(list, status, pid, runnings, {})
  PROVE  /\ Sound(NetLists, NetStatus, pid, {})
         /\ Runs(NetLists, NetStatus, pid, runnings, {})
         /\ Same(status, NetStatus)
<1>1. ASSUME NEW L, NEW S, NEW h \in {send_block_queue, recv_block_queue},
             Sound(L, S, pid, {}), Runs(L, S, pid, runnings, {})
      PROVE  /\ Sound(NetCheck(L, h), NetReadied(S, L, h), pid, {})
             /\ Runs(NetCheck(L, h), NetReadied(S, L, h), pid, runnings, {})
             /\ Same(S, NetReadied(S, L, h))
  <2>1. CASE NetReady(h)
    <3>1. h \in ListHead \ {ready_queue}
      BY HeadsDiffer
    <3>2. NetCheck(L, h) = Drained(L, h, ready_queue) /\ NetReadied(S, L, h) = Readied(S, L, h)
      BY <2>1 DEF NetCheck, NetReadied
    <3> QED
      BY <1>1, <3>1, <3>2, UnblockMany
  <2>2. CASE ~ NetReady(h)
    BY <1>1, <2>2 DEF NetCheck, NetReadied, Same
  <2> QED
    BY <2>1, <2>2
<1> DEFINE L1 == NetCheck(list, send_block_queue)
           S1 == NetReadied(status, list, send_block_queue)
<1>2. Sound(L1, S1, pid, {}) /\ Runs(L1, S1, pid, runnings, {}) /\ Same(status, S1)
  BY <1>1
<1>3. NetLists = NetCheck(L1, recv_block_queue) /\ NetStatus = NetReadied(S1, L1, recv_block_queue)
  BY DEF NetLists, NetStatus
<1> HIDE DEF L1, S1
<1>4. /\ Sound(NetLists, NetStatus, pid, {}) /\ Runs(NetLists, NetStatus, pid, runnings, {})
      /\ Same(S1, NetStatus)
  BY <1>1, <1>2, <1>3
<1> QED
  BY <1>2, <1>4 DEF Same

\* do_scheduler requeues its task and takes another, or the same again.
LEMMA SchedulerCore ==
  ASSUME Core, NEW c \in Cpu, do_scheduler(c), pid' = pid
  PROVE  Core' /\ Same(status, status')
<1> DEFINE before == runnings[c]
           L == IF before \in Pcb THEN Moved(NetLists, before, ready_queue) ELSE NetLists
           S == SetStatus(NetStatus, before, "READY")
           K == [cont EXCEPT ![before] = User]
<1>1. InKernel(c, "sched") /\ "sched" \in Op \ {"exit", "kill"} /\ find_idle_task(c, L, S, K)
  BY DEF do_scheduler, Op
<1>2. /\ Sound(list, status, pid, {}) /\ Runs(list, status, pid, runnings, {})
      /\ Harts(runnings) /\ Resumes(cont) /\ Others(c, cont, runnings)
      /\ before \in Task /\ (before = pid0_pcb(c) \/ before \in Pcb)
  BY <1>1, CoreElim
<1>3. /\ Sound(NetLists, NetStatus, pid, {}) /\ Runs(NetLists, NetStatus, pid, runnings, {})
      /\ Same(status, NetStatus)
  BY <1>2, NetSound
<1>4. /\ K \in [Task -> Cont]
      /\ \A t \in Task : K[t] = IF t = before THEN User ELSE cont[t]
  BY <1>2, ContFacts DEF Resumes
<1>5. \A p \in Pcb : S[p] = IF p = before THEN "READY" ELSE NetStatus[p]
  BY DEF SetStatus
<1>6. Sound(L, S, pid, {}) /\ Same(NetStatus, S)
  <2>1. CASE before \in Pcb
    <3> DEFINE T == [NetStatus EXCEPT ![before] = "READY"]
    <3>1. Linked(NetLists, before)
      BY <1>3, <2>1 DEF Sound, Runs
    <3>2. Sound(Moved(NetLists, before, ready_queue), T, pid, {}) /\ Same(NetStatus, T)
      <4> HIDE DEF before
      <4> QED
        BY <1>3, <2>1, <3>1, SoundMoved
    <3>3. S = T
      BY <1>3, <2>1 DEF SetStatus, Sound
    <3> QED
      BY <2>1, <3>2, <3>3
  <2>2. CASE before \notin Pcb
    <3>1. S = NetStatus
      BY <1>3, <2>2 DEF SetStatus, Sound
    <3> QED
      BY <1>3, <2>2, <3>1 DEF Same
  <2> QED
    BY <2>1, <2>2
<1> HIDE DEF L, S, K
<1>7. Vacant(c, L, S, pid, runnings)
  <2>1. \A d \in Cpu \ {c} : runnings[d] # before
    BY <1>2, TaskFacts DEF Harts
  <2> QED
    BY <1>3, <1>5, <2>1 DEF Vacant, Runs
<1>8. Resumes(K)
  BY <1>2, <1>4, ContFacts DEF Resumes
<1>9. Others(c, K, runnings)
  BY <1>2, <1>4, ContFacts DEF Others, Harts
<1>10. Core' /\ Same(S, status')
  BY <1>1, <1>2, <1>6, <1>7, <1>8, <1>9, CoreSwitch
<1> QED
  BY <1>3, <1>6, <1>10 DEF Same

\* do_sleep
LEMMA SleepCore ==
  ASSUME Core, NEW c \in Cpu, do_sleep(c), pid' = pid
  PROVE  Core' /\ Same(status, status')
<1>1. Syscall(c) /\ do_block(c, list, status, sleep_queue, User)
  BY DEF do_sleep
<1>2. /\ Sound(list, status, pid, {}) /\ Runs(list, status, pid, runnings, {})
      /\ Harts(runnings) /\ Resumes(cont) /\ Others(c, cont, runnings)
      /\ runnings[c] \in Pcb
  BY <1>1, CoreElim DEF Syscall
<1> QED
  BY <1>1, <1>2, CoreBlock, Blockers, ContFacts

\* slave_wait_for_task takes a task that hart 0 does not run.
LEMMA SlaveCore ==
  ASSUME Core, slave_wait_for_task, pid' = pid
  PROVE  Core' /\ Same(status, status')
<1> DEFINE q == list[ready_queue]
           t == q[2]
<1>1. /\ kernel_spin_lock = UNLOCKED /\ runnings[1] = NULL /\ Len(q) >= 2
      /\ runnings' = [runnings EXCEPT ![1] = t]
      /\ status' = [status EXCEPT ![t] = "RUNNING"]
      /\ kernel_spin_lock' = IF cont[t].op = "user" THEN UNLOCKED ELSE 1
      /\ list' = list /\ cont' = cont
  BY DEF slave_wait_for_task
<1>2. Trap(0) /\ 0 \in Cpu /\ 1 \in Cpu
  BY <1>1, TaskFacts DEF Trap, Core, HartPart
<1>3. /\ Sound(list, status, pid, {}) /\ Runs(list, status, pid, runnings, {})
      /\ Harts(runnings) /\ Resumes(cont) /\ Others(0, cont, runnings)
  BY <1>2, CoreElim
<1>4. q \in Seq(Pcb) /\ 1 \in 1 .. Len(q) /\ 2 \in 1 .. Len(q) /\ t \in Pcb
  BY <1>1, <1>3, HeadsDiffer DEF Sound, AllLists
<1>5. On(list, ready_queue, t)
  BY <1>4 DEF On, Contains
<1>6. q[1] # q[2]
  BY <1>3, <1>4, HeadsDiffer DEF Sound, LinkedOnce, AllLists
<1>7. runnings[0] # t
  BY <1>1, <1>3, <1>4, <1>6 DEF Runs
<1>8. pid[t] # 0 /\ status[t] # "EXITED"
  BY <1>3, <1>4, <1>5, HeadsDiffer DEF Sound
<1>9. /\ status' \in [Pcb -> Status]
      /\ \A p \in Pcb : status'[p] = IF p = t THEN "RUNNING" ELSE status[p]
  BY <1>1, <1>3 DEF Sound, Status
<1>10. /\ runnings' \in [Cpu -> Task \cup {NULL}]
       /\ runnings'[0] = runnings[0] /\ runnings'[1] = t
  BY <1>1, <1>2, <1>3, <1>4, TaskFacts DEF Harts, Cpu
<1> HIDE DEF t, q
<1>11. Sound(list', status', pid', {})
  <2>1. \A p \in Pcb, h \in ListHead :
          On(list', h, p) => /\ pid'[p] # 0
                             /\ status'[p] # "EXITED"
                             /\ h = ready_queue <=> status'[p] \in {"READY", "RUNNING"}
    <3>1. status[t] \in {"READY", "RUNNING"}
      BY <1>3, <1>4, <1>5, HeadsDiffer DEF Sound
    <3> QED
      BY <1>1, <1>3, <1>9, <3>1 DEF Sound
  <2> QED
    BY <1>1, <1>3, <1>9, <2>1 DEF Sound
<1>12. Harts(runnings')
  BY <1>3, <1>4, <1>7, <1>10, TaskFacts DEF Harts, Cpu
<1>13. Runs(list', status', pid', runnings', {})
  BY <1>1, <1>3, <1>4, <1>8, <1>9, <1>10, TaskFacts DEF Runs, Cpu
<1>14. Resumes(cont') /\ Others(1, cont', runnings')
  BY <1>1, <1>2, <1>3, <1>10, TaskFacts DEF Others, Cpu, Core, KernelLock
<1>15. Core'
  BY <1>1, <1>2, <1>4, <1>10, <1>11, <1>12, <1>13, <1>14, TaskFacts, CoreIntro
<1> QED
  BY <1>8, <1>9, <1>15 DEF Same
-----------------------------------------------------------------------------
(* The ways in and out of a system call *)

\* What a system call, or the rest of one that blocked, finds.
Entered(c) ==
  /\ Sound(list, status, pid, {}) /\ Runs(list, status, pid, runnings, {})
  /\ Harts(runnings) /\ Resumes(cont) /\ Others(c, cont, runnings)
  /\ runnings[c] \in Pcb /\ pid[runnings[c]] # 0

LEMMA SyscallEntered ==
  ASSUME Core, NEW c \in Cpu, Syscall(c)
  PROVE  Entered(c)
<1>1. /\ Sound(list, status, pid, {}) /\ Runs(list, status, pid, runnings, {})
      /\ Harts(runnings) /\ Resumes(cont) /\ Others(c, cont, runnings)
      /\ runnings[c] \in Pcb
  BY CoreElim DEF Syscall
<1> QED
  BY <1>1 DEF Entered, Runs

LEMMA ResumeEntered ==
  ASSUME Core, NEW c \in Cpu, NEW op \in Op \ {"user", "sched", "exit", "kill"},
         InKernel(c, op)
  PROVE  Entered(c)
<1>1. /\ Sound(list, status, pid, {}) /\ Runs(list, status, pid, runnings, {})
      /\ Harts(runnings) /\ Resumes(cont) /\ Others(c, cont, runnings)
      /\ runnings[c] \in Task
  BY CoreElim
<1>2. runnings[c] \in Pcb
  BY <1>1 DEF InKernel, Resumes
<1> QED
  BY <1>1, <1>2 DEF Entered, Runs

\* The call returns to user mode.
LEMMA ReturnCore ==
  ASSUME NEW c \in Cpu, Entered(c), ret_from_kernel(c),
         Sound(list', status', pid', {}), Runs(list', status', pid', runnings, {})
  PROVE  Core'
  BY CoreSame, ContFacts, TaskFacts DEF Entered, ret_from_kernel

\* The call returns to user mode having changed no list.
LEMMA PlainReturn ==
  ASSUME NEW c \in Cpu, Entered(c), ret_from_kernel(c), UNCHANGED <<list, status, pid>>
  PROVE  Core' /\ Same(status, status')
<1>1. Sound(list', status', pid', {}) /\ Runs(list', status', pid', runnings, {})
  BY DEF Entered
<1> QED
  BY <1>1, ReturnCore DEF Same

\* The call goes on with continuation k.
LEMMA PlainGoOn ==
  ASSUME NEW c \in Cpu, Entered(c), NEW k \in Cont,
         k.op \in Op \ {"user", "exit", "kill"}, k.op = "acquire" => k.x \in Mutex,
         UNCHANGED <<runnings, list, status, pid>>, kernel_spin_lock' = c,
         cont' = [cont EXCEPT ![runnings[c]] = k]
  PROVE  Core' /\ Same(status, status')
<1>1. Sound(list', status', pid', {}) /\ Runs(list', status', pid', runnings, {})
  BY DEF Entered
<1>2. /\ k.op \notin {"exit", "kill"} /\ k.op # "user" /\ runnings' = runnings
      /\ Harts(runnings) /\ Resumes(cont) /\ Others(c, cont, runnings)
      /\ runnings[c] \in Task /\ runnings[c] \in Pcb
  BY TaskFacts DEF Entered
<1>3. Core'
  BY <1>1, <1>2, CoreSame
<1> QED
  BY <1>3 DEF Same

\* The call blocks the task on list h, to go on at k.
LEMMA PlainBlock ==
  ASSUME NEW c \in Cpu, Entered(c), NEW h, NEW k \in Cont, Blocker(pid, h), pid' = pid,
         k.op \notin {"exit", "kill"}, k.op = "acquire" => k.x \in Mutex,
         do_block(c, list, status, h, k)
  PROVE  Core' /\ Same(status, status')
<1>1. /\ Sound(list, status, pid', {}) /\ Runs(list, status, pid', runnings, {})
      /\ Harts(runnings) /\ Resumes(cont) /\ Others(c, cont, runnings)
      /\ runnings[c] \in Pcb /\ Blocker(pid', h)
  BY DEF Entered
<1> QED
  BY <1>1, CoreBlock

\* A step that touches neither tasks nor lists.
LEMMA CoreUnchanged ==
  ASSUME Core, UNCHANGED <<schedVars, pid, threads>>
  PROVE  Core' /\ Same(status, status')
<1>1. /\ kernel_spin_lock' = kernel_spin_lock /\ runnings' = runnings /\ status' = status
      /\ list' = list /\ cont' = cont /\ pid' = pid /\ threads' = threads
  BY DEF schedVars
<1>2. TaskPlacement' /\ OneHart' /\ KernelLock' /\ WaitersLive'
  BY <1>1 DEF Core, TaskPlacement, Dying, InKernel, OneHart, KernelLock, WaitersLive
<1>3. HartPart' /\ ContPart' /\ TearPart' /\ BootPart'
  BY <1>1 DEF Core, HartPart, ContPart, TearPart, BootPart
<1> QED
  BY <1>1, <1>2, <1>3 DEF Core, Same

-----------------------------------------------------------------------------
(* The network *)

\* do_net_send and its loop.
LEMMA SendCore ==
  ASSUME NEW c \in Cpu, NEW n \in Int, Entered(c), NetSend(c, n), pid' = pid
  PROVE  Core' /\ Same(status, status')
<1>1. CASE ret_from_kernel(c) /\ UNCHANGED <<status, list>>
  BY <1>1, PlainReturn
<1>2. CASE do_block(c, list, status, send_block_queue, [op |-> "net_send", x |-> n, y |-> 0])
  <2> DEFINE k == [op |-> "net_send", x |-> n, y |-> 0]
  <2>1. k \in Cont /\ k.op = "net_send"
    BY DEF Op, Cont
  <2> HIDE DEF k
  <2>2. do_block(c, list, status, send_block_queue, k)
    BY <1>2 DEF k
  <2>3. Blocker(pid, send_block_queue)
    BY Blockers
  <2> QED
    BY <2>1, <2>2, <2>3, PlainBlock
<1> QED
  BY <1>1, <1>2 DEF NetSend

\* do_net_recv and its loops.
LEMMA RecvCore ==
  ASSUME Core, NEW c \in Cpu, NetRecv(c), pid' = pid
  PROVE  Core' /\ Same(status, status')
<1> DEFINE k == cont[runnings[c]]
<1>1. InKernel(c, "net_recv") /\ "net_recv" \in Op \ {"user", "sched", "exit", "kill"}
  BY DEF NetRecv, Op
<1>2. Entered(c)
  BY <1>1, ResumeEntered
<1>3. k \in Cont /\ k.op = "net_recv" /\ k.x \in Int
  BY <1>1, <1>2, TaskFacts DEF InKernel, Entered, Resumes, Cont
<1>4. CASE ret_from_kernel(c) /\ UNCHANGED <<status, list>>
  BY <1>2, <1>4, PlainReturn
<1>5. CASE /\ cont' = [cont EXCEPT ![runnings[c]].x = k.x - 1]
           /\ UNCHANGED <<kernel_spin_lock, runnings, status, list>>
  <2> DEFINE n == [k EXCEPT !.x = k.x - 1]
  <2>1. n \in Cont /\ n.op = "net_recv"
    BY <1>3 DEF Cont
  <2>2. cont' = [cont EXCEPT ![runnings[c]] = n] /\ kernel_spin_lock' = c
    BY <1>1, <1>5 DEF InKernel
  <2> HIDE DEF n
  <2> QED
    BY <1>1, <1>2, <1>5, <2>1, <2>2, PlainGoOn
<1>6. CASE do_block(c, list, status, recv_block_queue, k)
  <2> HIDE DEF k
  <2> QED
    BY <1>2, <1>3, <1>6, Blockers, PlainBlock
<1> QED
  BY <1>4, <1>5, <1>6 DEF NetRecv

\* Every step of the network system calls.
LEMMA NetCore ==
  ASSUME Core, NEW c \in Cpu, NetStep(c), pid' = pid
  PROVE  Core' /\ Same(status, status')
<1>1. ASSUME NEW n \in PktLens, do_net_send(c, n)
      PROVE  Core' /\ Same(status, status')
  BY <1>1, SyscallEntered, SendCore, NetAssumption DEF do_net_send
<1>2. CASE NetSendResume(c)
  <2>1. Entered(c)
    BY <1>2, ResumeEntered DEF NetSendResume, Op
  <2>2. cont[runnings[c]].x \in Int
    BY <2>1, TaskFacts DEF Entered, Resumes, Cont
  <2> QED
    BY <1>2, <2>1, <2>2, SendCore DEF NetSendResume
<1>3. ASSUME NEW n \in PktNums, do_net_recv(c, n)
      PROVE  Core' /\ Same(status, status')
  <2> DEFINE k == [op |-> "net_recv", x |-> n, y |-> 0]
  <2>1. k \in Cont /\ k.op = "net_recv" /\ "net_recv" \in Op
    BY NetAssumption DEF Op, Cont
  <2>2. Entered(c)
    BY <1>3, SyscallEntered DEF do_net_recv
  <2>3. /\ cont' = [cont EXCEPT ![runnings[c]] = k] /\ kernel_spin_lock' = c
        /\ UNCHANGED <<runnings, list, status, pid>>
        /\ k.op \in Op \ {"user", "exit", "kill"} /\ k.op # "acquire"
    BY <1>3, <2>1 DEF do_net_recv
  <2> HIDE DEF k
  <2> QED
    BY <2>1, <2>2, <2>3, PlainGoOn
<1>4. CASE NetRecv(c)
  BY <1>4, RecvCore
<1> QED
  BY <1>1, <1>2, <1>3, <1>4 DEF NetStep

-----------------------------------------------------------------------------
(* Mutexes, conditions and barriers *)

\* do_mutex_lock_acquire, from the system call or at the end of a condition
\* wait.
LEMMA AcquireCore ==
  ASSUME NEW c \in Cpu, Entered(c), NEW m \in Mutex, do_mutex_lock_acquire(c, m),
         SyncTypeOK, ProcessTypeOK, UNCHANGED <<pid, barriers>>
  PROVE  Core' /\ Same(status, status') /\ SyncTypeOK'
<1>1. runnings[c] \in Pcb /\ pid[runnings[c]] \in Nat
  BY DEF Entered, ProcessTypeOK, Pid
<1>2. CASE /\ mlocks' = [mlocks EXCEPT ![m] = [lock |-> TRUE, pid |-> pid[runnings[c]]]]
           /\ holds' = [holds EXCEPT ![m] = @ \cup {runnings[c]}]
           /\ ret_from_kernel(c) /\ UNCHANGED <<status, list>>
  <2>1. SyncTypeOK'
    BY <1>1, <1>2 DEF SyncTypeOK
  <2> QED
    BY <1>2, <2>1, PlainReturn
<1>3. CASE /\ do_block(c, list, status, block_queue(m), User)
           /\ UNCHANGED mutexVars
  <2>1. SyncTypeOK'
    BY <1>3 DEF SyncTypeOK, mutexVars
  <2>2. Blocker(pid, block_queue(m)) /\ User \in Cont /\ User.op = "user"
    BY Blockers, ContFacts
  <2>3. Core' /\ Same(status, status')
    BY <1>3, <2>2, PlainBlock
  <2> QED
    BY <2>1, <2>3
<1> QED
  BY <1>2, <1>3 DEF do_mutex_lock_acquire

\* mutex_lock_release
LEMMA ReleaseCore ==
  ASSUME Core, NEW c \in Cpu, NEW m \in Mutex, MutexRelease(c, m),
         SyncTypeOK, ProcessTypeOK, UNCHANGED <<pid, barriers>>
  PROVE  Core' /\ Same(status, status') /\ SyncTypeOK'
<1> DEFINE r == do_mutex_lock_release(m, runnings[c])
<1>1. Entered(c)
  BY SyscallEntered DEF MutexRelease
<1>2. /\ list' = r.lists /\ status' = r.statuses /\ mlocks' = r.mlocks /\ holds' = r.holds
      /\ ret_from_kernel(c)
  BY DEF MutexRelease
<1>3. /\ Sound(r.lists, r.statuses, pid, {}) /\ Runs(r.lists, r.statuses, pid, runnings, {})
      /\ Same(status, r.statuses)
      /\ r.mlocks \in [Mutex -> [lock : BOOLEAN, pid : Nat]]
      /\ r.holds \in [Mutex -> SUBSET Pcb]
  BY <1>1, ReleaseSound DEF Entered
<1> HIDE DEF r
<1>4. Core'
  BY <1>1, <1>2, <1>3, ReturnCore
<1> QED
  BY <1>2, <1>3, <1>4 DEF SyncTypeOK

\* do_condition_wait releases the mutex, which may wake a task, and blocks.
LEMMA CondWaitCore ==
  ASSUME Core, NEW c \in Cpu, NEW k \in Condition, NEW m \in Mutex,
         do_condition_wait(c, k, m),
         SyncTypeOK, ProcessTypeOK, UNCHANGED <<pid, barriers>>
  PROVE  Core' /\ Same(status, status') /\ SyncTypeOK'
<1> DEFINE r == do_mutex_lock_release(m, runnings[c])
           n == [op |-> "acquire", x |-> m, y |-> 0]
<1>1. Entered(c)
  BY SyscallEntered DEF do_condition_wait
<1>2. /\ mlocks' = r.mlocks /\ holds' = r.holds
      /\ do_block(c, r.lists, r.statuses, cond_list(k), n)
  BY DEF do_condition_wait
<1>3. /\ Sound(r.lists, r.statuses, pid, {}) /\ Runs(r.lists, r.statuses, pid, runnings, {})
      /\ Same(status, r.statuses)
      /\ r.mlocks \in [Mutex -> [lock : BOOLEAN, pid : Nat]]
      /\ r.holds \in [Mutex -> SUBSET Pcb]
  BY <1>1, ReleaseSound DEF Entered
<1>4. n \in Cont /\ n.op = "acquire" /\ n.x = m
  BY KernelAssumption DEF Cont, Op, Mutex
<1> DEFINE L == r.lists
           S == r.statuses
<1>5. /\ Sound(L, S, pid', {}) /\ Runs(L, S, pid', runnings, {})
      /\ do_block(c, L, S, cond_list(k), n)
  BY <1>2, <1>3
<1>6. SyncTypeOK'
  BY <1>2, <1>3 DEF SyncTypeOK
<1>7. Same(status, S)
  BY <1>3
<1> HIDE DEF r, n, L, S
<1>8. /\ Harts(runnings) /\ Resumes(cont) /\ Others(c, cont, runnings)
      /\ runnings[c] \in Pcb /\ Blocker(pid', cond_list(k))
  BY <1>1, Blockers DEF Entered
<1>9. Core' /\ Same(S, status')
  BY <1>4, <1>5, <1>8, CoreBlock
<1> QED
  BY <1>6, <1>7, <1>9 DEF Same

\* do_condition_signal
LEMMA SignalCore ==
  ASSUME Core, NEW c \in Cpu, NEW k \in Condition, do_condition_signal(c, k), pid' = pid
  PROVE  Core' /\ Same(status, status')
<1> DEFINE h == cond_list(k)
           p == list[h][1]
<1>1. Entered(c)
  BY SyscallEntered DEF do_condition_signal
<1>2. /\ list[h] # <<>> /\ list' = Moved(list, p, ready_queue)
      /\ status' = [status EXCEPT ![p] = "READY"] /\ ret_from_kernel(c)
  BY DEF do_condition_signal
<1>3. h \in ListHead \ {ready_queue} /\ list[h] \in Seq(Pcb)
  BY <1>1, HeadsDiffer DEF Entered, Sound, AllLists
<1>4. 1 \in 1 .. Len(list[h])
  BY <1>2, <1>3, EmptySeq
<1>5. p \in Pcb /\ On(list, h, p)
  BY <1>3, <1>4 DEF On, Contains
<1> HIDE DEF h, p
<1>6. /\ Sound(list', status', pid', {}) /\ Runs(list', status', pid', runnings, {})
      /\ Same(status, status')
  BY <1>1, <1>2, <1>3, <1>5, UnblockOne DEF Entered
<1> QED
  BY <1>1, <1>2, <1>6, ReturnCore

\* A call that wakes every task of a list and returns.
LEMMA WakeAllCore ==
  ASSUME NEW c \in Cpu, Entered(c), NEW h \in ListHead \ {ready_queue},
         UnblockAll(list, status, h), ret_from_kernel(c), pid' = pid
  PROVE  Core' /\ Same(status, status')
<1>1. /\ Sound(list', status', pid', {}) /\ Runs(list', status', pid', runnings, {})
      /\ Same(status, status')
  BY UnblockMany DEF UnblockAll, Entered
<1> QED
  BY <1>1, ReturnCore

\* do_barrier_init, do_barrier_wait and do_barrier_destroy.
LEMMA BarrierCore ==
  ASSUME Core, Admitted, NEW c \in Cpu, NEW b \in Barrier,
         do_barrier_init(c, b) \/ do_barrier_wait(c, b) \/ do_barrier_destroy(c, b),
         SyncTypeOK, UNCHANGED <<pid, threads, mutexVars>>
  PROVE  Core' /\ Same(status, status') /\ SyncTypeOK'
<1> DEFINE h == block_list(b)
           n == barriers[b].current + 1
<1>1. Entered(c)
  BY SyscallEntered DEF do_barrier_init, do_barrier_wait, do_barrier_destroy
<1>2. h \in ListHead \ {ready_queue} /\ Blocker(pid, h)
  BY HeadsDiffer, Blockers
<1>3. n \in Nat
  BY DEF SyncTypeOK
<1>4. ASSUME NEW g \in Nat, barriers' = [barriers EXCEPT ![b].goal = g]
      PROVE  SyncTypeOK'
  BY <1>4 DEF SyncTypeOK, mutexVars
<1>5. ASSUME NEW a \in Nat, barriers' = [barriers EXCEPT ![b].current = a]
      PROVE  SyncTypeOK'
  BY <1>5 DEF SyncTypeOK, mutexVars
<1>6. CASE do_barrier_init(c, b)
  <2>1. SyncTypeOK'
    BY <1>4, <1>6, SyncAssumption DEF do_barrier_init
  <2>2. UNCHANGED schedVars
    BY <1>6 DEF do_barrier_init
  <2> QED
    BY <2>1, <2>2, CoreUnchanged
<1>7. CASE do_barrier_wait(c, b)
  <2>1. CASE /\ barriers' = [barriers EXCEPT ![b].current = n]
             /\ do_block(c, list, status, h, User)
    <3>1. SyncTypeOK'
      BY <1>3, <1>5, <2>1
    <3>2. User \in Cont /\ User.op = "user"
      BY ContFacts
    <3> HIDE DEF h
    <3>3. Core' /\ Same(status, status')
      BY <1>1, <1>2, <2>1, <3>2, PlainBlock
    <3> QED
      BY <3>1, <3>3
  <2>2. CASE /\ barriers' = [barriers EXCEPT ![b].current = 0]
             /\ UnblockAll(list, status, h) /\ ret_from_kernel(c)
    <3>1. SyncTypeOK'
      BY <1>5, <2>2
    <3> HIDE DEF h
    <3>2. Core' /\ Same(status, status')
      BY <1>1, <1>2, <2>2, WakeAllCore
    <3> QED
      BY <3>1, <3>2
  <2> QED
    BY <1>7, <2>1, <2>2 DEF do_barrier_wait
<1>8. CASE do_barrier_destroy(c, b)
  <2>1. /\ list[h] = <<>> /\ barriers' = [barriers EXCEPT ![b].current = 0]
        /\ list' = [list EXCEPT ![h] = <<>>] /\ ret_from_kernel(c) /\ UNCHANGED status
    BY <1>8 DEF do_barrier_destroy, Admitted
  <2>2. list' = list
    BY <1>1, <1>2, <2>1 DEF Entered, Sound, AllLists
  <2>3. SyncTypeOK'
    BY <1>5, <2>1
  <2>4. Core' /\ Same(status, status')
    BY <1>1, <2>1, <2>2, PlainReturn
  <2> QED
    BY <2>3, <2>4
<1> QED
  BY <1>6, <1>7, <1>8

\* Every step of the synchronisation system calls.
LEMMA SyncCore ==
  ASSUME Core, Admitted, RestTypeOK, NEW c \in Cpu, SyncStep(c),
         UNCHANGED <<process_id, threads, tid, nicVars>>
  PROVE  Core' /\ Same(status, status') /\ RestTypeOK' /\ pid' = pid
<1>1. /\ SyncTypeOK /\ ProcessTypeOK
      /\ UNCHANGED <<pid, wakeup_time, process_id, threads, tid, tx, rx>>
  BY DEF RestTypeOK, SyncStep, nicVars
<1>2. SyncTypeOK' => RestTypeOK'
  BY <1>1 DEF RestTypeOK, ProcessTypeOK
<1>3. ASSUME NEW m \in Mutex, MutexAcquire(c, m), UNCHANGED barriers
      PROVE  Core' /\ Same(status, status') /\ SyncTypeOK'
  BY <1>1, <1>3, SyscallEntered, AcquireCore DEF MutexAcquire
<1>4. ASSUME NEW m \in Mutex, MutexRelease(c, m), UNCHANGED barriers
      PROVE  Core' /\ Same(status, status') /\ SyncTypeOK'
  BY <1>1, <1>4, ReleaseCore
<1>5. ASSUME NEW k \in Condition, NEW m \in Mutex, do_condition_wait(c, k, m), UNCHANGED barriers
      PROVE  Core' /\ Same(status, status') /\ SyncTypeOK'
  BY <1>1, <1>5, CondWaitCore
<1>6. ASSUME CondReacquire(c), UNCHANGED barriers
      PROVE  Core' /\ Same(status, status') /\ SyncTypeOK'
  <2>1. InKernel(c, "acquire") /\ do_mutex_lock_acquire(c, cont[runnings[c]].x)
    BY <1>6 DEF CondReacquire
  <2>2. Entered(c)
    BY <2>1, ResumeEntered DEF Op
  <2>3. cont[runnings[c]].x \in Mutex
    BY <2>1, <2>2, TaskFacts DEF InKernel, Entered, Resumes
  <2> DEFINE m == cont[runnings[c]].x
  <2> HIDE DEF m
  <2>4. m \in Mutex /\ do_mutex_lock_acquire(c, m)
    BY <2>1, <2>3 DEF m
  <2> QED
    BY <1>1, <1>6, <2>2, <2>4, AcquireCore
<1>7. ASSUME NEW k \in Condition, do_condition_signal(c, k), UNCHANGED <<mutexVars, barriers>>
      PROVE  Core' /\ Same(status, status') /\ SyncTypeOK'
  BY <1>1, <1>7, SignalCore DEF SyncTypeOK, mutexVars
<1>8. ASSUME NEW k \in Condition, do_condition_broadcast(c, k), UNCHANGED <<mutexVars, barriers>>
      PROVE  Core' /\ Same(status, status') /\ SyncTypeOK'
  <2>1. cond_list(k) \in ListHead \ {ready_queue}
    BY HeadsDiffer
  <2>2. Core' /\ Same(status, status')
    BY <1>1, <1>8, <2>1, SyscallEntered, WakeAllCore DEF do_condition_broadcast
  <2> QED
    BY <1>1, <1>8, <2>2 DEF SyncTypeOK, mutexVars
<1>9. ASSUME NEW b \in Barrier, UNCHANGED mutexVars,
             do_barrier_init(c, b) \/ do_barrier_wait(c, b) \/ do_barrier_destroy(c, b)
      PROVE  Core' /\ Same(status, status') /\ SyncTypeOK'
  BY <1>1, <1>9, BarrierCore
<1>10. Core' /\ Same(status, status') /\ SyncTypeOK'
  BY <1>3, <1>4, <1>5, <1>6, <1>7, <1>8, <1>9 DEF SyncStep
<1> QED
  BY <1>1, <1>2, <1>10

-----------------------------------------------------------------------------
(* Waiting for the end of a task *)

\* do_waitpid blocks on a slot in use.
LEMMA WaitpidCore ==
  ASSUME Core, Admitted, NEW c \in Cpu, NEW q \in Pid, do_waitpid(c, q), pid' = pid
  PROVE  Core' /\ Same(status, status')
<1>1. Entered(c) /\ q # 0
  BY SyscallEntered DEF do_waitpid, Admitted
<1>2. PICK p \in Pcb : FirstWithPid(q, p) /\ do_block(c, list, status, wait_list(p), User)
  BY DEF do_waitpid
<1>3. Blocker(pid, wait_list(p)) /\ User \in Cont /\ User.op = "user"
  BY <1>1, <1>2, Blockers, ContFacts DEF FirstWithPid
<1> QED
  BY <1>1, <1>2, <1>3, PlainBlock

\* thread_join blocks on a thread of its own process.
LEMMA JoinBlockCore ==
  ASSUME NEW c \in Cpu, Entered(c), NEW p \in Pcb, pid[p] = pid[runnings[c]], pid' = pid,
         NEW t \in Int, NEW y \in Int,
         do_block(c, list, status, wait_list(p), [op |-> "join", x |-> t, y |-> y])
  PROVE  Core' /\ Same(status, status')
<1> DEFINE k == [op |-> "join", x |-> t, y |-> y]
<1>1. k \in Cont /\ k.op = "join"
  BY DEF Cont, Op
<1>2. Blocker(pid, wait_list(p))
  BY Blockers DEF Entered
<1> HIDE DEF k
<1>3. do_block(c, list, status, wait_list(p), k)
  BY DEF k
<1> QED
  BY <1>1, <1>2, <1>3, PlainBlock

\* The scan of do_thread_join.
LEMMA JoinScanCore ==
  ASSUME NEW c \in Cpu, Entered(c), NEW t \in Int, NEW i \in Nat \ {0}, JoinScan(c, t, i),
         pid' = pid
  PROVE  Core' /\ Same(status, status')
<1> DEFINE q == list[ready_queue]
<1>1. q \in Seq(Pcb)
  BY HeadsDiffer DEF Entered, Sound, AllLists
<1>2. CASE ret_from_kernel(c) /\ UNCHANGED <<list, status>>
  BY <1>2, PlainReturn
<1>3. ASSUME NEW j \in i .. Len(q), pid[q[j]] = pid[runnings[c]],
             do_block(c, list, status, wait_list(q[j]),
               [op |-> "join", x |-> t, y |-> IF j < Len(q) THEN q[j + 1] ELSE NULL])
      PROVE  Core' /\ Same(status, status')
  <2> DEFINE p == q[j]
             y == IF j < Len(q) THEN q[j + 1] ELSE NULL
  <2>1. p \in Pcb
    BY <1>1
  <2>2. y \in Int
    <3>1. j < Len(q) => q[j + 1] \in Pcb
      BY <1>1
    <3> QED
      BY <3>1 DEF NULL, Pcb
  <2>3. pid[p] = pid[runnings[c]]
        /\ do_block(c, list, status, wait_list(p), [op |-> "join", x |-> t, y |-> y])
    BY <1>3
  <2> HIDE DEF p, y
  <2> QED
    BY <2>1, <2>2, <2>3, JoinBlockCore
<1> QED
  BY <1>2, <1>3 DEF JoinScan

\* Every step of waitpid and thread_join.
LEMMA WaitCore ==
  ASSUME Core, Admitted, NEW c \in Cpu, UNCHANGED <<pid, threads>>,
         \/ \E q \in Pid : do_waitpid(c, q)
         \/ \E t \in 1 .. MaxTid : do_thread_join(c, t)
         \/ JoinResume(c) \/ JoinStray(c)
  PROVE  Core' /\ Same(status, status')
<1>1. ASSUME NEW q \in Pid, do_waitpid(c, q)
      PROVE  Core' /\ Same(status, status')
  BY <1>1, WaitpidCore
<1>2. ASSUME NEW t \in 1 .. MaxTid, do_thread_join(c, t)
      PROVE  Core' /\ Same(status, status')
  <2>1. Entered(c) /\ JoinScan(c, t, 1) /\ t \in Int /\ 1 \in Nat \ {0}
    BY <1>2, SyscallEntered DEF do_thread_join
  <2> QED
    BY <2>1, JoinScanCore
<1>3. ASSUME InKernel(c, "join")
      PROVE  Entered(c) /\ cont[runnings[c]].x \in Int
  <2>1. Entered(c)
    BY <1>3, ResumeEntered DEF Op
  <2>2. runnings[c] \in Task /\ cont \in [Task -> Cont]
    BY <2>1, TaskFacts DEF Entered, Resumes
  <2> QED
    BY <2>1, <2>2 DEF Cont
<1>4. ASSUME JoinResume(c)
      PROVE  Core' /\ Same(status, status')
  <2> DEFINE k == cont[runnings[c]]
             q == list[ready_queue]
  <2>1. Entered(c) /\ k.x \in Int
    BY <1>3, <1>4 DEF JoinResume
  <2>2. CASE ret_from_kernel(c) /\ UNCHANGED <<list, status>>
    BY <2>1, <2>2, PlainReturn
  <2>3. ASSUME NEW i \in DOMAIN q, JoinScan(c, k.x, i)
        PROVE  Core' /\ Same(status, status')
    <3>1. i \in Nat \ {0}
      <4>1. q \in Seq(Pcb)
        BY <2>1, HeadsDiffer DEF Entered, Sound, AllLists
      <4> QED
        BY <4>1
    <3> HIDE DEF k
    <3> QED
      BY <2>1, <2>3, <3>1, JoinScanCore
  <2> QED
    BY <1>4, <2>2, <2>3 DEF JoinResume
<1>5. ASSUME JoinStray(c)
      PROVE  Core' /\ Same(status, status')
  <2> DEFINE k == cont[runnings[c]]
  <2>1. Entered(c) /\ k.x \in Int
    BY <1>3, <1>5 DEF JoinStray
  <2>2. CASE UNCHANGED schedVars
    BY <2>2, CoreUnchanged
  <2>3. CASE ret_from_kernel(c) /\ UNCHANGED <<list, status>>
    BY <2>1, <2>3, PlainReturn
  <2>4. ASSUME NEW p \in Pcb, NEW z \in Pcb \cup {NULL}, pid[p] = pid[runnings[c]],
               do_block(c, list, status, wait_list(p), [op |-> "join", x |-> k.x, y |-> z])
        PROVE  Core' /\ Same(status, status')
    <3>1. z \in Int
      BY TaskFacts DEF NULL, Pcb
    <3> HIDE DEF k
    <3> QED
      BY <2>1, <2>4, <3>1, JoinBlockCore
  <2> QED
    BY <1>5, <2>2, <2>3, <2>4 DEF JoinStray
<1> QED
  BY <1>1, <1>2, <1>4, <1>5

-----------------------------------------------------------------------------
(* New tasks *)

\* create_pcb and do_thread_create: the slot was unused, so it was linked
\* nowhere and nobody waited for it.
LEMMA NewTaskInv ==
  ASSUME Core, RestTypeOK, ThreadCount, NEW c \in Cpu, Syscall(c),
         NEW p \in Pcb, find_unused_pcb(p), NEW q \in Pid \ {0}, NewTask(c, p, q),
         process_id' \in Nat \ {0}, UNCHANGED <<mutexVars, wakeup_time, barriers, nicVars>>
  PROVE  Core' /\ RestTypeOK' /\ ThreadCount'
<1> DEFINE A == list_add_tail(list, p, ready_queue)
<1>1. /\ Sound(list, status, pid, {}) /\ Runs(list, status, pid, runnings, {})
      /\ Harts(runnings) /\ Resumes(cont) /\ Others(c, cont, runnings)
      /\ runnings[c] \in Pcb
  BY SyscallEntered DEF Entered
<1>2. /\ pid[p] = 0 /\ pid' = [pid EXCEPT ![p] = q]
      /\ tid' = [tid EXCEPT ![p] = threads[q] + 1]
      /\ threads' = [threads EXCEPT ![q] = @ + 1]
      /\ status' = [status EXCEPT ![p] = "READY"]
      /\ list' = INIT_LIST_HEAD(A, wait_list(p))
      /\ cont' = [cont EXCEPT ![p] = User]
      /\ kernel_spin_lock' = kernel_spin_lock /\ runnings' = runnings
  BY DEF NewTask, find_unused_pcb, FirstWithPid
<1>3. /\ list \in [ListHead -> Seq(Pcb)] /\ LinkedOnce(list)
      /\ \A h \in ListHead : ~ On(list, h, p)
      /\ \A r \in Pcb : ~ On(list, wait_list(p), r)
  BY <1>1, <1>2 DEF Sound, AllLists
<1>4. ready_queue \in ListHead /\ wait_list(p) \in ListHead /\ wait_list(p) # ready_queue
  BY HeadsDiffer
<1>5. /\ A \in [ListHead -> Seq(Pcb)]
      /\ LinkedOnce(A)
      /\ \A g \in ListHead : \A r : On(A, g, r) <=> On(list, g, r) \/ (g = ready_queue /\ r = p)
      /\ \A g \in ListHead : list[g] # <<>> => A[g] # <<>> /\ A[g][1] = list[g][1]
  BY <1>3, <1>4, AddProperties
<1> HIDE DEF A
<1>6. list' = A
  <2>1. A[wait_list(p)] \in Seq(Pcb) /\ \A r \in Pcb : ~ On(A, wait_list(p), r)
    BY <1>3, <1>4, <1>5
  <2>2. A[wait_list(p)] = <<>>
    <3> SUFFICES ASSUME A[wait_list(p)] # <<>> PROVE FALSE
      OBVIOUS
    <3>1. 1 \in 1 .. Len(A[wait_list(p)])
      BY <2>1, EmptySeq
    <3> QED
      BY <2>1, <3>1 DEF On, Contains
  <2> QED
    BY <1>2, <1>4, <1>5, <2>2 DEF INIT_LIST_HEAD
<1>7. /\ status' \in [Pcb -> Status]
      /\ \A r \in Pcb : status'[r] = IF r = p THEN "READY" ELSE status[r]
      /\ \A r \in Pcb : pid'[r] = IF r = p THEN q ELSE pid[r]
  BY <1>1, <1>2 DEF Sound, Status, RestTypeOK, ProcessTypeOK
<1>8. Sound(list', status', pid', {})
  <2>1. \A r \in Pcb, h \in ListHead :
          On(list', h, r) => /\ pid'[r] # 0
                             /\ status'[r] # "EXITED"
                             /\ h = ready_queue <=> status'[r] \in {"READY", "RUNNING"}
    <3> SUFFICES ASSUME NEW r \in Pcb, NEW h \in ListHead, On(list', h, r)
                 PROVE  /\ pid'[r] # 0
                        /\ status'[r] # "EXITED"
                        /\ h = ready_queue <=> status'[r] \in {"READY", "RUNNING"}
      OBVIOUS
    <3>1. On(list, h, r) \/ (h = ready_queue /\ r = p)
      BY <1>5, <1>6
    <3>2. CASE r = p
      BY <1>3, <1>7, <3>1, <3>2
    <3>3. CASE r # p
      BY <1>1, <1>7, <3>1, <3>3 DEF Sound
    <3> QED
      BY <3>2, <3>3
  <2>2. \A r, s \in Pcb : On(list', wait_list(r), s) => pid'[r] # 0
    BY <1>1, <1>5, <1>6, <1>7, HeadsDiffer DEF Sound
  <2>3. \A r \in Pcb : pid'[r] # 0 => Linked(list', r)
    BY <1>1, <1>4, <1>5, <1>6, <1>7 DEF Sound, Linked
  <2> QED
    BY <1>5, <1>6, <1>7, <2>1, <2>2, <2>3 DEF Sound, AllLists
<1>9. Runs(list', status', pid', runnings', {})
  BY <1>1, <1>2, <1>4, <1>5, <1>6, <1>7 DEF Runs
<1>10. /\ cont' \in [Task -> Cont]
       /\ \A t \in Task : cont'[t] = IF t = p THEN User ELSE cont[t]
  BY <1>1, <1>2, ContFacts, TaskFacts DEF Resumes
<1>11. Resumes(cont') /\ Others(c, cont', runnings')
  BY <1>1, <1>2, <1>10, ContFacts DEF Resumes, Others, Harts
<1>12. /\ cont'[runnings'[c]].op = "user" /\ kernel_spin_lock' = UNLOCKED
       /\ runnings'[c] # NULL
  BY <1>1, <1>2, <1>10, ContFacts, TaskFacts DEF Core, KernelLock, Syscall, Trap
<1>13. Core'
  BY <1>1, <1>2, <1>8, <1>9, <1>11, <1>12, CoreIntro
<1>14. ThreadCount'
  <2>1. ProcessTypeOK /\ status \in [Pcb -> Status]
    BY <1>1 DEF RestTypeOK, Sound
  <2> QED
    BY <1>2, <2>1, CountAdd
<1>15. RestTypeOK'
  BY <1>2 DEF RestTypeOK, ProcessTypeOK, SyncTypeOK, mutexVars, nicVars
<1> QED
  BY <1>13, <1>14, <1>15

-----------------------------------------------------------------------------
(* Exit and kill *)

\* release_pcb, first part: from here to the end of the call the task has a
\* slot and is on no list.
LEMMA ReleasePcbInv ==
  ASSUME Core, RestTypeOK, ThreadCount, NEW c \in Cpu, Syscall(c),
         NEW p \in Pcb, pid[p] # 0, NEW op \in {"exit", "kill"}, release_pcb(c, p, op),
         op = "exit" => p = runnings[c] /\ threads[pid[p]] <= 1,
         op = "kill" => \A d \in Cpu : runnings[d] # p,
         UNCHANGED <<mutexVars, wakeup_time, barriers, nicVars>>
  PROVE  Core' /\ RestTypeOK' /\ ThreadCount'
<1> DEFINE k == [op |-> op, x |-> p, y |-> 0]
<1>1. /\ Sound(list, status, pid, {}) /\ Runs(list, status, pid, runnings, {})
      /\ Harts(runnings) /\ Resumes(cont) /\ Others(c, cont, runnings)
      /\ runnings[c] \in Pcb
  BY SyscallEntered DEF Entered
<1>2. /\ status' = [status EXCEPT ![p] = "EXITED"]
      /\ threads' = [threads EXCEPT ![pid[p]] = @ - 1]
      /\ list' = list_delete_entry(list, p)
      /\ kernel_spin_lock' = c
      /\ cont' = [cont EXCEPT ![runnings[c]] = k]
      /\ runnings' = runnings /\ pid' = pid /\ process_id' = process_id /\ tid' = tid
  BY DEF release_pcb
<1>3. k \in Cont /\ k.op = op /\ k.x = p /\ k.y = 0 /\ 0 \in 0 .. LOCK_NUM
  BY TaskFacts, KernelAssumption DEF Cont, Op, Pcb
<1> HIDE DEF k
<1>4. status[p] # "EXITED" /\ status \in [Pcb -> Status] /\ ProcessTypeOK
  BY <1>1 DEF Sound, Linked, RestTypeOK
<1>5. ThreadCount' /\ threads[pid[p]] >= 1
  BY <1>2, <1>4, CountRemove
<1>6. /\ Sound(list', status', pid', {p})
      /\ list[ready_queue] # <<>> /\ list[ready_queue][1] # p =>
           list'[ready_queue] # <<>> /\ list'[ready_queue][1] = list[ready_queue][1]
  BY <1>1, <1>2, SoundDeleted
<1>7. \A r \in Pcb : status'[r] = IF r = p THEN "EXITED" ELSE status[r]
  BY <1>2, <1>4
<1>8. Runs(list', status', pid', runnings', {p})
  BY <1>1, <1>2, <1>6, <1>7 DEF Runs
<1>9. /\ cont' \in [Task -> Cont]
      /\ \A t \in Task : cont'[t] = IF t = runnings[c] THEN k ELSE cont[t]
  BY <1>1, <1>2, <1>3, TaskFacts DEF Resumes
<1>10. op = "exit" => threads'[pid'[p]] = 0
  <2>1. pid[p] \in Pid /\ threads \in [Pid -> Int]
    BY <1>4 DEF ProcessTypeOK
  <2> QED
    BY <1>2, <1>5, <2>1
<1>11. Others(c, cont', runnings')
  BY <1>1, <1>2, <1>9, TaskFacts DEF Others, Harts
<1>12. cont'[runnings'[c]] = k
  BY <1>1, <1>2, <1>9, TaskFacts
<1>13. /\ \A t \in Task : t # runnings'[c] => cont'[t].op \notin {"exit", "kill"}
       /\ \A t \in Task : t # runnings'[c] => (cont'[t].op \notin {"user", "sched"} => t \in Pcb)
       /\ \A t \in Task : t # runnings'[c] => (cont'[t].op = "acquire" => cont'[t].x \in Mutex)
  BY <1>1, <1>2, <1>9 DEF Resumes
<1>14. Tearing(c, list', status', pid', runnings', cont', threads')
  BY <1>1, <1>2, <1>3, <1>6, <1>8, <1>9, <1>10, <1>11, <1>12, <1>13 DEF Tearing
<1>15. Core'
  BY <1>2, <1>14, TearIntro
<1>16. RestTypeOK'
  BY <1>2, <1>4 DEF RestTypeOK, ProcessTypeOK, SyncTypeOK, mutexVars, nicVars
<1> QED
  BY <1>5, <1>15, <1>16

\* release_pcb, one step of the loop over mlocks.
LEMMA ReleaseLocksInv ==
  ASSUME Core, RestTypeOK, ThreadCount, NEW c \in Cpu, release_locks(c),
         UNCHANGED <<procVars, wakeup_time, barriers, nicVars>>
  PROVE  Core' /\ RestTypeOK' /\ ThreadCount'
<1> DEFINE t == runnings[c]
           k == cont[t]
           m == k.y
           x == k.x
           r == do_mutex_lock_release(m, x)
<1>1. /\ InKernel(c, "exit") \/ InKernel(c, "kill")
      /\ m < LOCK_NUM
      /\ \/ /\ list' = r.lists /\ status' = r.statuses
            /\ mlocks' = r.mlocks /\ holds' = r.holds
         \/ list' = list /\ status' = status /\ mlocks' = mlocks /\ holds' = holds
      /\ cont' = [cont EXCEPT ![t].y = @ + 1]
      /\ kernel_spin_lock' = kernel_spin_lock /\ runnings' = runnings
  BY DEF release_locks, mutexVars
<1>2. /\ pid' = pid /\ process_id' = process_id /\ threads' = threads /\ tid' = tid
      /\ wakeup_time' = wakeup_time /\ barriers' = barriers /\ tx' = tx /\ rx' = rx
  BY DEF procVars, nicVars
<1>3. Tearing(c, list, status, pid, runnings, cont, threads)
  BY <1>1, TearElim
<1>4. /\ cont \in [Task -> Cont] /\ Harts(runnings) /\ t \in Pcb
      /\ k.op \in {"exit", "kill"} /\ x \in Pcb /\ m \in 0 .. LOCK_NUM
      /\ Sound(list, status, pid, {x}) /\ Runs(list, status, pid, runnings, {x})
      /\ k.op = "exit" => x = t /\ threads[pid[x]] = 0
      /\ k.op = "kill" => \A d \in Cpu : runnings[d] # x
      /\ Others(c, cont, runnings)
  BY <1>3 DEF Tearing
<1>5. /\ \A u \in Task : u # t => cont[u].op \notin {"exit", "kill"}
      /\ \A u \in Task : u # t => (cont[u].op \notin {"user", "sched"} => u \in Pcb)
      /\ \A u \in Task : u # t => (cont[u].op = "acquire" => cont[u].x \in Mutex)
  BY <1>3 DEF Tearing
<1>6. m \in Mutex /\ m + 1 \in 0 .. LOCK_NUM /\ SyncTypeOK /\ ProcessTypeOK
  BY <1>1, <1>4, KernelAssumption DEF Mutex, RestTypeOK
<1>7. /\ cont' \in [Task -> Cont]
      /\ cont'[t].op = k.op /\ cont'[t].x = x /\ cont'[t].y = m + 1
      /\ \A u \in Task : u # t => cont'[u] = cont[u]
  BY <1>1, <1>4, <1>6, TaskFacts DEF Cont
<1> HIDE DEF t, k, m, x
<1>8. /\ Sound(list', status', pid, {x}) /\ Runs(list', status', pid, runnings, {x})
      /\ Same(status, status')
      /\ mlocks' \in [Mutex -> [lock : BOOLEAN, pid : Nat]]
      /\ holds' \in [Mutex -> SUBSET Pcb]
  <2>1. CASE /\ list' = r.lists /\ status' = r.statuses
             /\ mlocks' = r.mlocks /\ holds' = r.holds
    <3>1. /\ Sound(r.lists, r.statuses, pid, {x})
          /\ Runs(r.lists, r.statuses, pid, runnings, {x})
          /\ Same(status, r.statuses)
          /\ r.mlocks \in [Mutex -> [lock : BOOLEAN, pid : Nat]]
          /\ r.holds \in [Mutex -> SUBSET Pcb]
      BY <1>4, <1>6, ReleaseSound
    <3> HIDE DEF r
    <3> QED
      BY <2>1, <3>1
  <2>2. CASE list' = list /\ status' = status /\ mlocks' = mlocks /\ holds' = holds
    BY <1>4, <1>6, <2>2 DEF Same, SyncTypeOK
  <2> QED
    BY <1>1, <2>1, <2>2
<1>9. runnings'[c] = t /\ kernel_spin_lock' = c
  BY <1>1 DEF t, InKernel
<1>10. Others(c, cont', runnings')
  BY <1>1, <1>4, <1>7, <1>9, TaskFacts DEF Others, Harts
<1>11. Tearing(c, list', status', pid', runnings', cont', threads')
  BY <1>1, <1>2, <1>4, <1>5, <1>6, <1>7, <1>8, <1>9, <1>10 DEF Tearing
<1>12. Core'
  BY <1>9, <1>11, TearIntro
<1>13. ThreadCount'
  BY <1>2, <1>8, CountSame
<1>14. RestTypeOK'
  BY <1>2, <1>8 DEF RestTypeOK, SyncTypeOK, ProcessTypeOK
<1> QED
  BY <1>12, <1>13, <1>14

\* Giving up the slot of a task that has exited does not change the counts.
LEMMA CountFreed ==
  ASSUME ThreadCount, ProcessTypeOK, threads' = threads, NEW x \in Pcb,
         status[x] = "EXITED", pid' = [pid EXCEPT ![x] = 0], Same(status, status')
  PROVE  ThreadCount'
<1>1. \A p \in Pcb : pid'[p] = IF p = x THEN 0 ELSE pid[p]
  BY DEF ProcessTypeOK
<1>2. status'[x] = "EXITED"
  BY DEF Same
<1>3. \A q \in Pid \ {0} : Alive(pid', status', q) = Alive(pid, status, q)
  BY <1>1, <1>2 DEF Alive, Same
<1> QED
  BY <1>3, CountKept

\* The end of do_exit: the waiters wake, the slot is free and the hart takes
\* another task.
LEMMA ExitEndInv ==
  ASSUME Core, RestTypeOK, ThreadCount, NEW c \in Cpu, ExitEnd(c),
         UNCHANGED <<mutexVars, wakeup_time, barriers, nicVars>>
  PROVE  Core' /\ RestTypeOK' /\ ThreadCount'
<1> DEFINE p == runnings[c]
           L == Drained(list, wait_list(p), ready_queue)
           S == Readied(status, list, wait_list(p))
           K == [cont EXCEPT ![p] = User]
<1>1. /\ InKernel(c, "exit") /\ pid' = [pid EXCEPT ![p] = 0]
      /\ process_id' = process_id /\ threads' = threads /\ tid' = tid
  BY DEF ExitEnd
<1>2. Tearing(c, list, status, pid, runnings, cont, threads) /\ cont[p].op = "exit"
  BY <1>1, TearElim DEF InKernel
<1>3. /\ cont \in [Task -> Cont] /\ Harts(runnings) /\ p \in Pcb
      /\ cont[p].x = p /\ threads[pid[p]] = 0
      /\ Sound(list, status, pid, {p}) /\ Runs(list, status, pid, runnings, {p})
      /\ Others(c, cont, runnings)
  BY <1>2 DEF Tearing
<1>4. /\ \A u \in Task : u # p => cont[u].op \notin {"exit", "kill"}
      /\ \A u \in Task : u # p => (cont[u].op \notin {"user", "sched"} => u \in Pcb)
      /\ \A u \in Task : u # p => (cont[u].op = "acquire" => cont[u].x \in Mutex)
  BY <1>2 DEF Tearing
<1>5. find_idle_task(c, L, S, K)
  BY <1>3 DEF ExitEnd
<1>6. wait_list(p) \in ListHead \ {ready_queue}
  BY <1>3, HeadsDiffer
<1>7. /\ K \in [Task -> Cont]
      /\ \A u \in Task : K[u] = IF u = p THEN User ELSE cont[u]
  BY <1>3, ContFacts, TaskFacts
<1>8. pid \in [Pcb -> Pid] /\ ProcessTypeOK
  BY DEF RestTypeOK, ProcessTypeOK
<1> HIDE DEF p, K
<1>9. /\ Sound(L, S, pid, {p}) /\ Runs(L, S, pid, runnings, {p}) /\ Same(status, S)
      /\ \A q \in Pcb : ~ On(L, wait_list(p), q)
  BY <1>3, <1>6, UnblockMany
<1> HIDE DEF L, S
<1>10. Sound(L, S, pid', {})
  BY <1>1, <1>3, <1>8, <1>9, SoundFreed
<1>11. \A q \in Pcb : pid'[q] = IF q = p THEN 0 ELSE pid[q]
  BY <1>1, <1>8
<1>12. runnings[c] = p /\ \A d \in Cpu \ {c} : runnings[d] # p
  BY <1>3, TaskFacts DEF Harts, p
<1>13. Vacant(c, L, S, pid', runnings)
  <2>1. S[p] = "EXITED"
    BY <1>3, <1>9 DEF Sound
  <2> QED
    BY <1>3, <1>9, <1>11, <1>12, <2>1 DEF Vacant, Runs
<1>14. Resumes(K)
  BY <1>3, <1>4, <1>7, ContFacts DEF Resumes
<1>15. Others(c, K, runnings)
  <2> SUFFICES ASSUME NEW d \in Cpu \ {c}, runnings[d] # NULL
               PROVE  K[runnings[d]].op = "user"
    BY DEF Others
  <2>1. runnings[d] \in Task /\ runnings[d] # p
    BY <1>3, <1>12 DEF Harts
  <2>2. K[runnings[d]] = cont[runnings[d]]
    BY <1>7, <2>1
  <2> QED
    BY <1>3, <2>2 DEF Others
<1>16. Core' /\ Same(S, status')
  BY <1>3, <1>5, <1>10, <1>13, <1>14, <1>15, CoreSwitch
<1>17. ThreadCount'
  <2>1. Same(status, status') /\ status[p] = "EXITED"
    BY <1>3, <1>9, <1>16 DEF Same, Sound
  <2> QED
    BY <1>1, <1>3, <1>8, <2>1, CountFreed
<1>18. RestTypeOK'
  <2>1. 0 \in Pid
    BY ProcessAssumption DEF Pid
  <2> QED
    BY <1>1, <1>3, <2>1 DEF RestTypeOK, ProcessTypeOK, SyncTypeOK, mutexVars, nicVars
<1> QED
  BY <1>16, <1>17, <1>18

\* The end of do_kill: the waiters wake, the slot is free and the caller goes
\* on.
LEMMA KillEndInv ==
  ASSUME Core, RestTypeOK, ThreadCount, NEW c \in Cpu, KillEnd(c),
         UNCHANGED <<mutexVars, wakeup_time, barriers, nicVars>>
  PROVE  Core' /\ RestTypeOK' /\ ThreadCount'
<1> DEFINE t == runnings[c]
           x == cont[t].x
           h == wait_list(x)
<1>1. /\ InKernel(c, "kill") /\ pid' = [pid EXCEPT ![x] = 0]
      /\ list' = Drained(list, h, ready_queue) /\ status' = Readied(status, list, h)
      /\ cont' = [cont EXCEPT ![t] = User]
      /\ kernel_spin_lock' = UNLOCKED /\ runnings' = runnings
      /\ process_id' = process_id /\ threads' = threads /\ tid' = tid
  BY DEF KillEnd, UnblockAll, ret_from_kernel
<1>2. Tearing(c, list, status, pid, runnings, cont, threads) /\ cont[t].op = "kill"
  BY <1>1, TearElim DEF InKernel
<1>3. /\ cont \in [Task -> Cont] /\ Harts(runnings) /\ t \in Pcb /\ x \in Pcb
      /\ Sound(list, status, pid, {x}) /\ Runs(list, status, pid, runnings, {x})
      /\ \A d \in Cpu : runnings[d] # x
      /\ Others(c, cont, runnings)
  BY <1>2 DEF Tearing
<1>4. /\ \A u \in Task : u # t => cont[u].op \notin {"exit", "kill"}
      /\ \A u \in Task : u # t => (cont[u].op \notin {"user", "sched"} => u \in Pcb)
      /\ \A u \in Task : u # t => (cont[u].op = "acquire" => cont[u].x \in Mutex)
  BY <1>2 DEF Tearing
<1>5. h \in ListHead \ {ready_queue}
  BY <1>3, HeadsDiffer
<1>6. pid \in [Pcb -> Pid] /\ ProcessTypeOK
  BY DEF RestTypeOK, ProcessTypeOK
<1>7. /\ cont' \in [Task -> Cont]
      /\ \A u \in Task : cont'[u] = IF u = t THEN User ELSE cont[u]
  BY <1>1, <1>3, ContFacts, TaskFacts
<1>8. runnings'[c] = t
  BY <1>1
<1> HIDE DEF t, x
<1>9. /\ Sound(list', status', pid, {x}) /\ Runs(list', status', pid, runnings, {x})
      /\ Same(status, status')
      /\ \A q \in Pcb : ~ On(list', wait_list(x), q)
  <2>1. wait_list(x) \in ListHead \ {ready_queue}
    BY <1>5
  <2> QED
    BY <1>1, <1>3, <2>1, UnblockMany
<1>10. Sound(list', status', pid', {})
  BY <1>1, <1>3, <1>6, <1>9, SoundFreed
<1>11. Runs(list', status', pid', runnings', {})
  <2>1. \A q \in Pcb : pid'[q] = IF q = x THEN 0 ELSE pid[q]
    BY <1>1, <1>6
  <2> QED
    BY <1>1, <1>3, <1>9, <2>1, TaskFacts DEF Runs
<1>12. Resumes(cont')
  BY <1>3, <1>4, <1>7, ContFacts DEF Resumes
<1>13. Others(c, cont', runnings')
  BY <1>1, <1>3, <1>7, ContFacts DEF Others, Harts
<1>14. Core'
  BY <1>1, <1>3, <1>7, <1>8, <1>10, <1>11, <1>12, <1>13, ContFacts, TaskFacts, CoreIntro
<1>15. ThreadCount'
  <2>1. status[x] = "EXITED"
    BY <1>3 DEF Sound
  <2> QED
    BY <1>1, <1>3, <1>6, <1>9, <2>1, CountFreed
<1>16. RestTypeOK'
  <2>1. 0 \in Pid
    BY ProcessAssumption DEF Pid
  <2> QED
    BY <1>1, <1>3, <2>1 DEF RestTypeOK, ProcessTypeOK, SyncTypeOK, mutexVars, nicVars
<1> QED
  BY <1>14, <1>15, <1>16

\* Every step of the process system calls.
LEMMA ProcessInv ==
  ASSUME Core, RestTypeOK, ThreadCount, Admitted, NEW c \in Cpu, ProcessStep(c),
         UNCHANGED nicVars
  PROVE  Core' /\ RestTypeOK' /\ ThreadCount'
<1> DEFINE Still == UNCHANGED <<mutexVars, wakeup_time, barriers, nicVars>>
<1>1. ASSUME do_exec(c), Still
      PROVE  Core' /\ RestTypeOK' /\ ThreadCount'
  <2>1. PICK p \in Pcb : find_unused_pcb(p) /\ NewTask(c, p, process_id)
    BY <1>1 DEF do_exec
  <2>2. /\ Syscall(c) /\ process_id \in Pid \ {0} /\ process_id' \in Nat \ {0}
    BY <1>1, ProcessAssumption DEF do_exec, RestTypeOK, ProcessTypeOK, Pid
  <2> QED
    BY <1>1, <2>1, <2>2, NewTaskInv
<1>2. ASSUME do_thread_create(c), Still
      PROVE  Core' /\ RestTypeOK' /\ ThreadCount'
  <2> DEFINE q == pid[runnings[c]]
  <2>1. PICK p \in Pcb : find_unused_pcb(p) /\ NewTask(c, p, q)
    BY <1>2 DEF do_thread_create
  <2>2. Syscall(c) /\ process_id' \in Nat \ {0}
    BY <1>2 DEF do_thread_create, RestTypeOK, ProcessTypeOK
  <2>3. q \in Pid \ {0}
    BY <2>2, CallerFacts DEF RestTypeOK, ProcessTypeOK
  <2> HIDE DEF q
  <2> QED
    BY <1>2, <2>1, <2>2, <2>3, NewTaskInv
<1>3. ASSUME do_exit(c), Still
      PROVE  Core' /\ RestTypeOK' /\ ThreadCount'
  <2> DEFINE p == runnings[c]
  <2>1. Syscall(c) /\ threads[pid[p]] <= 1 /\ release_pcb(c, p, "exit")
    BY <1>3 DEF do_exit, Admitted
  <2>2. p \in Pcb /\ pid[p] # 0 /\ p = runnings[c]
    BY <2>1, CallerFacts
  <2> HIDE DEF p
  <2> QED
    BY <1>3, <2>1, <2>2, ReleasePcbInv
<1>4. ASSUME NEW q \in Pid, do_kill(c, q), Still
      PROVE  Core' /\ RestTypeOK' /\ ThreadCount'
  <2>1. PICK p \in Pcb : /\ FirstWithPid(q, p) /\ p # runnings[c]
                         /\ status[p] # "RUNNING" \/ p = runnings[c]
                         /\ release_pcb(c, p, "kill")
    BY <1>4 DEF do_kill, Admitted
  <2>2. Syscall(c) /\ pid[p] # 0
    BY <1>4, <2>1 DEF do_kill, Admitted, FirstWithPid
  <2>3. \A d \in Cpu : runnings[d] # p
    BY <2>1, <2>2, SyscallEntered DEF Entered, Runs
  <2> QED
    BY <1>4, <2>1, <2>2, <2>3, ReleasePcbInv
<1>5. ASSUME release_locks(c), UNCHANGED <<procVars, wakeup_time, barriers>>
      PROVE  Core' /\ RestTypeOK' /\ ThreadCount'
  BY <1>5, ReleaseLocksInv
<1>6. ASSUME UNCHANGED <<procVars, mutexVars, wakeup_time, barriers>>,
             \/ \E q \in Pid : do_waitpid(c, q)
             \/ \E t \in 1 .. MaxTid : do_thread_join(c, t)
             \/ JoinResume(c) \/ JoinStray(c)
      PROVE  Core' /\ RestTypeOK' /\ ThreadCount'
  <2>1. pid' = pid /\ threads' = threads
    BY <1>6 DEF procVars
  <2>2. Core' /\ Same(status, status')
    BY <1>6, <2>1, WaitCore
  <2>3. RestTypeOK'
    BY <1>6 DEF RestTypeOK, ProcessTypeOK, SyncTypeOK, procVars, mutexVars, nicVars
  <2> QED
    BY <2>1, <2>2, <2>3, CountSame
<1>7. ASSUME ExitEnd(c) \/ KillEnd(c), Still
      PROVE  Core' /\ RestTypeOK' /\ ThreadCount'
  BY <1>7, ExitEndInv, KillEndInv
<1> QED
  BY <1>1, <1>2, <1>3, <1>4, <1>5, <1>6, <1>7 DEF ProcessStep

-----------------------------------------------------------------------------
(* Mailboxes *)

\* The counters of a mailbox stay integers.
LEMMA CopiedType ==
  ASSUME MailTypeOK, NEW b \in Mbox, NEW y \in Int
  PROVE  [mailboxes EXCEPT ![b] = Copied(@, y)] \in
           [Mbox -> [name : Names \cup {NoName}, ref : Int,
                     nread : Int, nwrite : Int, rounds : Int]]
<1>1. /\ MAX_MBOX_LENGTH \in Nat \ {0} /\ mailboxes[b].nwrite \in Int
      /\ mailboxes[b].nread \in Int /\ mailboxes[b].rounds \in Int
  BY MailAssumption DEF MailTypeOK
<1>2. ASSUME NEW w \in Int
      PROVE  w % MAX_MBOX_LENGTH \in Int /\ w \div MAX_MBOX_LENGTH \in Int
  BY <1>1, <1>2
<1>3. mailboxes[b].nwrite + y \in Int /\ mailboxes[b].nread - 2 * y \in Int
  BY <1>1
<1>4. Copied(mailboxes[b], y) \in [name : Names \cup {NoName}, ref : Int,
                                   nread : Int, nwrite : Int, rounds : Int]
  <2> DEFINE w == mailboxes[b].nwrite + y
             r == mailboxes[b].nread - 2 * y
  <2>0. /\ w % MAX_MBOX_LENGTH \in Int /\ mailboxes[b].rounds + (w \div MAX_MBOX_LENGTH) \in Int
        /\ r % MAX_MBOX_LENGTH \in Int /\ mailboxes[b].rounds - (r \div MAX_MBOX_LENGTH) \in Int
    BY <1>1, <1>2, <1>3
  <2>1. CASE y > 0
    <3>1. Copied(mailboxes[b], y) = [mailboxes[b] EXCEPT !.nwrite = w % MAX_MBOX_LENGTH,
                     !.rounds = mailboxes[b].rounds + (w \div MAX_MBOX_LENGTH)]
      BY <2>1 DEF Copied
    <3> HIDE DEF w, r
    <3> QED
      BY <2>0, <3>1 DEF MailTypeOK
  <2>2. CASE ~ (y > 0)
    <3>1. Copied(mailboxes[b], y) = [mailboxes[b] EXCEPT !.nread = r % MAX_MBOX_LENGTH,
                     !.rounds = mailboxes[b].rounds - (r \div MAX_MBOX_LENGTH)]
      BY <2>2 DEF Copied
    <3> HIDE DEF w, r
    <3> QED
      BY <2>0, <3>1 DEF MailTypeOK
  <2> QED
    BY <2>1, <2>2
<1> QED
  BY <1>4 DEF MailTypeOK

\* A mailbox's mutex is one of the locks, and a task may block on its lists.
LEMMA MboxFacts ==
  ASSUME NEW b \in Mbox, NEW P, NEW y
  PROVE  /\ b \in Mutex /\ b \in Int
         /\ OwnList(b, y) \in ListHead \ {ready_queue} /\ Blocker(P, OwnList(b, y))
<1>1. b \in Mutex /\ b \in Int
  BY KernelAssumption DEF Mbox, Mutex
<1> QED
  BY <1>1, HeadsDiffer, Blockers DEF OwnList

\* The mutex of the mailbox is taken, or waited for.
LEMMA MboxAcquireCore ==
  ASSUME NEW c \in Cpu, Entered(c), NEW b \in Mbox, NEW y \in Int, MboxAcquire(c, b, y),
         SyncTypeOK, ProcessTypeOK, MailTypeOK, UNCHANGED <<pid, barriers>>
  PROVE  Core' /\ Same(status, status') /\ SyncTypeOK' /\ MailTypeOK'
<1> DEFINE k == [op |-> "mbox_loop", x |-> b, y |-> y]
<1>1. b \in Mutex /\ b \in Int
  BY MboxFacts
<1>2. k \in Cont /\ k.op = "mbox_loop" /\ k.op \in Op \ {"user", "exit", "kill"}
  BY <1>1 DEF Cont, Op
<1>3. runnings[c] \in Pcb /\ pid[runnings[c]] \in Nat
  BY DEF Entered, ProcessTypeOK, Pid
<1>4. MailTypeOK'
  BY DEF MboxAcquire, MailTypeOK
<1>5. CASE /\ mlocks' = [mlocks EXCEPT ![b] = [lock |-> TRUE, pid |-> pid[runnings[c]]]]
           /\ holds' = [holds EXCEPT ![b] = @ \cup {runnings[c]}]
           /\ cont' = [cont EXCEPT ![runnings[c]] = k] /\ kernel_spin_lock' = c
           /\ UNCHANGED <<runnings, status, list>>
  <2>1. SyncTypeOK'
    BY <1>1, <1>3, <1>5 DEF SyncTypeOK
  <2> HIDE DEF k
  <2>2. Core' /\ Same(status, status')
    BY <1>2, <1>5, PlainGoOn
  <2> QED
    BY <1>4, <2>1, <2>2
<1>6. CASE do_block(c, list, status, block_queue(b), k) /\ UNCHANGED mutexVars
  <2>1. SyncTypeOK'
    BY <1>6 DEF SyncTypeOK, mutexVars
  <2>2. Blocker(pid, block_queue(b))
    BY <1>1, Blockers
  <2> HIDE DEF k
  <2>3. Core' /\ Same(status, status')
    BY <1>2, <1>6, <2>2, PlainBlock
  <2> QED
    BY <1>4, <2>1, <2>3
<1> QED
  BY <1>5, <1>6 DEF MboxAcquire

\* The message is copied and the other side woken.
LEMMA MboxCopyCore ==
  ASSUME NEW c \in Cpu, Entered(c), kernel_spin_lock = c, NEW b \in Mbox, NEW y \in Int,
         MboxCopy(c, b, y), SyncTypeOK, MailTypeOK, UNCHANGED <<pid, barriers>>
  PROVE  Core' /\ Same(status, status') /\ SyncTypeOK' /\ MailTypeOK'
<1> DEFINE k == [op |-> "mbox_end", x |-> b, y |-> y]
           h == OwnList(b, -y)
<1>1. b \in Int /\ h \in ListHead \ {ready_queue}
  BY MboxFacts
<1>2. k \in Cont /\ k.op = "mbox_end"
  BY <1>1 DEF Cont, Op
<1>3. /\ UnblockAll(list, status, h) /\ cont' = [cont EXCEPT ![runnings[c]] = k]
      /\ UNCHANGED <<kernel_spin_lock, runnings, mutexVars>>
      /\ mailboxes' = [mailboxes EXCEPT ![b] = Copied(@, y)]
  BY DEF MboxCopy
<1>4. MailTypeOK'
  <2> HIDE DEF h, k
  <2> QED
    BY <1>3, CopiedType DEF MailTypeOK
<1>5. SyncTypeOK'
  BY <1>3 DEF SyncTypeOK, mutexVars
<1> HIDE DEF h, k
<1>6. /\ Sound(list', status', pid', {}) /\ Runs(list', status', pid', runnings, {})
      /\ Same(status, status')
  BY <1>1, <1>3, UnblockMany DEF UnblockAll, Entered
<1>7. /\ Harts(runnings) /\ Resumes(cont) /\ Others(c, cont, runnings)
      /\ runnings[c] \in Task /\ runnings[c] \in Pcb /\ kernel_spin_lock' = c
  BY <1>3, TaskFacts DEF Entered
<1>8. Core'
  BY <1>2, <1>3, <1>6, <1>7, CoreSame
<1> QED
  BY <1>4, <1>5, <1>6, <1>8

\* The mutex is released, which may wake a task, and the caller blocks.
LEMMA MboxWaitCore ==
  ASSUME NEW c \in Cpu, Entered(c), NEW b \in Mbox, NEW y \in Int, MboxWait(c, b, y),
         SyncTypeOK, ProcessTypeOK, MailTypeOK, UNCHANGED <<pid, barriers>>
  PROVE  Core' /\ Same(status, status') /\ SyncTypeOK' /\ MailTypeOK'
<1> DEFINE r == do_mutex_lock_release(b, runnings[c])
           n == [op |-> "mbox_acquire", x |-> b, y |-> y]
           h == OwnList(b, y)
<1>1. b \in Mutex /\ b \in Int /\ Blocker(pid', h)
  BY MboxFacts
<1>2. /\ mlocks' = r.mlocks /\ holds' = r.holds /\ do_block(c, r.lists, r.statuses, h, n)
  BY DEF MboxWait
<1>3. /\ Sound(r.lists, r.statuses, pid, {}) /\ Runs(r.lists, r.statuses, pid, runnings, {})
      /\ Same(status, r.statuses)
      /\ r.mlocks \in [Mutex -> [lock : BOOLEAN, pid : Nat]]
      /\ r.holds \in [Mutex -> SUBSET Pcb]
  BY <1>1, ReleaseSound DEF Entered
<1>4. n \in Cont /\ n.op = "mbox_acquire"
  BY <1>1 DEF Cont, Op
<1> DEFINE L == r.lists
           S == r.statuses
<1>5. /\ Sound(L, S, pid', {}) /\ Runs(L, S, pid', runnings, {})
      /\ do_block(c, L, S, h, n)
  BY <1>2, <1>3
<1>6. SyncTypeOK'
  BY <1>2, <1>3 DEF SyncTypeOK
<1>7. MailTypeOK'
  BY DEF MboxWait, MailTypeOK
<1>8. Same(status, S)
  BY <1>3
<1> HIDE DEF r, n, L, S, h
<1>9. /\ Harts(runnings) /\ Resumes(cont) /\ Others(c, cont, runnings)
      /\ runnings[c] \in Pcb
  BY DEF Entered
<1>10. Core' /\ Same(S, status')
  BY <1>1, <1>4, <1>5, <1>9, CoreBlock
<1> QED
  BY <1>6, <1>7, <1>8, <1>10 DEF Same

\* The mutex is released and the call returns: the end of send and receive, and
\* of the close by the last user.
LEMMA MboxReleaseCore ==
  ASSUME NEW c \in Cpu, Entered(c), NEW b \in Mbox,
         SyncTypeOK, ProcessTypeOK, UNCHANGED <<pid, barriers>>,
         list' = do_mutex_lock_release(b, runnings[c]).lists,
         status' = do_mutex_lock_release(b, runnings[c]).statuses,
         mlocks' = do_mutex_lock_release(b, runnings[c]).mlocks,
         holds' = do_mutex_lock_release(b, runnings[c]).holds,
         ret_from_kernel(c)
  PROVE  Core' /\ Same(status, status') /\ SyncTypeOK'
<1> DEFINE r == do_mutex_lock_release(b, runnings[c])
<1>1. b \in Mutex
  BY MboxFacts
<1>2. list' = r.lists /\ status' = r.statuses /\ mlocks' = r.mlocks /\ holds' = r.holds
  OBVIOUS
<1>3. /\ Sound(r.lists, r.statuses, pid, {}) /\ Runs(r.lists, r.statuses, pid, runnings, {})
      /\ Same(status, r.statuses)
      /\ r.mlocks \in [Mutex -> [lock : BOOLEAN, pid : Nat]]
      /\ r.holds \in [Mutex -> SUBSET Pcb]
  BY <1>1, ReleaseSound DEF Entered
<1> HIDE DEF r
<1>4. Core'
  BY <1>2, <1>3, ReturnCore
<1> QED
  BY <1>2, <1>3, <1>4 DEF SyncTypeOK

\* Every step of the mailbox system calls.
LEMMA MailCore ==
  ASSUME Core, SyncTypeOK, ProcessTypeOK, MailTypeOK, NEW c \in Cpu, MailStep(c),
         UNCHANGED <<pid, threads, barriers>>
  PROVE  Core' /\ Same(status, status') /\ SyncTypeOK' /\ MailTypeOK'
<1>1. ASSUME NEW s \in Names, do_mbox_open(c, s)
      PROVE  Core' /\ Same(status, status') /\ SyncTypeOK' /\ MailTypeOK'
  <2>1. UNCHANGED <<schedVars, mutexVars>>
    BY <1>1 DEF do_mbox_open
  <2>2. Core' /\ Same(status, status')
    BY <2>1, CoreUnchanged
  <2>3. SyncTypeOK'
    BY <2>1 DEF SyncTypeOK, mutexVars
  <2>4. PICK b \in Mbox : mailboxes' = [mailboxes EXCEPT ![b].name = s, ![b].ref = @ + 1]
    BY <1>1 DEF do_mbox_open
  <2>5. MailTypeOK'
    BY <2>4 DEF MailTypeOK
  <2> QED
    BY <2>2, <2>3, <2>5
<1>2. ASSUME NEW b \in Mbox, do_mbox_close(c, b)
      PROVE  Core' /\ Same(status, status') /\ SyncTypeOK' /\ MailTypeOK'
  <2>1. Entered(c) /\ ret_from_kernel(c)
    BY <1>2, SyscallEntered DEF do_mbox_close
  <2>2. MailTypeOK'
    BY <1>2 DEF do_mbox_close, MailTypeOK, Free
  <2>3. CASE mailboxes[b].ref = 1
    BY <1>2, <2>1, <2>2, <2>3, MboxReleaseCore DEF do_mbox_close
  <2>4. CASE mailboxes[b].ref # 1
    <3>1. UNCHANGED <<list, status, mutexVars>>
      BY <1>2, <2>4 DEF do_mbox_close
    <3>2. Core' /\ Same(status, status')
      BY <2>1, <3>1, PlainReturn
    <3> QED
      BY <2>2, <3>1, <3>2 DEF SyncTypeOK, mutexVars
  <2> QED
    BY <2>3, <2>4
<1>3. ASSUME NEW b \in Mbox, NEW n \in MsgLengths, do_mbox_send(c, b, n) \/ do_mbox_recv(c, b, n)
      PROVE  Core' /\ Same(status, status') /\ SyncTypeOK' /\ MailTypeOK'
  <2>1. Entered(c)
    BY <1>3, SyscallEntered DEF do_mbox_send, do_mbox_recv
  <2>2. PICK y \in Int : MboxAcquire(c, b, y)
    BY <1>3, MailAssumption DEF do_mbox_send, do_mbox_recv
  <2> QED
    BY <2>1, <2>2, MboxAcquireCore
<1>4. ASSUME NEW op \in {"mbox_acquire", "mbox_loop", "mbox_end"}, InKernel(c, op)
      PROVE  /\ Entered(c) /\ kernel_spin_lock = c
             /\ cont[runnings[c]].y \in Int
  <2>1. Entered(c)
    BY <1>4, ResumeEntered DEF Op
  <2>2. runnings[c] \in Task /\ cont \in [Task -> Cont]
    BY <2>1, TaskFacts DEF Entered, Resumes
  <2> QED
    BY <1>4, <2>1, <2>2 DEF InKernel, Cont
<1>5. CASE MboxReacquire(c)
  BY <1>4, <1>5, MboxAcquireCore DEF MboxReacquire
<1>6. CASE MboxLoop(c)
  <2>1. InKernel(c, "mbox_loop")
    BY <1>6 DEF MboxLoop
  <2>2. PICK b \in Mbox : \/ MboxCopy(c, b, cont[runnings[c]].y)
                          \/ MboxWait(c, b, cont[runnings[c]].y)
    BY <1>6 DEF MboxLoop
  <2> QED
    BY <1>4, <2>1, <2>2, MboxCopyCore, MboxWaitCore
<1>7. CASE MboxEnd(c)
  <2>1. InKernel(c, "mbox_end") /\ cont[runnings[c]].x \in Mbox
    BY <1>7 DEF MboxEnd
  <2>2. MailTypeOK'
    BY <1>7 DEF MboxEnd, MailTypeOK
  <2>3. Entered(c)
    BY <1>4, <2>1
  <2> QED
    BY <1>7, <2>1, <2>2, <2>3, MboxReleaseCore DEF MboxEnd
<1> QED
  BY <1>1, <1>2, <1>3, <1>5, <1>6, <1>7 DEF MailStep, MailContinue

-----------------------------------------------------------------------------
(* The invariant *)

\* The rings keep within their bounds.
LEMMA NicTypes ==
  ASSUME RestTypeOK, UNCHANGED <<procVars, wakeup_time, mutexVars, barriers>>,
         (\E c \in Cpu : NetStep(c)) \/ Transmitted \/ Received
  PROVE  RestTypeOK'
<1>1. tx \in 0 .. TXDESCS /\ rx \in 0 .. RXDESCS /\ TXDESCS \in Nat /\ RXDESCS \in Nat
  BY KernelAssumption DEF RestTypeOK
<1>2. tx' \in 0 .. TXDESCS /\ rx' \in 0 .. RXDESCS
  <2>1. ASSUME NEW c \in Cpu, NEW n, NetSend(c, n)
        PROVE  tx' \in 0 .. TXDESCS /\ rx' \in 0 .. RXDESCS
    BY <1>1, <2>1 DEF NetSend, is_tx_desc_stat_dd
  <2>2. ASSUME NEW c \in Cpu, NetRecv(c)
        PROVE  tx' \in 0 .. TXDESCS /\ rx' \in 0 .. RXDESCS
    BY <1>1, <2>2 DEF NetRecv, is_rx_desc_stat_dd, nicVars
  <2>3. ASSUME NEW c \in Cpu, NEW n \in PktNums, do_net_recv(c, n)
        PROVE  tx' \in 0 .. TXDESCS /\ rx' \in 0 .. RXDESCS
    BY <1>1, <2>3 DEF do_net_recv, nicVars
  <2>4. CASE Transmitted \/ Received
    BY <1>1, <2>4 DEF Transmitted, Received
  <2> QED
    BY <2>1, <2>2, <2>3, <2>4 DEF NetStep, do_net_send, NetSendResume
<1> QED
  BY <1>2 DEF RestTypeOK, ProcessTypeOK, SyncTypeOK, procVars, mutexVars

\* A step after which the same tasks have exited.
LEMMA SameInv ==
  ASSUME ThreadCount, Core', Same(status, status'), RestTypeOK', pid' = pid, threads' = threads
  PROVE  Base'
  BY CountSame DEF Base

\* The state at boot.
LEMMA InitInv ==
  ASSUME Init
  PROVE  KernelInv
<1>1. /\ kernel_spin_lock = UNLOCKED
      /\ runnings[0] = 0 /\ runnings[1] = NULL /\ runnings \in [Cpu -> Task \cup {NULL}]
      /\ \A c \in Cpu : runnings[c] = IF c = 0 THEN 0 ELSE NULL
      /\ \A p \in Pcb : status[p] = IF p = 0 THEN "RUNNING" ELSE "BLOCKED"
      /\ status \in [Pcb -> Status]
      /\ \A p \in Pcb : pid[p] = IF p = 0 THEN 1 ELSE 0
      /\ \A t \in Task : cont[t] = User
      /\ cont \in [Task -> Cont]
  BY ContFacts, TaskFacts DEF Init, Status
<1>2. /\ \A h \in ListHead : list[h] = IF h = ready_queue THEN <<0>> ELSE <<>>
      /\ DOMAIN list = ListHead /\ ready_queue \in ListHead
  BY HeadsDiffer DEF Init
<1>3. <<0>> \in Seq(Pcb) /\ Len(<<0>>) = 1 /\ <<0>>[1] = 0 /\ <<0>> # <<>>
  BY TaskFacts
<1>4. list \in AllLists
  BY <1>2, <1>3 DEF AllLists, Init
<1>5. \A p : \A h \in ListHead : On(list, h, p) <=> h = ready_queue /\ p = 0
  BY <1>2, <1>3 DEF On, Contains
<1>6. LinkedOnce(list)
  BY <1>2, <1>3 DEF LinkedOnce
<1>7. \A c \in Cpu, op \in Op \ {"user"} : ~ InKernel(c, op)
  BY <1>1, TaskFacts DEF InKernel
<1>8. TaskPlacement
  BY <1>1, <1>2, <1>5, <1>6 DEF TaskPlacement
<1>9. OneHart
  BY <1>1, TaskFacts DEF OneHart
<1>10. KernelLock /\ WaitersLive
  BY <1>1, <1>5, ContFacts, TaskFacts, HeadsDiffer DEF KernelLock, WaitersLive
<1>11. HartPart /\ ContPart /\ TearPart /\ BootPart
  BY <1>1, <1>2, <1>3, ContFacts, TaskFacts DEF HartPart, ContPart, TearPart, BootPart
<1>12. Core
  BY <1>1, <1>4, <1>8, <1>9, <1>10, <1>11 DEF Core
<1>13. RestTypeOK
  <2>1. SyncTypeOK
    BY DEF Init, SyncTypeOK
  <2>2. ProcessTypeOK
    BY ProcessAssumption DEF Init, ProcessTypeOK, Pid
  <2> QED
    BY <2>1, <2>2, KernelAssumption DEF Init, RestTypeOK
<1>14. ThreadCount
  <2>1. Alive(pid, status, 1) = {0}
    BY <1>1, TaskFacts DEF Alive
  <2>2. \A q \in Pid \ {0, 1} : Alive(pid, status, q) = {}
    BY <1>1 DEF Alive
  <2>3. Cardinality({0}) = 1 /\ Cardinality({}) = 0
    BY FS_Singleton, FS_EmptySet
  <2>4. \A q \in Pid : threads[q] = IF q = 1 THEN 1 ELSE 0
    BY DEF Init
  <2>5. \A q \in Pid \ {0} : threads[q] = Cardinality(Alive(pid, status, q))
    BY <2>1, <2>2, <2>3, <2>4
  <2> QED
    BY <2>5 DEF ThreadCount, Alive
<1>15. MailTypeOK
  BY DEF Init, MailTypeOK, Free
<1> QED
  BY <1>12, <1>13, <1>14, <1>15, InvParts DEF Base

\* Every step of the kernel outside the mailboxes.
LEMMA KernelStepInv ==
  ASSUME Base, Admitted, KernelStep \/ UNCHANGED vars
  PROVE  Base'
<1>1. Core /\ RestTypeOK /\ ThreadCount
  BY DEF Base
<1>2. ASSUME NEW c \in Cpu, SchedStep(c)
      PROVE  Base'
  <2>1. /\ pid' = pid /\ threads' = threads
        /\ UNCHANGED <<procVars, mutexVars, barriers, nicVars>>
    BY <1>2 DEF SchedStep, procVars
  <2>2. wakeup_time' \in [Pcb -> Nat]
    BY <1>1, <1>2, KernelAssumption DEF SchedStep, do_sleep, RestTypeOK
  <2>3. RestTypeOK'
    BY <1>1, <2>1, <2>2
       DEF RestTypeOK, ProcessTypeOK, SyncTypeOK, procVars, mutexVars, nicVars
  <2>4. Core' /\ Same(status, status')
    BY <1>1, <1>2, <2>1, TimerCore, SleepingCore, SchedulerCore, SleepCore DEF SchedStep
  <2> QED
    BY <1>1, <2>1, <2>3, <2>4, SameInv
<1>3. ASSUME NEW c \in Cpu, SyncStep(c), UNCHANGED <<process_id, threads, tid, nicVars>>
      PROVE  Base'
  BY <1>1, <1>3, SyncCore, SameInv
<1>4. ASSUME NEW c \in Cpu, ProcessStep(c), UNCHANGED nicVars
      PROVE  Base'
  BY <1>1, <1>4, ProcessInv DEF Base
<1>5. ASSUME NEW c \in Cpu, NetStep(c), UNCHANGED <<procVars, wakeup_time, mutexVars, barriers>>
      PROVE  Base'
  <2>1. pid' = pid /\ threads' = threads
    BY <1>5 DEF procVars
  <2>2. RestTypeOK'
    BY <1>1, <1>5, NicTypes
  <2>3. Core' /\ Same(status, status')
    BY <1>1, <1>5, <2>1, NetCore
  <2> QED
    BY <1>1, <2>1, <2>2, <2>3, SameInv
<1>6. ASSUME slave_wait_for_task,
             UNCHANGED <<procVars, wakeup_time, mutexVars, barriers, nicVars>>
      PROVE  Base'
  <2>1. pid' = pid /\ threads' = threads
    BY <1>6 DEF procVars
  <2>2. RestTypeOK'
    BY <1>1, <1>6 DEF RestTypeOK, ProcessTypeOK, SyncTypeOK, procVars, mutexVars, nicVars
  <2>3. Core' /\ Same(status, status')
    BY <1>1, <1>6, <2>1, SlaveCore
  <2> QED
    BY <1>1, <2>1, <2>2, <2>3, SameInv
<1>7. ASSUME UNCHANGED <<schedVars, procVars>>, RestTypeOK'
      PROVE  Base'
  <2>1. pid' = pid /\ threads' = threads
    BY <1>7 DEF procVars
  <2>2. Core' /\ Same(status, status')
    BY <1>1, <1>7, <2>1, CoreUnchanged
  <2> QED
    BY <1>1, <1>7, <2>1, <2>2, SameInv
<1>8. ASSUME Tick, UNCHANGED <<procVars, mutexVars, barriers, nicVars>>
      PROVE  Base'
  <2>1. wakeup_time' \in [Pcb -> Nat]
    BY <1>1, <1>8 DEF Tick, RestTypeOK
  <2>2. RestTypeOK'
    BY <1>1, <1>8, <2>1
       DEF RestTypeOK, ProcessTypeOK, SyncTypeOK, procVars, mutexVars, nicVars
  <2> QED
    BY <1>7, <1>8, <2>2 DEF Tick
<1>9. ASSUME Transmitted \/ Received, UNCHANGED <<procVars, wakeup_time, mutexVars, barriers>>
      PROVE  Base'
  <2>1. RestTypeOK'
    BY <1>1, <1>9, NicTypes
  <2>2. UNCHANGED schedVars
    BY <1>9 DEF Transmitted, Received
  <2> QED
    BY <1>7, <1>9, <2>1, <2>2
<1>10. CASE UNCHANGED vars
  <2>1. UNCHANGED <<schedVars, procVars, wakeup_time, mutexVars, barriers, nicVars>>
    BY <1>10 DEF vars
  <2>2. RestTypeOK'
    BY <1>1, <2>1 DEF RestTypeOK, ProcessTypeOK, SyncTypeOK, procVars, mutexVars, nicVars
  <2> QED
    BY <1>7, <2>1, <2>2
<1> QED
  BY <1>2, <1>3, <1>4, <1>5, <1>6, <1>8, <1>9, <1>10 DEF KernelStep

\* Every step preserves the invariant.
LEMMA NextInv ==
  ASSUME KernelInv, Admitted, [Next]_vars
  PROVE  KernelInv'
<1>1. Base /\ MailTypeOK
  BY InvParts
<1>2. ASSUME KernelStep \/ UNCHANGED vars, UNCHANGED mailboxes
      PROVE  KernelInv'
  <2>1. MailTypeOK'
    BY <1>1, <1>2 DEF MailTypeOK
  <2> QED
    BY <1>1, <1>2, <2>1, KernelStepInv, InvPartsNext
<1>3. ASSUME NEW c \in Cpu, MailStep(c), UNCHANGED <<procVars, wakeup_time, barriers, nicVars>>
      PROVE  KernelInv'
  <2>1. pid' = pid /\ threads' = threads
    BY <1>3 DEF procVars
  <2>2. Core' /\ Same(status, status') /\ SyncTypeOK' /\ MailTypeOK'
    BY <1>1, <1>3, <2>1, MailCore DEF Base, RestTypeOK
  <2>3. RestTypeOK'
    BY <1>1, <1>3, <2>2 DEF Base, RestTypeOK, ProcessTypeOK, procVars, nicVars
  <2> QED
    BY <1>1, <2>1, <2>2, <2>3, SameInv, InvPartsNext DEF Base
<1> QED
  BY <1>2, <1>3 DEF Next, vars

\* All the parts of the invariant together hold in every reachable state of the
\* two harts, whatever the order of system calls, interrupts and packets.
THEOREM KernelInvariant ==
  ASSUME Admitted
  PROVE  Spec => []KernelInv
<1>1. Init => KernelInv
  BY InitInv
<1>2. KernelInv /\ [Next]_vars => KernelInv'
  BY NextInv
<1> QED
  BY <1>1, <1>2, PTL DEF Spec

\* The variables of the kernel keep their types: no list links anything but a
\* slot, and no ring index leaves its ring.
THEOREM KernelTyped ==
  ASSUME Admitted
  PROVE  Spec => []TypeOK
<1>1. KernelInv => TypeOK
  BY DEF KernelInv
<1> QED
  BY <1>1, KernelInvariant, PTL

\* do_block, do_unblock, do_scheduler, release_pcb, exec and thread_create
\* never lose a task and never link one twice or into the wrong list.
THEOREM TasksPlaced ==
  ASSUME Admitted
  PROVE  Spec => []TaskPlacement
<1>1. KernelInv => TaskPlacement
  BY DEF KernelInv
<1> QED
  BY <1>1, KernelInvariant, PTL

\* find_idle_task and slave_wait_for_task never give a task to two harts, and
\* TASK_RUNNING marks the tasks that harts run.
THEOREM TasksOnOneHart ==
  ASSUME Admitted
  PROVE  Spec => []OneHart
<1>1. KernelInv => OneHart
  BY DEF KernelInv
<1> QED
  BY <1>1, KernelInvariant, PTL

\* Every path through switch_to and ret_from_kernel leaves the kernel lock with
\* the hart whose task is in the kernel, and with nobody when none is.
THEOREM LockFollowsKernel ==
  ASSUME Admitted
  PROVE  Spec => []KernelLock
<1>1. KernelInv => KernelLock
  BY DEF KernelInv
<1> QED
  BY <1>1, KernelInvariant, PTL

\* Nobody is left on the wait_list of a slot that exit or kill has given up.
THEOREM WaitersWaitForLive ==
  ASSUME Admitted
  PROVE  Spec => []WaitersLive
<1>1. KernelInv => WaitersLive
  BY DEF KernelInv
<1> QED
  BY <1>1, KernelInvariant, PTL

\* threads[pid] counts the threads of a process through every exec,
\* thread_create, exit and kill.
THEOREM ThreadsCounted ==
  ASSUME Admitted
  PROVE  Spec => []ThreadCount
<1>1. KernelInv => ThreadCount
  BY DEF KernelInv
<1> QED
  BY <1>1, KernelInvariant, PTL

\* A slot that exit or kill has given up is run by no hart and linked nowhere.
THEOREM ExitedAreGone ==
  ASSUME Admitted
  PROVE  Spec => []ExitedGone
<1>1. KernelInv => ExitedGone
  BY TaskFacts DEF KernelInv, TaskPlacement, OneHart, ExitedGone
<1> QED
  BY <1>1, KernelInvariant, PTL
=============================================================================
