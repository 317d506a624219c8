-------------------------- MODULE FileStoreProofs --------------------------
(***************************************************************************)
(* The abstract store keeps its names a tree.  Fs implements the store     *)
(* (FsImplementsStore of StoreProofs), so the names on the disk form a     *)
(* tree in every state in which a file system is on it.                    *)
(***************************************************************************)
EXTENDS FileStore, TLAPS

\* Tree alone is not inductive: a fresh identifier must not be the root, which
\* holds because a store that is ready has its root directory.
StoreInv == Tree /\ (ready => Root \in dirs)

\* A name that is added leads out of a live directory to a new directory, a
\* new file or an old file: the names stay a tree (do_mkdir, do_touch, do_ln).
LEMMA AddName ==
  ASSUME StoreInv, NEW e \in ents' \ ents, Touch(e) \/ Mkdir(e) \/ Ln(e)
  PROVE  StoreInv'
<1> USE DEF StoreInv
<1>1. CASE Touch(e)
  <2>1. ready' = ready /\ dirs' = dirs /\ ents' = ents \cup {e}
    BY <1>1 DEF Touch
  <2>2. DOMAIN files' = DOMAIN files \cup {e[3]}
    BY <1>1 DEF Touch
  <2>3. e[1] \in dirs /\ e[3] \notin dirs /\ e[3] \notin DOMAIN files /\ e[3] # Root
        /\ \A f \in ents : e[1] # f[1] \/ e[2] # f[2]
    BY <1>1 DEF Touch, New, Fresh
  <2>4. QED
    BY <2>1, <2>2, <2>3 DEF Tree
<1>2. CASE Mkdir(e)
  <2>1. ready' = ready /\ files' = files /\ ents' = ents \cup {e} /\ dirs' = dirs \cup {e[3]}
    BY <1>2 DEF Mkdir
  <2>2. e[1] \in dirs /\ e[3] \notin dirs /\ e[3] \notin DOMAIN files /\ e[3] # Root
        /\ \A f \in ents : e[1] # f[1] \/ e[2] # f[2]
    BY <1>2 DEF Mkdir, New, Fresh
  <2>3. QED
    BY <2>1, <2>2 DEF Tree
<1>3. CASE Ln(e)
  <2>1. ready' = ready /\ files' = files /\ ents' = ents \cup {e} /\ dirs' = dirs
    BY <1>3 DEF Ln
  <2>2. ready /\ e[1] \in dirs /\ e[3] \in DOMAIN files
        /\ \A f \in ents : e[1] # f[1] \/ e[2] # f[2]
    BY <1>3 DEF Ln, New
  <2>3. QED
    BY <2>1, <2>2 DEF Tree
<1>4. QED
  BY <1>1, <1>2, <1>3

\* A name that is removed takes a file with it only if it was the last one,
\* and a directory only if it is empty: no other name is left hanging (do_rm,
\* do_rmdir).
LEMMA RemoveName ==
  ASSUME StoreInv, NEW e \in ents \ ents', Rm(e) \/ Rmdir(e)
  PROVE  StoreInv'
<1> USE DEF StoreInv
<1>1. CASE Rm(e)
  <2>1. ready' = ready /\ dirs' = dirs /\ ents' = ents \ {e}
    BY <1>1 DEF Rm
  <2>2. DOMAIN files' = DOMAIN files \cap {f[3] : f \in ents'}
    BY <1>1 DEF Rm, Keep, Named
  <2>3. QED
    BY <2>1, <2>2 DEF Tree
<1>2. CASE Rmdir(e)
  <2>1. ready' = ready /\ files' = files /\ ents' = ents \ {e} /\ dirs' = dirs \ {e[3]}
    BY <1>2 DEF Rmdir
  <2>2. ready /\ e[3] \in dirs /\ \A f \in ents : f[1] # e[3]
    BY <1>2 DEF Rmdir
  <2>3. QED
    BY <2>1, <2>2 DEF Tree
<1>3. QED
  BY <1>1, <1>2

\* The names of the store form a tree of live files and directories in every
\* state: what do_ls, do_cd and do_rm rely on when they follow a name.
THEOREM StoreTree == Spec => []Tree
<1>1. Init => StoreInv
  BY DEF Init, StoreInv, Tree
<1>2. StoreInv /\ [Next]_vars => StoreInv'
  <2> SUFFICES ASSUME StoreInv, [Next]_vars PROVE StoreInv'
    OBVIOUS
  <2>1. CASE Mkfs
    <3>1. PICK n \in Name, x \in Id \ {Root} :
            ents' = {<<Root, n, x>>} /\ files' \in [{x} -> File]
      BY <2>1 DEF Mkfs
    <3>2. dirs' = {Root} /\ DOMAIN files' = {x}
      BY <2>1, <3>1 DEF Mkfs
    <3>3. QED
      BY <3>1, <3>2 DEF StoreInv, Tree
  <2>2. CASE Wipe
    BY <2>2 DEF Wipe, StoreInv, Tree
  <2>3. CASE \E e \in ents' \ ents : Touch(e) \/ Mkdir(e) \/ Ln(e)
    BY <2>3, AddName
  <2>4. CASE \E e \in ents \ ents' : Rm(e) \/ Rmdir(e)
    BY <2>4, RemoveName
  <2>5. CASE \E x \in DOMAIN files, k \in Block : Put(x, k)
    <3>1. PICK x \in DOMAIN files, k \in Block : Put(x, k)
      BY <2>5
    <3>2. DOMAIN files' = DOMAIN files
      BY <3>1 DEF Put
    <3>3. QED
      BY <3>1, <3>2 DEF Put, StoreInv, Tree
  <2>6. CASE UNCHANGED vars
    BY <2>6 DEF vars, StoreInv, Tree
  <2>7. QED
    BY <2>1, <2>2, <2>3, <2>4, <2>5, <2>6 DEF Next
<1>3. QED
  BY <1>1, <1>2, PTL DEF Spec, StoreInv
=============================================================================
