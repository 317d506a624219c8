----------------------------- MODULE FileStore -----------------------------
(***************************************************************************)
(* What the file system promises to a user: a tree of named files and      *)
(* directories on a disk.  Names appear and disappear in one step, also    *)
(* when the power fails in the middle of a call; a file's bytes change     *)
(* only by a write to that file, and a new file is empty.                  *)
(***************************************************************************)
EXTENDS Integers

CONSTANTS Id, Root, Name, Block, Size, Content, Hole

VARIABLES ready,   \* the disk holds a file system
          ents,    \* the names: triples of a directory, a name, what it names
          dirs,    \* the directories
          files    \* the files: their size and what their blocks hold

vars == <<ready, ents, dirs, files>>

File == [size : Size, blocks : [Block -> Content \cup {Hole}]]
Empty == [size |-> 0, blocks |-> [k \in Block |-> Hole]]

Named(E) == {e[3] : e \in E}
Keep(f, S) == [x \in DOMAIN f \cap S |-> f[x]]
Fresh == Id \ (dirs \cup DOMAIN files)
New(e) == /\ e[1] \in dirs /\ e[2] \in Name
          /\ \A f \in ents : e[1] # f[1] \/ e[2] # f[2]

Init == ready = FALSE /\ ents = {} /\ dirs = {} /\ files = <<>>

\* mkfs makes a root directory with one file, of any contents; running it
\* again first takes everything away.
Mkfs ==
  /\ ~ ready
  /\ ready' = TRUE
  /\ dirs' = {Root}
  /\ \E n \in Name, x \in Id \ {Root} :
       ents' = {<<Root, n, x>>} /\ files' \in [{x} -> File]

Wipe == ready /\ ready' = FALSE /\ ents' = {} /\ dirs' = {} /\ files' = <<>>

Touch(e) ==
  /\ ready /\ New(e) /\ e[3] \in Fresh
  /\ ents' = ents \cup {e}
  /\ files' = [y \in DOMAIN files \cup {e[3]} |-> IF y = e[3] THEN Empty ELSE files[y]]
  /\ UNCHANGED <<ready, dirs>>

Mkdir(e) ==
  /\ ready /\ New(e) /\ e[3] \in Fresh
  /\ ents' = ents \cup {e}
  /\ dirs' = dirs \cup {e[3]}
  /\ UNCHANGED <<ready, files>>

Ln(e) ==
  /\ ready /\ New(e) /\ e[3] \in DOMAIN files
  /\ ents' = ents \cup {e}
  /\ UNCHANGED <<ready, dirs, files>>

\* A file goes with its last name.
Rm(e) ==
  /\ ready /\ e[3] \in DOMAIN files
  /\ ents' = ents \ {e}
  /\ files' = Keep(files, Named(ents'))
  /\ UNCHANGED <<ready, dirs>>

\* A directory goes when it is empty.
Rmdir(e) ==
  /\ ready /\ e[3] \in dirs /\ \A f \in ents : f[1] # e[3]
  /\ ents' = ents \ {e}
  /\ dirs' = dirs \ {e[3]}
  /\ UNCHANGED <<ready, files>>

\* A write goes on block by block; a block that is added, with the size that
\* the file will have, may first hold what the disk held there before.
Put(x, k) ==
  /\ ready /\ x \in DOMAIN files
  /\ files'[x].blocks[k] \in Content
  /\ files'[x].size \in Size /\ files'[x].size >= files[x].size
  /\ files' = [files EXCEPT ![x].blocks[k] = files'[x].blocks[k], ![x].size = files'[x].size]
  /\ UNCHANGED <<ready, ents, dirs>>

Next ==
  \/ Mkfs \/ Wipe
  \/ \E e \in ents' \ ents : Touch(e) \/ Mkdir(e) \/ Ln(e)
  \/ \E e \in ents \ ents' : Rm(e) \/ Rmdir(e)
  \/ \E x \in DOMAIN files, k \in Block : Put(x, k)

Spec == Init /\ [][Next]_vars

-----------------------------------------------------------------------------

\* The names form a tree of live files and directories: every name is in a
\* directory and leads to something that exists, no directory has a name
\* twice, no directory has two names and the root has none.
Tree ==
  /\ \A e \in ents : e[1] \in dirs /\ e[3] \in dirs \cup DOMAIN files
  /\ \A e, f \in ents : e[1] = f[1] /\ e[2] = f[2] => e = f
  /\ \A e, f \in ents : e[3] = f[3] /\ e[3] \in dirs => e = f
  /\ dirs \cap DOMAIN files = {}
  /\ \A e \in ents : e[3] # Root
  /\ \A x \in DOMAIN files : \E e \in ents : e[3] = x
=============================================================================
