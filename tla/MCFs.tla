-------------------------------- MODULE MCFs --------------------------------
EXTENDS Fs, TLC

MCNames == {"a", "b"}
MCBuffers == {<<1>>}
MCOffsets == {-1}

\* The store that the disk holds, kept so that TLC finds it once per step.
VARIABLE store

MCvars == <<vars, store>>
MCInit == Init /\ store = NoStore
MCNext ==
  /\ Next
  /\ store' = IF ~ Ready' THEN NoStore
              ELSE IF Ready /\ disk' = disk THEN store ELSE StoreOf(disk')
MCSpec == MCInit /\ [][MCNext]_MCvars

Store == INSTANCE FileStore WITH
  Id <- Inum, Root <- ROOT_DIR_INUM, Name <- Path \ {".", ".."}, Block <- Direct,
  Size <- Nat, Content <- [1 .. NBYTES_PER_BLOCK -> Int], Hole <- <<>>,
  ready <- store.ready, ents <- store.ents, dirs <- store.dirs, files <- store.files

\* The file system implements the store: each write to the disk, and each
\* power failure, is one step of the store or none.
StoreSpec == Store!Spec
=============================================================================
