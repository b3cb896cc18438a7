------------------------- MODULE CardFilesRefinement -------------------------
(***************************************************************************)
(* The blocks and the directory of CardFiles implement the files of        *)
(* FileStore: a file's contents are the blocks from its first one on.      *)
(***************************************************************************)
EXTENDS CardFiles

Contents(p, i) ==
  [name |-> dir[p][i].name,
   bytes |-> [k \in 0 .. BlockSize * dir[p][i].blocks - 1 |-> data[p][BlockSize * i + k]]]

Store == INSTANCE FileStore
  WITH Ids <- Slots, NoFile <- 0, MaxBlocks <- NumSlots,
       files <- [p \in Ports |-> [i \in Files(p) |-> Contents(p, i)]],
       cursor <- [p \in Ports |->
                    [file |-> IF open[p] THEN fdesc[p].mcfile ELSE 0,
                     offset |-> fdesc[p].offset, async |-> fdesc[p].async]]

(* What is written to a file is what is read from it at that offset, and   *)
(* no other file changes, whatever is created, renamed, deleted, searched  *)
(* for and read between.                                                   *)
FileStoreSpec == Store!Spec
=============================================================================
