------------------------------ MODULE FileStore ------------------------------
(***************************************************************************)
(* What memory card files promise: on each card a set of files, which no   *)
(* operation on another one touches, and one cursor.                       *)
(***************************************************************************)
EXTENDS Integers

CONSTANTS
  Ports,
  Ids,        \* what tells the files of a card apart, whatever they are called
  NoFile,
  Names,
  Values,     \* what a unit of a file may hold
  Blank,      \* what is read before anything is
  BlockSize,  \* units in a block
  MaxBlocks   \* blocks on a card

VARIABLES
  files,    \* by port and id: the name and the contents
  cursor,   \* by port: the file (or none), the offset in it, asynchronous or not
  got       \* the unit that was read last

vars == <<files, cursor, got>>

Init ==
  /\ files = [p \in Ports |-> << >>]
  /\ cursor = [p \in Ports |-> [file |-> NoFile, offset |-> 0, async |-> FALSE]]
  /\ got = Blank

Named(p, name) == {f \in DOMAIN files[p] : files[p][f].name = name}

Open(p, f, async) ==
  /\ cursor' = [cursor EXCEPT ![p] = [file |-> f, offset |-> 0, async |-> async]]
  /\ UNCHANGED <<files, got>>

(* With no file of the name, and none created, the cursor is rewound.      *)
OpenFails(p, name, async) ==
  /\ cursor' = [cursor EXCEPT ![p].offset = 0, ![p].async = async]
  /\ Named(p, name) = {}
  /\ UNCHANGED <<files, got>>

(* What is in a new file is not said.                                      *)
Create(p, f, name, n, async) ==
  /\ cursor' = [cursor EXCEPT ![p] = [file |-> f, offset |-> 0, async |-> async]]
  /\ f \notin DOMAIN files[p] /\ Named(p, name) = {}
  /\ DOMAIN files'[p] = DOMAIN files[p] \cup {f}
  /\ files'[p][f].name = name /\ files'[p][f].bytes \in [0 .. n * BlockSize - 1 -> Values]
  /\ files' = [files EXCEPT ![p] = [g \in DOMAIN @ \cup {f} |->
                                      IF g = f THEN files'[p][f] ELSE @[g]]]
  /\ UNCHANGED got

(* An asynchronous read leaves the cursor where it is.                     *)
Read(p) ==
  LET c == cursor[p]
  IN  /\ cursor' = [cursor EXCEPT ![p].offset = IF c.async THEN @ ELSE @ + 1]
      /\ c.file # NoFile /\ c.offset \in DOMAIN files[p][c.file].bytes
      /\ got' = files[p][c.file].bytes[c.offset]
      /\ UNCHANGED files

Write(p, v) ==
  LET c == cursor[p]
  IN  /\ cursor' = [cursor EXCEPT ![p].offset = @ + 1]
      /\ c.file # NoFile /\ c.offset \in DOMAIN files[p][c.file].bytes
      /\ files' = [files EXCEPT ![p][c.file].bytes[c.offset] = v]
      /\ UNCHANGED got

Seek(p, offset) ==
  /\ cursor' = [cursor EXCEPT ![p].offset = offset]
  /\ UNCHANGED <<files, got>>

Rename(p, f, name) ==
  /\ UNCHANGED <<cursor, got>>
  /\ files' = [files EXCEPT ![p][f].name = name]

Delete(p, f) ==
  /\ cursor' = [cursor EXCEPT ![p].file = IF @ = f THEN NoFile ELSE @]
  /\ files' = [files EXCEPT ![p] = [g \in DOMAIN @ \ {f} |-> @[g]]]
  /\ UNCHANGED got

Next ==
  \E p \in Ports :
    \/ \E async \in BOOLEAN :
         \/ \E name \in Names : OpenFails(p, name, async)
         \/ \E f \in DOMAIN files[p] : Open(p, f, async)
         \/ \E f \in Ids, name \in Names, n \in 1 .. MaxBlocks : Create(p, f, name, n, async)
    \/ Read(p) \/ \E v \in Values : Write(p, v)
    \/ \E offset \in 0 .. MaxBlocks * BlockSize : Seek(p, offset)
    \/ \E f \in DOMAIN files[p] : Delete(p, f) \/ \E name \in Names : Rename(p, f, name)

Spec == Init /\ [][Next]_vars
=============================================================================
