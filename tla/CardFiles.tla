------------------------------ MODULE CardFiles ------------------------------
(***************************************************************************)
(* Memory card files (psxbios.cpp, 1986-2481).                             *)
(*                                                                         *)
(* A card is a block of directory entries and the blocks of its files.     *)
(* There is one descriptor to a card.  A file's blocks are found from its  *)
(* first one alone: block k of file i is block i + k of the card; the      *)
(* links in the directory are written for others to read.                  *)
(*                                                                         *)
(* The calls may come from handlers too.  firstfile and delete deliver an  *)
(* event, which may run callbacks, before they look at the directory; the  *)
(* callbacks leave the registers as they are.  What the calls post and     *)
(* deliver is in Events.  The calls on a card that is absent do nothing.   *)
(***************************************************************************)
EXTENDS Integers

CONSTANTS
  Ports,      \* the ports with a card
  NumSlots,   \* files of one block a card has room for
  BlockSize,  \* units of data in a block
  SizeMod,    \* the size field counts blocks modulo this (8)
  Names, NoName,
  Values,     \* what a unit may hold
  Blank,      \* what the units of a formatted card hold
  Patterns    \* what programs search for: each pattern as the names it fits

NoPort == -1

ASSUME CardAssumption ==
  /\ Ports \subseteq Nat /\ Blank \in Values
  /\ SizeMod \in Nat \ {0} /\ NumSlots \in Nat \ {0} /\ BlockSize \in Nat \ {0}
  /\ NoName \notin Names /\ Patterns \subseteq SUBSET Names

Slots == 1 .. NumSlots

Places == BlockSize .. BlockSize * (NumSlots + 1) - 1

VARIABLES
  dir,      \* the directory entries of a card
  data,     \* the units of a card, by their place
  fdesc,    \* g_hle->FDesc[1 + mcd]: first block, offset, asynchronous
  search,   \* g_hle->ffile and nfile
  got,      \* the unit last read
  open,     \* history: the file the descriptor was opened on exists
  owed      \* history: files the search has to find, if they stay

vars == <<dir, data, fdesc, search, got, open, owed>>
-----------------------------------------------------------------------------
(* A directory entry; next is the next block's slot, or 0; sum says that   *)
(* the checksum is right.                                                  *)
Entry(state, blocks, next, name) ==
  [state |-> state, blocks |-> blocks, next |-> next, name |-> name, sum |-> TRUE]

Named(p, name) == {i \in Slots : dir[p][i].state # "free" /\ dir[p][i].name = name}

FreeSlots(p) == {i \in Slots : dir[p][i].state = "free"}

FirstOf(S) == CHOOSE i \in S : \A j \in S : i <= j

Files(p) == {i \in Slots : dir[p][i].state = "first"}

Extent(p, i) == i .. i + dir[p][i].blocks - 1

Init ==
  /\ dir = [p \in Ports |-> [i \in Slots |-> Entry("free", 0, 0, NoName)]]
  /\ data = [p \in Ports |-> [place \in Places |-> Blank]]
  /\ fdesc = [p \in Ports |-> [mcfile |-> 0, offset |-> 0, async |-> FALSE]]
  /\ search = [port |-> NoPort, names |-> {}, nfile |-> 0]
  /\ got = Blank
  /\ open = [p \in Ports |-> FALSE] /\ owed = {}
-----------------------------------------------------------------------------
(* Programs create files where a run of blocks that no other file has      *)
(* follows the first free one (the code does not look), and of a size the  *)
(* directory can tell.                                                     *)
MayCreate(p, i, n) ==
  /\ n < SizeMod
  /\ i + n - 1 <= NumSlots
  /\ \A f \in Files(p) : Extent(p, f) \cap (i .. i + n - 1) = {}

(* Programs stay within the file they opened.                              *)
MayMove(p, to) == open[p] /\ to <= BlockSize * dir[p][fdesc[p].mcfile].blocks

MayAccess(p) == MayMove(p, fdesc[p].offset + 1)

Place(p) == BlockSize * fdesc[p].mcfile + fdesc[p].offset
-----------------------------------------------------------------------------
(* Mutant: the offset is that of the file before.                          *)
OpenedWhereItWas(p, i, async) ==
  fdesc' = [fdesc EXCEPT ![p].mcfile = i, ![p].async = async]

Opened(p, i, async) ==
  fdesc' = [fdesc EXCEPT ![p] = [mcfile |-> i, offset |-> 0, async |-> async]]

(* Without a file of that name, the descriptor stays on the file it was on *)
(* but is rewound.  With FCREAT it is the same, if there is a file or no   *)
(* free slot.                                                              *)
Open(p, name, async) ==
  LET found == Named(p, name)
  IN  /\ Opened(p, IF found = {} THEN fdesc[p].mcfile ELSE FirstOf(found), async)
      /\ open' = [open EXCEPT ![p] = @ \/ found # {}]
      /\ UNCHANGED <<dir, data, search, got, owed>>

(* Mutant: the last block is marked as one in the middle.                  *)
ChainedOn(p, i, n, name) ==
  [k \in Slots |->
     IF k = i THEN Entry("first", n % SizeMod, IF n > 1 THEN i + 1 ELSE 0, name)
     ELSE IF k \in i .. i + n - 1
     THEN Entry("middle", 0, IF k < i + n - 1 THEN k + 1 ELSE 0, NoName)
     ELSE dir[p][k]]

(* The directory with a file of n blocks from slot i on.                   *)
Chained(p, i, n, name) ==
  [k \in Slots |->
     IF k = i THEN Entry("first", n % SizeMod, IF n > 1 THEN i + 1 ELSE 0, name)
     ELSE IF k \in i .. i + n - 1
     THEN Entry(IF k < i + n - 1 THEN "middle" ELSE "last", 0,
                IF k < i + n - 1 THEN k + 1 ELSE 0, NoName)
     ELSE dir[p][k]]

(* open with FCREAT.                                                       *)
Create(p, name, n, async) ==
  LET i == FirstOf(FreeSlots(p))
  IN  /\ Named(p, name) = {} /\ FreeSlots(p) # {} /\ MayCreate(p, i, n)
      /\ dir' = [dir EXCEPT ![p] = Chained(p, i, n, name)]
      /\ Opened(p, i, async)
      /\ open' = [open EXCEPT ![p] = TRUE]
      /\ UNCHANGED <<data, search, got, owed>>

(* What an asynchronous read returns, 0, is what its offset moves by.      *)
Read(p) ==
  /\ MayAccess(p)
  /\ got' = data[p][Place(p)]
  /\ fdesc' = [fdesc EXCEPT ![p].offset = IF fdesc[p].async THEN @ ELSE @ + 1]
  /\ UNCHANGED <<dir, data, search, open, owed>>

(* Bound: one unit of a card at a time holds anything but Blank.  Nothing  *)
(* depends on what a unit holds, so one that can be told from the others   *)
(* shows whatever is read or written in the wrong place.                   *)
OneMark(p, v) == v # Blank => \A place \in Places \ {Place(p)} : data[p][place] = Blank

Write(p, v) ==
  /\ MayAccess(p) /\ OneMark(p, v)
  /\ data' = [data EXCEPT ![p][Place(p)] = v]
  /\ fdesc' = [fdesc EXCEPT ![p].offset = @ + 1]
  /\ UNCHANGED <<dir, search, got, open, owed>>

(* SEEK_SET and SEEK_CUR.                                                  *)
Lseek(p, whence, offset) ==
  LET to == IF whence = "set" THEN offset ELSE fdesc[p].offset + offset
  IN  /\ MayMove(p, to)
      /\ fdesc' = [fdesc EXCEPT ![p].offset = to]
      /\ UNCHANGED <<dir, data, search, got, open, owed>>
-----------------------------------------------------------------------------
Fits(d, p, names) == {i \in Slots : d[p][i].state # "free" /\ d[p][i].name \in names}

(* The search no longer owes what was deleted, or renamed so that it does  *)
(* not fit.                                                                *)
StillOwed ==
  owed' = IF search.port = NoPort THEN {} ELSE owed \cap Fits(dir', search.port, search.names)

Rename(p, old, new) ==
  /\ Named(p, old) # {}
  /\ LET i == FirstOf(Named(p, old))
     IN  dir' = [dir EXCEPT ![p][i].name = new, ![p][i].sum = TRUE]
  /\ StillOwed
  /\ UNCHANGED <<data, fdesc, search, got, open>>

(* Only the first block is freed; its checksum is not made right.          *)
Delete(p, name) ==
  /\ Named(p, name) # {}
  /\ LET i == FirstOf(Named(p, name))
     IN  /\ dir' = [dir EXCEPT ![p][i].state = "free", ![p][i].sum = FALSE]
         /\ open' = [open EXCEPT ![p] = @ /\ fdesc[p].mcfile # i]
  /\ StillOwed
  /\ UNCHANGED <<data, fdesc, search, got>>
-----------------------------------------------------------------------------
(* Mutant: the entry at nfile + 1 is skipped.                              *)
bufileSkips(p) ==
  LET found == {i \in Fits(dir, p, search.names) : i > search.nfile + 1}
      nfile == IF found = {} THEN NumSlots + 1 ELSE FirstOf(found)
  IN  /\ search' = [search EXCEPT !.nfile = nfile]
      /\ owed' = owed \ {nfile}

(* It tries the entries behind nfile, and one more, which is no entry.     *)
bufile(p) ==
  LET found == {i \in Fits(dir, p, search.names) : i > search.nfile}
      nfile == IF found = {} THEN NumSlots + 1 ELSE FirstOf(found)
  IN  /\ search' = [search EXCEPT !.nfile = nfile]
      /\ owed' = owed \ {nfile}

(* firstfile sets the search up and delivers its event: the callbacks may  *)
(* make any call, nextfile too, but start no search of their own.          *)
Firstfile(p, names) ==
  /\ search' = [port |-> p, names |-> names, nfile |-> 0]
  /\ owed' = Fits(dir, p, names)
  /\ UNCHANGED <<dir, data, fdesc, got, open>>

(* nextfile, and what firstfile does when its callbacks have returned.     *)
Nextfile ==
  /\ search.port # NoPort
  /\ bufile(search.port)
  /\ UNCHANGED <<dir, data, fdesc, got, open>>
-----------------------------------------------------------------------------
Next ==
  \/ \E p \in Ports, name \in Names, async \in BOOLEAN :
       Open(p, name, async) \/ \E n \in Slots : Create(p, name, n, async)
  \/ \E p \in Ports : Read(p) \/ \E v \in Values : Write(p, v)
  \/ \E p \in Ports, offset \in 0 .. BlockSize * NumSlots :
       \E whence \in {"set", "cur"} : Lseek(p, whence, offset)
  \/ \E p \in Ports, name \in Names : Delete(p, name) \/ \E new \in Names : Rename(p, name, new)
  \/ \E p \in Ports, names \in Patterns : Firstfile(p, names)
  \/ Nextfile

Spec == Init /\ [][Next]_vars
-----------------------------------------------------------------------------
(* Types; the search stays within the sectors of the directory.            *)
TypeOK ==
  /\ dir \in [Ports -> [Slots ->
       [state : {"free", "first", "middle", "last"}, blocks : 0 .. NumSlots,
        next : 0 .. NumSlots, name : Names \cup {NoName}, sum : BOOLEAN]]]
  /\ data \in [Ports -> [Places -> Values]]
  /\ fdesc \in [Ports -> [mcfile : 0 .. NumSlots, offset : 0 .. BlockSize * NumSlots,
                          async : BOOLEAN]]
  /\ search \in [port : Ports \cup {NoPort}, names : SUBSET Names, nfile : 0 .. NumSlots + 1]
  /\ got \in Values /\ open \in [Ports -> BOOLEAN] /\ owed \subseteq Slots

(* The directory is what other programs expect: the blocks of a file are   *)
(* chained in their order, from the first to the last, as many as it says, *)
(* with right checksums, whatever was created, renamed and deleted before. *)
FilesWhole ==
  \A p \in Ports : \A i \in Files(p) :
    /\ dir[p][i].blocks > 0 /\ Extent(p, i) \subseteq Slots
    /\ \A k \in Extent(p, i) :
         LET end == k = i + dir[p][i].blocks - 1
         IN  /\ k # i => dir[p][k].state = IF end THEN "last" ELSE "middle"
             /\ dir[p][k].next = IF end THEN 0 ELSE k + 1
             /\ dir[p][k].sum

(* A search that found no more file has found every one that fits and was  *)
(* there all the time, though others were created, renamed or deleted      *)
(* between the calls, or by a callback of firstfile itself.                *)
SearchComplete == search.nfile > NumSlots => owed = {}
=============================================================================
