-------------------------- MODULE CardFilesProofs --------------------------
(***************************************************************************)
(* Theorems about CardFiles, for cards of any size.                        *)
(***************************************************************************)
EXTENDS CardFilesRefinement, FiniteSetTheorems, TLAPS

(* Only first blocks have a name; the file a descriptor was opened on is   *)
(* one; what the search owes is still ahead of it, and still fits.         *)
LinksNameless ==
  \A p \in Ports, i \in Slots : dir[p][i].state \in {"middle", "last"} => dir[p][i].name = NoName

OpenOnFile == \A p \in Ports : open[p] => fdesc[p].mcfile \in Files(p)

OwedAhead ==
  \A i \in owed :
    /\ i > search.nfile
    /\ search.port \in Ports /\ i \in Fits(dir, search.port, search.names)

IInv == TypeOK /\ FilesWhole /\ LinksNameless /\ OpenOnFile /\ OwedAhead

Entries ==
  [state : {"free", "first", "middle", "last"}, blocks : 0 .. NumSlots,
   next : 0 .. NumSlots, name : Names \cup {NoName}, sum : BOOLEAN]
-----------------------------------------------------------------------------
(* Lemmas on numbers.                                                      *)

LEMMA Least ==
  ASSUME NEW S \in SUBSET Nat, S # {}
  PROVE  \E m \in S : \A n \in S : m <= n
<1> DEFINE R == StrictSubsetOrdering(Nat)
           F == FiniteSubsetsOf(Nat)
           T == {0 .. n : n \in S}
<1>1. IsWellFoundedOn(R, F)
  BY FS_StrictSubsetOrderingWellFounded
<1>2. T \subseteq F
  <2>1. ASSUME NEW n \in S PROVE 0 .. n \subseteq Nat /\ IsFiniteSet(0 .. n)
    BY FS_Interval
  <2>2. QED
    BY <2>1 DEF FiniteSubsetsOf
<1>3. T # {}
  OBVIOUS
<1>4. PICK t \in T : \A u \in T : ~(<<u, t>> \in R)
  <2> HIDE DEF R, F, T
  <2>1. QED
    BY <1>1, <1>2, <1>3, WFMin
<1>5. PICK m \in S : t = 0 .. m
  OBVIOUS
<1>6. ASSUME NEW n \in S, n < m PROVE FALSE
  <2>1. 0 .. n \subseteq 0 .. m /\ m \in 0 .. m /\ m \notin 0 .. n /\ 0 .. m \subseteq Nat
    BY <1>6
  <2>2. <<0 .. n, 0 .. m>> \in R
    BY <2>1 DEF StrictSubsetOrdering
  <2>3. QED
    BY <1>4, <1>5, <2>2
<1>7. QED
  BY <1>6

LEMMA FirstOfIsFirst ==
  ASSUME NEW S \in SUBSET Slots, S # {}
  PROVE  FirstOf(S) \in S /\ \A j \in S : FirstOf(S) <= j
<1>1. S \in SUBSET Nat
  BY DEF Slots
<1>2. \E m \in S : \A n \in S : m <= n
  BY <1>1, Least
<1>3. QED
  BY <1>2 DEF FirstOf

LEMMA TimesMonotone ==
  ASSUME NEW a \in Nat, NEW b \in Nat, NEW c \in Nat, a <= b
  PROVE  c * a <= c * b /\ c * a \in Nat
<1>1. PICK d \in Nat : b = a + d
  <2>1. b - a \in Nat /\ b = a + (b - a)
    OBVIOUS
  <2>2. QED
    BY <2>1
<1>2. c * b = c * a + c * d /\ c * a \in Nat /\ c * d \in Nat
  BY <1>1
<1>3. QED
  BY <1>2

(* The place of a descriptor within its file is a place of the card.       *)
LEMMA PlaceOnCard ==
  ASSUME NEW i \in Slots, NEW n \in Nat, i + n - 1 <= NumSlots,
         NEW k \in Nat, k + 1 <= BlockSize * n
  PROVE  BlockSize * i + k \in Places /\ k + 1 <= BlockSize * NumSlots
<1>1. BlockSize \in Nat /\ NumSlots \in Nat /\ i \in Nat /\ 1 <= i
  BY CardAssumption DEF Slots
<1>2. BlockSize * 1 <= BlockSize * i /\ BlockSize * i \in Nat
  BY <1>1, TimesMonotone
<1>3. BlockSize * (i + n) <= BlockSize * (NumSlots + 1)
  BY <1>1, TimesMonotone
<1>4. BlockSize * (i + n) = BlockSize * i + BlockSize * n
  BY <1>1
<1>5. BlockSize * n <= BlockSize * NumSlots
  BY <1>1, TimesMonotone
<1>6. BlockSize * n \in Nat /\ BlockSize * NumSlots \in Nat /\ BlockSize * (NumSlots + 1) \in Nat
  BY <1>1
<1>7. QED
  BY <1>1, <1>2, <1>3, <1>4, <1>5, <1>6 DEF Places
-----------------------------------------------------------------------------
LEMMA DirTyped ==
  ASSUME TypeOK
  PROVE  dir \in [Ports -> [Slots -> Entries]]
  BY DEF TypeOK, Entries

(* What the invariant says of a file.                                      *)
LEMMA WholeFile ==
  ASSUME TypeOK, FilesWhole, NEW p \in Ports, NEW i \in Files(p)
  PROVE  /\ i \in Slots /\ dir[p][i] \in Entries /\ dir[p][i].blocks \in Nat \ {0}
         /\ i + dir[p][i].blocks - 1 <= NumSlots
<1>1. i \in Slots /\ dir[p][i] \in Entries /\ i \in Nat
  <2>1. i \in Slots
    BY DEF Files
  <2>2. dir[p] \in [Slots -> Entries]
    BY DirTyped
  <2>3. QED
    BY <2>1, <2>2, CardAssumption DEF Slots
<1>2. dir[p][i].blocks > 0 /\ Extent(p, i) \subseteq Slots /\ dir[p][i].blocks \in Nat
  BY <1>1, CardAssumption DEF FilesWhole, Entries
<1>3. i + dir[p][i].blocks - 1 \in Extent(p, i)
  BY <1>1, <1>2 DEF Extent
<1>4. QED
  BY <1>1, <1>2, <1>3 DEF Slots

(* No block of a file is another file's first.                             *)
LEMMA FilesApart ==
  ASSUME TypeOK, FilesWhole, NEW p \in Ports, NEW i \in Files(p), NEW j \in Files(p),
         j \in Extent(p, i)
  PROVE  i = j
  BY DEF FilesWhole, Files

LEMMA NamedIsFile ==
  ASSUME TypeOK, LinksNameless, NEW p \in Ports, NEW name \in Names, Named(p, name) # {}
  PROVE  /\ FirstOf(Named(p, name)) \in Files(p)
         /\ dir[p][FirstOf(Named(p, name))].name = name
<1>1. FirstOf(Named(p, name)) \in Named(p, name)
  BY FirstOfIsFirst DEF Named
<1>2. QED
  BY <1>1, CardAssumption DEF Named, Files, LinksNameless, TypeOK

(* A step that leaves the directory alone.                                 *)
LEMMA SameDirectory ==
  ASSUME dir' = dir
  PROVE  /\ FilesWhole => FilesWhole'
         /\ LinksNameless => LinksNameless'
         /\ \A p \in Ports : Files(p)' = Files(p)
  BY DEF FilesWhole, LinksNameless, Files, Extent
-----------------------------------------------------------------------------
LEMMA Starts == Init => IInv
<1> SUFFICES ASSUME Init PROVE IInv
  OBVIOUS
<1>1. Entry("free", 0, 0, NoName) \in Entries
  BY CardAssumption DEF Entry, Entries
<1>2. TypeOK
  <2>1. dir \in [Ports -> [Slots -> Entries]]
    BY <1>1 DEF Init
  <2>2. BlockSize * NumSlots \in Nat /\ NumSlots \in Nat
    BY CardAssumption
  <2>3. fdesc \in [Ports -> [mcfile : 0 .. NumSlots, offset : 0 .. BlockSize * NumSlots,
                             async : BOOLEAN]]
    <3>1. 0 \in 0 .. NumSlots /\ 0 \in 0 .. BlockSize * NumSlots /\ FALSE \in BOOLEAN
      BY <2>2
    <3>2. QED
      BY <3>1 DEF Init
  <2>4. QED
    BY <2>1, <2>2, <2>3, CardAssumption DEF Init, TypeOK, Entries
<1>3. \A p \in Ports : Files(p) = {}
  BY DEF Init, Files, Entry
<1>4. QED
  BY <1>2, <1>3 DEF IInv, Init, FilesWhole, LinksNameless, OpenOnFile, OwedAhead, Entry
-----------------------------------------------------------------------------
(* Steps that leave the directory alone.                                   *)

Descriptors == [mcfile : 0 .. NumSlots, offset : 0 .. BlockSize * NumSlots, async : BOOLEAN]

LEMMA RestTyped ==
  TypeOK <=> /\ dir \in [Ports -> [Slots -> Entries]]
             /\ data \in [Ports -> [Places -> Values]]
             /\ fdesc \in [Ports -> Descriptors]
             /\ search \in [port : Ports \cup {NoPort}, names : SUBSET Names,
                            nfile : 0 .. NumSlots + 1]
             /\ got \in Values /\ open \in [Ports -> BOOLEAN] /\ owed \subseteq Slots
  BY DEF TypeOK, Entries, Descriptors

LEMMA DirectoryAlone ==
  ASSUME IInv, dir' = dir, TypeOK', OpenOnFile', OwedAhead'
  PROVE  IInv'
  BY SameDirectory DEF IInv

LEMMA OpenKeeps ==
  ASSUME IInv, NEW p \in Ports, NEW name \in Names, NEW async \in BOOLEAN,
         Open(p, name, async)
  PROVE  IInv'
<1> DEFINE found == Named(p, name)
           i == IF found = {} THEN fdesc[p].mcfile ELSE FirstOf(found)
<1>1. /\ dir' = dir /\ data' = data /\ search' = search /\ got' = got /\ owed' = owed
      /\ fdesc' = [fdesc EXCEPT ![p] = [mcfile |-> i, offset |-> 0, async |-> async]]
      /\ open' = [open EXCEPT ![p] = @ \/ found # {}]
  BY DEF Open, Opened
<1>2. fdesc \in [Ports -> Descriptors] /\ open \in [Ports -> BOOLEAN]
  BY RestTyped DEF IInv
<1>3. found # {} => i \in Files(p) /\ i \in Slots
  BY NamedIsFile DEF IInv, Files
<1>4. i \in 0 .. NumSlots
  BY <1>2, <1>3, CardAssumption DEF Descriptors, Slots
<1> HIDE DEF i, found
<1>5. [mcfile |-> i, offset |-> 0, async |-> async] \in Descriptors
  <2>1. 0 \in 0 .. BlockSize * NumSlots
    BY CardAssumption
  <2>2. QED
    BY <1>4, <2>1 DEF Descriptors
<1>6. fdesc' \in [Ports -> Descriptors] /\ open' \in [Ports -> BOOLEAN]
  BY <1>1, <1>2, <1>5
<1>7. TypeOK'
  BY <1>1, <1>6 DEF IInv, TypeOK, Descriptors
<1>8. OpenOnFile'
  <2>1. ASSUME NEW q \in Ports, open'[q] PROVE fdesc'[q].mcfile \in Files(q)
    <3>1. CASE q = p
      <4>1. fdesc'[q].mcfile = i /\ (open[p] \/ found # {})
        BY <1>1, <1>2, <2>1, <3>1
      <4>2. CASE found = {}
        BY <3>1, <4>1, <4>2 DEF i, IInv, OpenOnFile
      <4>3. CASE found # {}
        BY <1>3, <3>1, <4>1, <4>3
      <4>4. QED
        BY <4>2, <4>3
    <3>2. CASE q # p
      BY <1>1, <1>2, <2>1, <3>2 DEF IInv, OpenOnFile
    <3>3. QED
      BY <3>1, <3>2
  <2>2. QED
    BY <1>1, <2>1, SameDirectory DEF OpenOnFile
<1>9. OwedAhead'
  BY <1>1 DEF IInv, OwedAhead
<1>10. QED
  BY <1>1, <1>7, <1>8, <1>9, DirectoryAlone

(* A descriptor that moves within the limits of the file keeps the file.   *)
LEMMA MoveKeeps ==
  ASSUME IInv, NEW p \in Ports, NEW to \in Nat, MayMove(p, to)
  PROVE  /\ to \in 0 .. BlockSize * NumSlots
         /\ [fdesc EXCEPT ![p].offset = to] \in [Ports -> Descriptors]
         /\ \A q \in Ports : [fdesc EXCEPT ![p].offset = to][q].mcfile = fdesc[q].mcfile
<1>1. fdesc \in [Ports -> Descriptors]
  BY RestTyped DEF IInv
<1>2. fdesc[p].mcfile \in Files(p)
  BY DEF MayMove, IInv, OpenOnFile
<1>3. PICK n \in Nat \ {0} : n = dir[p][fdesc[p].mcfile].blocks
  BY <1>2, WholeFile DEF IInv
<1>4. fdesc[p].mcfile \in Slots /\ fdesc[p].mcfile + n - 1 <= NumSlots
  BY <1>2, <1>3, WholeFile DEF IInv
<1>5. n <= NumSlots /\ NumSlots \in Nat /\ BlockSize \in Nat
  BY <1>4, CardAssumption DEF Slots
<1>6. BlockSize * n <= BlockSize * NumSlots /\ BlockSize * n \in Nat
  BY <1>5, TimesMonotone
<1>7. to \in 0 .. BlockSize * NumSlots
  BY <1>3, <1>5, <1>6 DEF MayMove
<1>8. QED
  BY <1>1, <1>7 DEF Descriptors

(* What a program accesses lies in its file, and on the card.              *)
LEMMA AccessOnCard ==
  ASSUME IInv, NEW p \in Ports, MayAccess(p)
  PROVE  /\ Place(p) \in Places /\ fdesc[p].offset \in Nat
         /\ fdesc[p].mcfile \in Files(p)
         /\ fdesc[p].offset + 1 <= BlockSize * dir[p][fdesc[p].mcfile].blocks
<1>1. fdesc[p] \in Descriptors
  BY RestTyped DEF IInv
<1>2. fdesc[p].offset \in Nat /\ fdesc[p].mcfile \in Files(p)
  <2>1. BlockSize * NumSlots \in Nat
    BY CardAssumption
  <2>2. fdesc[p].offset \in 0 .. BlockSize * NumSlots
    BY <1>1 DEF Descriptors
  <2>3. QED
    BY <2>1, <2>2 DEF MayAccess, MayMove, IInv, OpenOnFile
<1>3. fdesc[p].offset + 1 <= BlockSize * dir[p][fdesc[p].mcfile].blocks
  BY DEF MayAccess, MayMove
<1>4. Place(p) \in Places
  BY <1>2, <1>3, WholeFile, PlaceOnCard DEF IInv, Place
<1>5. QED
  BY <1>2, <1>3, <1>4

LEMMA MovesKeep ==
  ASSUME IInv, NEW p \in Ports, NEW to \in Nat, MayMove(p, to),
         fdesc' = [fdesc EXCEPT ![p].offset = to], UNCHANGED <<dir, search, open, owed>>,
         data' \in [Ports -> [Places -> Values]], got' \in Values
  PROVE  IInv'
<1>1. fdesc' \in [Ports -> Descriptors] /\ \A q \in Ports : fdesc'[q].mcfile = fdesc[q].mcfile
  BY MoveKeeps
<1>2. TypeOK'
  BY <1>1 DEF IInv, TypeOK, Descriptors
<1>3. OpenOnFile'
  BY <1>1, SameDirectory DEF IInv, OpenOnFile
<1>4. OwedAhead'
  BY DEF IInv, OwedAhead
<1>5. QED
  BY <1>2, <1>3, <1>4, DirectoryAlone

LEMMA ReadKeeps ==
  ASSUME IInv, NEW p \in Ports, Read(p)
  PROVE  IInv'
<1> DEFINE to == IF fdesc[p].async THEN fdesc[p].offset ELSE fdesc[p].offset + 1
<1>1. MayAccess(p) /\ Place(p) \in Places /\ fdesc[p].offset \in Nat
  BY AccessOnCard DEF Read
<1>2. to \in Nat /\ MayMove(p, to)
  <2>1. PICK m \in Nat : m = BlockSize * dir[p][fdesc[p].mcfile].blocks
    <3>1. dir[p][fdesc[p].mcfile].blocks \in Nat
      BY <1>1, AccessOnCard, WholeFile DEF IInv
    <3>2. QED
      BY <3>1, CardAssumption
  <2>2. QED
    BY <1>1, <2>1 DEF MayAccess, MayMove
<1>3. fdesc' = [fdesc EXCEPT ![p].offset = to]
  BY DEF Read
<1>4. data' = data /\ got' = data[p][Place(p)] /\ UNCHANGED <<dir, search, open, owed>>
  BY DEF Read
<1>5. data \in [Ports -> [Places -> Values]]
  BY RestTyped DEF IInv
<1>6. got' \in Values
  BY <1>1, <1>4, <1>5
<1> HIDE DEF to
<1>7. QED
  BY <1>2, <1>3, <1>4, <1>5, <1>6, MovesKeep

LEMMA WriteKeeps ==
  ASSUME IInv, NEW p \in Ports, NEW v \in Values, Write(p, v)
  PROVE  IInv'
<1>1. MayAccess(p) /\ Place(p) \in Places /\ fdesc[p].offset \in Nat
  BY AccessOnCard DEF Write
<1>2. data' \in [Ports -> [Places -> Values]] /\ got' \in Values
  <2>1. data \in [Ports -> [Places -> Values]] /\ got \in Values
    BY RestTyped DEF IInv
  <2>2. data' = [data EXCEPT ![p][Place(p)] = v] /\ got' = got
    BY DEF Write
  <2>3. QED
    BY <1>1, <2>1, <2>2
<1>3. /\ fdesc' = [fdesc EXCEPT ![p].offset = fdesc[p].offset + 1]
      /\ UNCHANGED <<dir, search, open, owed>> /\ MayMove(p, fdesc[p].offset + 1)
  BY DEF Write, MayAccess
<1>4. fdesc[p].offset + 1 \in Nat
  BY <1>1
<1>5. QED
  BY <1>2, <1>3, <1>4, MovesKeep

LEMMA LseekKeeps ==
  ASSUME IInv, NEW p \in Ports, NEW whence, NEW offset \in Nat, Lseek(p, whence, offset)
  PROVE  IInv'
<1> DEFINE to == IF whence = "set" THEN offset ELSE fdesc[p].offset + offset
<1>1. fdesc[p].offset \in Nat
  <2>1. fdesc[p] \in Descriptors /\ BlockSize * NumSlots \in Nat
    BY RestTyped, CardAssumption DEF IInv
  <2>2. QED
    BY <2>1 DEF Descriptors
<1>2. to \in Nat
  BY <1>1
<1>3. MayMove(p, to) /\ fdesc' = [fdesc EXCEPT ![p].offset = to]
  BY DEF Lseek
<1>4. UNCHANGED <<dir, search, open, owed, data, got>>
  BY DEF Lseek
<1>5. data' \in [Ports -> [Places -> Values]] /\ got' \in Values
  BY <1>4, RestTyped DEF IInv
<1> HIDE DEF to
<1>6. QED
  BY <1>2, <1>3, <1>4, <1>5, MovesKeep
-----------------------------------------------------------------------------
(* Steps that write the directory.                                         *)

(* The entries c of a card are whole for its file i: this depends on no    *)
(* entry but the file's own.                                               *)
Whole(c, i) ==
  /\ c[i].blocks > 0 /\ i .. i + c[i].blocks - 1 \subseteq Slots
  /\ \A k \in i .. i + c[i].blocks - 1 :
       LET end == k = i + c[i].blocks - 1
       IN  /\ k # i => c[k].state = IF end THEN "last" ELSE "middle"
           /\ c[k].next = IF end THEN 0 ELSE k + 1
           /\ c[k].sum

LEMMA WholeCards ==
  /\ FilesWhole <=> \A p \in Ports : \A i \in Slots : dir[p][i].state = "first" => Whole(dir[p], i)
  /\ FilesWhole' <=> \A p \in Ports : \A i \in Slots : dir'[p][i].state = "first" => Whole(dir'[p], i)
  BY DEF FilesWhole, Files, Extent, Whole

(* The entries c are those of the card with a file of n blocks laid from i on. *)
Laid(p, i, n, name, c) ==
  /\ c[i].state = "first" /\ c[i].blocks = n /\ c[i].name = name /\ c[i].sum
  /\ c[i].next = IF n > 1 THEN i + 1 ELSE 0
  /\ \A k \in Slots : k \in i .. i + n - 1 /\ k # i =>
       /\ c[k].state = IF k < i + n - 1 THEN "middle" ELSE "last"
       /\ c[k].next = IF k < i + n - 1 THEN k + 1 ELSE 0
       /\ c[k].state # "first" /\ c[k].name = NoName /\ c[k].sum
  /\ \A k \in Slots : k \notin i .. i + n - 1 => c[k] = dir[p][k]
  /\ \A k \in Slots : c[k].state = "first" => k = i \/ k \in Files(p)
  /\ \A f \in Files(p) :
       /\ f \in Slots /\ f # i /\ c[f] = dir[p][f]
       /\ \A k \in Extent(p, f) : c[k] = dir[p][k]

LEMMA Created ==
  ASSUME IInv, NEW p \in Ports, NEW name \in Names, NEW n \in Slots, NEW async \in BOOLEAN,
         Create(p, name, n, async)
  PROVE  \E i \in Slots, c \in [Slots -> Entries] :
           /\ Laid(p, i, n, name, c) /\ i + n - 1 <= NumSlots /\ dir[p][i].state = "free"
           /\ dir' = [dir EXCEPT ![p] = c]
           /\ fdesc' = [fdesc EXCEPT ![p] = [mcfile |-> i, offset |-> 0, async |-> async]]
           /\ open' = [open EXCEPT ![p] = TRUE]
           /\ data' = data /\ search' = search /\ got' = got /\ owed' = owed
<1>1. PICK i \in Slots : i = FirstOf(FreeSlots(p)) /\ dir[p][i].state = "free"
  <2>1. FreeSlots(p) # {} /\ FreeSlots(p) \in SUBSET Slots
    BY DEF Create, FreeSlots
  <2>2. FirstOf(FreeSlots(p)) \in FreeSlots(p)
    BY <2>1, FirstOfIsFirst
  <2>3. QED
    BY <2>2 DEF FreeSlots
<1>2. /\ MayCreate(p, i, n) /\ dir' = [dir EXCEPT ![p] = Chained(p, i, n, name)]
      /\ fdesc' = [fdesc EXCEPT ![p] = [mcfile |-> i, offset |-> 0, async |-> async]]
      /\ open' = [open EXCEPT ![p] = TRUE]
      /\ data' = data /\ search' = search /\ got' = got /\ owed' = owed
  BY <1>1 DEF Create, Opened
<1>3. /\ n \in Nat \ {0} /\ i \in Nat \ {0} /\ NumSlots \in Nat
      /\ i + n - 1 <= NumSlots /\ n % SizeMod = n /\ n \in 0 .. NumSlots
  BY <1>2, CardAssumption DEF MayCreate, Slots
<1> DEFINE new == i .. i + n - 1
<1>4. PICK c : c = Chained(p, i, n, name)
  OBVIOUS
<1>5. dir \in [Ports -> [Slots -> Entries]]
  BY DirTyped DEF IInv
<1>6. /\ c[i] = Entry("first", n, IF n > 1 THEN i + 1 ELSE 0, name)
      /\ \A k \in Slots : k \notin new => c[k] = dir[p][k]
      /\ \A k \in Slots : k \in new /\ k # i =>
           c[k] = Entry(IF k < i + n - 1 THEN "middle" ELSE "last", 0,
                        IF k < i + n - 1 THEN k + 1 ELSE 0, NoName)
  <2>1. i \in new
    BY <1>3
  <2>2. QED
    BY <1>3, <1>4, <2>1 DEF Chained
<1>7. /\ c[i].state = "first" /\ c[i].blocks = n /\ c[i].name = name /\ c[i].sum
       /\ c[i].next = IF n > 1 THEN i + 1 ELSE 0
  BY <1>6 DEF Entry
<1>8. ASSUME NEW k \in Slots, k \in new, k # i
       PROVE  /\ c[k].state = IF k < i + n - 1 THEN "middle" ELSE "last"
              /\ c[k].next = IF k < i + n - 1 THEN k + 1 ELSE 0
              /\ c[k].state # "first" /\ c[k].name = NoName /\ c[k].sum
  <2>1. PICK e : e = IF k < i + n - 1 THEN k + 1 ELSE 0
    OBVIOUS
  <2>2. PICK t : t = (IF k < i + n - 1 THEN "middle" ELSE "last") /\ t # "first"
    OBVIOUS
  <2>3. c[k] = Entry(t, 0, e, NoName)
    BY <1>6, <1>8, <2>1, <2>2
  <2>4. QED
    BY <2>1, <2>2, <2>3 DEF Entry
<1>9. c \in [Slots -> Entries]
  <2>1. c = [k \in Slots |-> c[k]]
    BY <1>4 DEF Chained
  <2>2. ASSUME NEW k \in Slots PROVE c[k] \in Entries
    <3>1. CASE k = i
      <4>1. PICK e \in 0 .. NumSlots : e = IF n > 1 THEN i + 1 ELSE 0
        BY <1>3
      <4>2. Entry("first", n, e, name) \in Entries
        BY <1>3 DEF Entry, Entries
      <4>3. QED
        BY <1>6, <3>1, <4>1, <4>2
    <3>2. CASE k # i /\ k \in new
      <4>1. PICK e \in 0 .. NumSlots : e = IF k < i + n - 1 THEN k + 1 ELSE 0
        BY <1>3 DEF Slots
      <4>2. PICK t \in {"middle", "last"} : t = IF k < i + n - 1 THEN "middle" ELSE "last"
        OBVIOUS
      <4>3. 0 \in 0 .. NumSlots
        BY <1>3
      <4>4. Entry(t, 0, e, NoName) \in Entries
        BY <4>3 DEF Entry, Entries
      <4>5. QED
        BY <1>6, <3>2, <4>1, <4>2, <4>4
    <3>3. CASE k # i /\ k \notin new
      BY <1>5, <1>6, <3>3
    <3>4. QED
      BY <3>1, <3>2, <3>3
  <2>3. QED
    BY <2>1, <2>2
<1>10. i \in new
  BY <1>3
<1>11. ASSUME NEW f \in Files(p)
       PROVE  /\ \A k \in Extent(p, f) : k \in Slots /\ k \notin new /\ c[k] = dir[p][k]
              /\ f \in Extent(p, f) /\ f \in Slots
  <2>1. f \in Extent(p, f) /\ f \in Slots /\ Extent(p, f) \subseteq Slots
    <3>1. f \in Nat /\ f \in Slots /\ dir[p][f].blocks \in Nat \ {0}
      BY WholeFile, CardAssumption DEF IInv, Slots
    <3>2. QED
      BY <3>1 DEF Extent, IInv, FilesWhole
  <2>2. Extent(p, f) \cap new = {}
    BY <1>2 DEF MayCreate
  <2>3. QED
    BY <1>6, <1>10, <2>1, <2>2
<1>12. \A k \in Slots : c[k].state = "first" => k = i \/ (k \in Files(p) /\ k \notin new)
  <2>1. ASSUME NEW k \in Slots, c[k].state = "first", k # i
        PROVE  k \notin new
    BY <1>8, <2>1
  <2>2. QED
    BY <1>6, <2>1 DEF Files
<1>13. \A g \in Files(p) : g # i /\ c[g] = dir[p][g]
  BY <1>10, <1>11
<1>14. Laid(p, i, n, name, c)
  BY <1>6, <1>11, <1>12, <1>13, <1>7, <1>8 DEF Laid
<1>15. QED
  BY <1>1, <1>2, <1>3, <1>4, <1>9, <1>14

LEMMA CreateKeeps ==
  ASSUME IInv, NEW p \in Ports, NEW name \in Names, NEW n \in Slots, NEW async \in BOOLEAN,
         Create(p, name, n, async)
  PROVE  IInv'
<1>1. PICK i \in Slots, c \in [Slots -> Entries] :
        /\ Laid(p, i, n, name, c) /\ i + n - 1 <= NumSlots /\ dir[p][i].state = "free"
        /\ dir' = [dir EXCEPT ![p] = c]
        /\ fdesc' = [fdesc EXCEPT ![p] = [mcfile |-> i, offset |-> 0, async |-> async]]
        /\ open' = [open EXCEPT ![p] = TRUE]
        /\ data' = data /\ search' = search /\ got' = got /\ owed' = owed
  BY Created
<1> DEFINE new == i .. i + n - 1
<1>2. dir \in [Ports -> [Slots -> Entries]]
  BY DirTyped DEF IInv
<1>3. n \in Nat \ {0} /\ i \in Nat \ {0} /\ NumSlots \in Nat
  BY CardAssumption DEF Slots
<1>4. /\ dir' \in [Ports -> [Slots -> Entries]] /\ dir'[p] = c
      /\ \A q \in Ports : q # p => dir'[q] = dir[q]
  BY <1>1, <1>2
<1>5. /\ c[i].state = "first" /\ c[i].blocks = n /\ c[i].name = name /\ c[i].sum
      /\ c[i].next = IF n > 1 THEN i + 1 ELSE 0
  BY <1>1 DEF Laid
<1>6. ASSUME NEW k \in Slots, k \in new, k # i
      PROVE  /\ c[k].state = IF k < i + n - 1 THEN "middle" ELSE "last"
             /\ c[k].next = IF k < i + n - 1 THEN k + 1 ELSE 0
             /\ c[k].name = NoName /\ c[k].sum
  BY <1>1, <1>6 DEF Laid
<1>7. /\ \A k \in Slots : k \notin new => c[k] = dir[p][k]
      /\ \A k \in Slots : c[k].state = "first" => k = i \/ k \in Files(p)
  BY <1>1 DEF Laid
<1>8. ASSUME NEW f \in Files(p)
      PROVE  c[f] = dir[p][f] /\ \A k \in Extent(p, f) : c[k] = dir[p][k]
  BY <1>1 DEF Laid
<1> HIDE DEF new
<1>9. FilesWhole'
  <2>1. ASSUME NEW q \in Ports, NEW f \in Slots, dir'[q][f].state = "first"
        PROVE  Whole(dir'[q], f)
    <3>1. CASE q # p
      BY <1>4, <2>1, <3>1, WholeCards DEF IInv
    <3>2. CASE q = p /\ f = i
      <4>1. c[i].blocks = n /\ c[i].next = (IF n > 1 THEN i + 1 ELSE 0) /\ c[i].sum
        BY <1>5
      <4>2. new \subseteq Slots
        BY <1>1, <1>3 DEF new, Slots
      <4>3. ASSUME NEW k \in new, k # i
            PROVE  /\ c[k].state = (IF k < i + n - 1 THEN "middle" ELSE "last")
                   /\ c[k].next = (IF k < i + n - 1 THEN k + 1 ELSE 0) /\ c[k].sum
        BY <1>6, <4>2, <4>3
      <4>4. \A k \in new : k \in Nat /\ k >= i /\ k <= i + n - 1
        BY <1>1, <1>3 DEF new
      <4>5. \A k \in new : /\ k # i => c[k].state = IF k = i + n - 1 THEN "last" ELSE "middle"
                           /\ c[k].next = IF k = i + n - 1 THEN 0 ELSE k + 1
                           /\ c[k].sum
        BY <1>1, <1>3, <4>1, <4>3, <4>4
      <4>6. QED
        BY <1>1, <1>3, <1>4, <3>2, <4>1, <4>2, <4>5 DEF Whole, new
    <3>3. CASE q = p /\ f # i
      <4>1. f \in Files(p)
        BY <1>4, <1>7, <2>1, <3>3
      <4>2. Whole(dir[p], f)
        BY <4>1, WholeCards DEF IInv, Files
      <4>3. /\ c[f] = dir[p][f]
            /\ \A k \in f .. f + dir[p][f].blocks - 1 : c[k] = dir[p][k]
        BY <1>8, <4>1 DEF Extent
      <4>4. QED
        BY <1>4, <3>3, <4>2, <4>3 DEF Whole
    <3>4. QED
      BY <3>1, <3>2, <3>3
  <2>2. QED
    BY <2>1, WholeCards
<1>10. LinksNameless'
  <2>1. ASSUME NEW q \in Ports, NEW k \in Slots, dir'[q][k].state \in {"middle", "last"}
        PROVE  dir'[q][k].name = NoName
    <3>1. CASE q # p
      BY <1>4, <2>1, <3>1 DEF IInv, LinksNameless
    <3>2. CASE q = p
      <4>1. CASE k = i
        BY <1>4, <1>5, <2>1, <3>2, <4>1
      <4>2. CASE k # i /\ k \in new
        BY <1>4, <1>6, <3>2, <4>2
      <4>3. CASE k \notin new
        BY <1>7, <1>4, <2>1, <3>2, <4>3 DEF IInv, LinksNameless
      <4>4. QED
        BY <4>1, <4>2, <4>3
    <3>3. QED
      BY <3>1, <3>2
  <2>2. QED
    BY <2>1 DEF LinksNameless
<1>11. fdesc \in [Ports -> Descriptors] /\ open \in [Ports -> BOOLEAN]
  BY RestTyped DEF IInv
<1>12. fdesc' \in [Ports -> Descriptors] /\ open' \in [Ports -> BOOLEAN]
  <2>1. 0 \in 0 .. BlockSize * NumSlots /\ i \in 0 .. NumSlots
    BY <1>1, <1>3, CardAssumption
  <2>2. [mcfile |-> i, offset |-> 0, async |-> async] \in Descriptors
    BY <2>1 DEF Descriptors
  <2>3. QED
    BY <1>1, <1>11, <2>2
<1>13. OpenOnFile'
  <2>1. ASSUME NEW q \in Ports, open'[q]
        PROVE  fdesc'[q].mcfile \in Slots /\ dir'[q][fdesc'[q].mcfile].state = "first"
    <3>1. CASE q = p
      BY <1>1, <1>4, <1>11, <1>5, <3>1
    <3>2. CASE q # p
      BY <1>1, <1>4, <1>11, <2>1, <3>2 DEF IInv, OpenOnFile, Files
    <3>3. QED
      BY <3>1, <3>2
  <2>2. QED
    BY <2>1 DEF OpenOnFile, Files
<1>14. OwedAhead'
  <2>1. ASSUME NEW j \in owed
        PROVE  /\ j > search.nfile /\ search.port \in Ports
               /\ j \in Fits(dir', search.port, search.names)
    <3>1. /\ j > search.nfile /\ search.port \in Ports
          /\ j \in Fits(dir, search.port, search.names)
      BY DEF IInv, OwedAhead
    <3>2. CASE search.port # p
      BY <1>4, <3>1, <3>2 DEF Fits
    <3>3. CASE search.port = p
      <4>1. dir[p][j].name # NoName
        BY <3>1, <3>3, CardAssumption, RestTyped DEF Fits, IInv
      <4>2. j \in Files(p)
        BY <3>1, <3>3, <4>1, <1>2 DEF Fits, IInv, LinksNameless, Files, Entries
      <4>3. c[j] = dir[p][j]
        BY <1>8, <4>2
      <4>4. QED
        BY <1>4, <3>1, <3>3, <4>3 DEF Fits
    <3>4. QED
      BY <3>2, <3>3
  <2>2. QED
    BY <1>1, <2>1 DEF OwedAhead
<1>15. TypeOK'
  BY <1>1, <1>4, <1>12 DEF IInv, TypeOK, Entries, Descriptors
<1>16. QED
  BY <1>9, <1>10, <1>13, <1>14, <1>15 DEF IInv

LEMMA RenameKeeps ==
  ASSUME IInv, NEW p \in Ports, NEW old \in Names, NEW new \in Names, Rename(p, old, new)
  PROVE  IInv'
<1>1. PICK i \in Slots : i = FirstOf(Named(p, old)) /\ i \in Files(p)
  BY NamedIsFile DEF Rename, IInv, Files
<1>2. /\ dir' = [dir EXCEPT ![p][i].name = new, ![p][i].sum = TRUE]
      /\ StillOwed /\ UNCHANGED <<data, fdesc, search, got, open>>
  BY <1>1 DEF Rename
<1>3. dir \in [Ports -> [Slots -> Entries]]
  BY DirTyped DEF IInv
<1>4. PICK e \in Entries : e = [dir[p][i] EXCEPT !.name = new, !.sum = TRUE]
  <2>1. dir[p][i] \in Entries
    BY <1>3
  <2>2. QED
    BY <2>1 DEF Entries
<1>5. /\ e.state = "first" /\ e.blocks = dir[p][i].blocks /\ e.next = dir[p][i].next /\ e.sum
  <2>1. dir[p][i] \in Entries /\ dir[p][i].state = "first"
    BY <1>1, <1>3 DEF Files
  <2>2. QED
    BY <1>4, <2>1 DEF Entries
<1>6. dir' = [dir EXCEPT ![p][i] = e]
  BY <1>2, <1>3, <1>4
<1>7. /\ dir' \in [Ports -> [Slots -> Entries]] /\ dir'[p][i] = e
      /\ \A q \in Ports : \A k \in Slots : q # p \/ k # i => dir'[q][k] = dir[q][k]
  BY <1>3, <1>6
<1>8. \A q \in Ports : \A k \in Slots :
        /\ dir'[q][k].state = dir[q][k].state /\ dir'[q][k].blocks = dir[q][k].blocks
        /\ dir'[q][k].next = dir[q][k].next /\ (dir[q][k].sum => dir'[q][k].sum)
  BY <1>1, <1>5, <1>7 DEF Files
<1>9. FilesWhole'
  <2>1. ASSUME NEW q \in Ports, NEW f \in Slots, dir'[q][f].state = "first"
        PROVE  Whole(dir'[q], f)
    <3>1. Whole(dir[q], f)
      BY <1>8, <2>1, WholeCards DEF IInv
    <3>2. QED
      BY <1>8, <3>1 DEF Whole
  <2>2. QED
    BY <2>1, WholeCards
<1>10. LinksNameless'
  BY <1>1, <1>7, <1>8 DEF IInv, LinksNameless, Files
<1>11. OpenOnFile'
  <2>1. ASSUME NEW q \in Ports, open[q]
        PROVE  fdesc[q].mcfile \in Slots /\ dir'[q][fdesc[q].mcfile].state = "first"
    BY <1>8, <2>1 DEF IInv, OpenOnFile, Files
  <2>2. QED
    BY <1>2, <2>1 DEF OpenOnFile, Files
<1>12. OwedAhead' /\ owed' \subseteq Slots
  BY <1>2, CardAssumption DEF IInv, OwedAhead, StillOwed, Fits
<1>13. TypeOK'
  BY <1>2, <1>7, <1>12 DEF IInv, TypeOK, Entries
<1>14. QED
  BY <1>9, <1>10, <1>11, <1>12, <1>13 DEF IInv

LEMMA DeleteKeeps ==
  ASSUME IInv, NEW p \in Ports, NEW name \in Names, Delete(p, name)
  PROVE  IInv'
<1>1. PICK i \in Slots : i = FirstOf(Named(p, name)) /\ i \in Files(p)
  BY NamedIsFile DEF Delete, IInv, Files
<1>2. /\ dir' = [dir EXCEPT ![p][i].state = "free", ![p][i].sum = FALSE]
      /\ open' = [open EXCEPT ![p] = @ /\ fdesc[p].mcfile # i]
      /\ StillOwed /\ UNCHANGED <<data, fdesc, search, got>>
  BY <1>1 DEF Delete
<1>3. dir \in [Ports -> [Slots -> Entries]]
  BY DirTyped DEF IInv
<1>4. PICK e \in Entries : e = [dir[p][i] EXCEPT !.state = "free", !.sum = FALSE]
  <2>1. dir[p][i] \in Entries
    BY <1>3
  <2>2. QED
    BY <2>1 DEF Entries
<1>5. e.state = "free"
  <2>1. dir[p][i] \in Entries
    BY <1>3
  <2>2. QED
    BY <1>4, <2>1 DEF Entries
<1>6. dir' = [dir EXCEPT ![p][i] = e]
  BY <1>2, <1>3, <1>4
<1>7. /\ dir' \in [Ports -> [Slots -> Entries]] /\ dir'[p][i].state = "free"
      /\ \A q \in Ports : \A k \in Slots : q # p \/ k # i => dir'[q][k] = dir[q][k]
  BY <1>3, <1>5, <1>6
<1>8. FilesWhole'
  <2>1. ASSUME NEW q \in Ports, NEW f \in Slots, dir'[q][f].state = "first"
        PROVE  Whole(dir'[q], f)
    <3>1. dir'[q][f] = dir[q][f] /\ (q # p \/ f # i)
      BY <1>7, <2>1
    <3>2. f \in Files(q)
      BY <2>1, <3>1 DEF Files
    <3>3. Whole(dir[q], f)
      BY <3>2, WholeCards DEF IInv, Files
    <3>4. q = p => i \notin Extent(q, f)
      BY <1>1, <3>1, <3>2, FilesApart DEF IInv
    <3>5. \A k \in f .. f + dir[q][f].blocks - 1 : dir'[q][k] = dir[q][k]
      BY <1>7, <3>3, <3>4 DEF Whole, Extent
    <3>6. QED
      BY <3>1, <3>3, <3>5 DEF Whole
  <2>2. QED
    BY <2>1, WholeCards
<1>9. LinksNameless'
  BY <1>7 DEF IInv, LinksNameless
<1>10. open' \in [Ports -> BOOLEAN]
  BY <1>2, RestTyped DEF IInv
<1>11. OpenOnFile'
  <2>1. ASSUME NEW q \in Ports, open'[q]
        PROVE  fdesc[q].mcfile \in Slots /\ dir'[q][fdesc[q].mcfile].state = "first"
    <3>1. open[q] /\ (q = p => fdesc[q].mcfile # i)
      BY <1>2, <2>1, RestTyped DEF IInv
    <3>2. QED
      BY <1>7, <3>1 DEF IInv, OpenOnFile, Files
  <2>2. QED
    BY <1>2, <2>1 DEF OpenOnFile, Files
<1>12. OwedAhead' /\ owed' \subseteq Slots
  BY <1>2, CardAssumption DEF IInv, OwedAhead, StillOwed, Fits
<1>13. TypeOK'
  BY <1>2, <1>7, <1>10, <1>12 DEF IInv, TypeOK, Entries
<1>14. QED
  BY <1>8, <1>9, <1>11, <1>12, <1>13 DEF IInv
-----------------------------------------------------------------------------
(* The search.                                                             *)

LEMMA FirstfileKeeps ==
  ASSUME IInv, NEW p \in Ports, NEW names \in Patterns, Firstfile(p, names)
  PROVE  IInv'
<1>1. /\ search' = [port |-> p, names |-> names, nfile |-> 0] /\ owed' = Fits(dir, p, names)
      /\ UNCHANGED <<dir, data, fdesc, got, open>>
  BY DEF Firstfile
<1>2. OwedAhead' /\ owed' \subseteq Slots
  BY <1>1 DEF OwedAhead, Fits, Slots
<1>3. TypeOK'
  BY <1>1, <1>2, CardAssumption DEF IInv, TypeOK
<1>4. OpenOnFile'
  BY <1>1, SameDirectory DEF IInv, OpenOnFile
<1>5. QED
  BY <1>1, <1>2, <1>3, <1>4, DirectoryAlone

LEMMA NextfileKeeps ==
  ASSUME IInv, Nextfile
  PROVE  IInv'
<1> DEFINE found == {i \in Fits(dir, search.port, search.names) : i > search.nfile}
<1>1. PICK nfile : nfile = IF found = {} THEN NumSlots + 1 ELSE FirstOf(found)
  OBVIOUS
<1>2. /\ search' = [search EXCEPT !.nfile = nfile] /\ owed' = owed \ {nfile}
      /\ UNCHANGED <<dir, data, fdesc, got, open>>
  BY <1>1 DEF Nextfile, bufile
<1>3. found \subseteq Slots /\ owed \subseteq found /\ owed \subseteq Slots
  BY DEF IInv, OwedAhead, Fits, TypeOK
<1> HIDE DEF found
<1>4. nfile \in 0 .. NumSlots + 1 /\ \A i \in found : nfile <= i
  BY <1>1, <1>3, FirstOfIsFirst, CardAssumption DEF Slots
<1>5. \A i \in owed' : i > nfile
  BY <1>2, <1>3, <1>4 DEF Slots
<1>6. search' \in [port : Ports \cup {NoPort}, names : SUBSET Names, nfile : 0 .. NumSlots + 1]
      /\ search'.nfile = nfile /\ search'.port = search.port /\ search'.names = search.names
  BY <1>2, <1>4, RestTyped DEF IInv
<1>7. OwedAhead'
  BY <1>2, <1>5, <1>6 DEF IInv, OwedAhead, Fits
<1>8. TypeOK'
  BY <1>2, <1>3, <1>6 DEF IInv, TypeOK
<1>9. OpenOnFile'
  BY <1>2, SameDirectory DEF IInv, OpenOnFile
<1>10. QED
  BY <1>2, <1>7, <1>8, <1>9, DirectoryAlone
-----------------------------------------------------------------------------
LEMMA Keeps == IInv /\ [Next]_vars => IInv'
<1> SUFFICES ASSUME IInv, [Next]_vars PROVE IInv'
  OBVIOUS
<1>1. ASSUME NEW p \in Ports, NEW name \in Names, NEW async \in BOOLEAN, NEW n \in Slots,
             Open(p, name, async) \/ Create(p, name, n, async)
      PROVE  IInv'
  BY <1>1, OpenKeeps, CreateKeeps
<1>2. ASSUME NEW p \in Ports, Read(p) \/ \E v \in Values : Write(p, v)
      PROVE  IInv'
  BY <1>2, ReadKeeps, WriteKeeps
<1>3. ASSUME NEW p \in Ports, NEW offset \in 0 .. BlockSize * NumSlots,
             NEW whence \in {"set", "cur"}, Lseek(p, whence, offset)
      PROVE  IInv'
  <2>1. offset \in Nat
    BY CardAssumption
  <2>2. QED
    BY <1>3, <2>1, LseekKeeps
<1>4. ASSUME NEW p \in Ports, NEW name \in Names,
             Delete(p, name) \/ \E new \in Names : Rename(p, name, new)
      PROVE  IInv'
  BY <1>4, DeleteKeeps, RenameKeeps
<1>5. ASSUME NEW p \in Ports, NEW names \in Patterns, Firstfile(p, names)
      PROVE  IInv'
  BY <1>5, FirstfileKeeps
<1>6. CASE UNCHANGED vars
  <2>1. dir' = dir /\ TypeOK' /\ OwedAhead'
    BY <1>6 DEF vars, IInv, TypeOK, OwedAhead, Fits
  <2>2. OpenOnFile'
    BY <1>6, SameDirectory DEF vars, IInv, OpenOnFile
  <2>3. QED
    BY <2>1, <2>2, DirectoryAlone
<1>7. Slots # {}
  BY CardAssumption DEF Slots
<1>8. QED
  BY <1>1, <1>2, <1>3, <1>4, <1>5, <1>6, <1>7, NextfileKeeps DEF Next

LEMMA Inductive == Spec => []IInv
<1>1. Init => IInv
  BY Starts
<1>2. IInv /\ [Next]_vars => IInv'
  BY Keeps
<1>3. QED
  BY <1>1, <1>2, PTL DEF Spec

(* Every place the calls access is a place of the card.                    *)
THEOREM TypeCorrect == Spec => []TypeOK
<1>1. IInv => TypeOK
  BY DEF IInv
<1>2. QED
  BY <1>1, Inductive, PTL

(* The directory tells the truth of every file, however many were created, *)
(* renamed and deleted, as long as none is created over another: mcdOpen   *)
(* does not look.                                                          *)
THEOREM FilesStayWhole == Spec => []FilesWhole
<1>1. IInv => FilesWhole
  BY DEF IInv
<1>2. QED
  BY <1>1, Inductive, PTL

(* firstfile and nextfile miss no file that stays while they search.       *)
THEOREM SearchFindsAll == Spec => []SearchComplete
<1>1. IInv => SearchComplete
  <2>1. ASSUME IInv, NEW i \in owed, search.nfile > NumSlots PROVE FALSE
    <3>1. i > search.nfile /\ i \in 1 .. NumSlots /\ search.nfile \in 0 .. NumSlots + 1
      BY <2>1, RestTyped DEF IInv, OwedAhead, Slots
    <3>2. QED
      BY <2>1, <3>1, CardAssumption
  <2>2. QED
    BY <2>1 DEF SearchComplete
<1>2. QED
  BY <1>1, Inductive, PTL
-----------------------------------------------------------------------------
(* The refinement.  A card's files depend on its entries c and its units u *)
(* alone; Disk and Cursors are the variables of FileStore.                 *)
FirstBlocks(c) == {i \in Slots : c[i].state = "first"}

Span(c, i) == 0 .. BlockSize * c[i].blocks - 1

FileOf(c, u, i) ==
  [name |-> c[i].name, bytes |-> [k \in Span(c, i) |-> u[BlockSize * i + k]]]

CardOf(c, u) == [i \in FirstBlocks(c) |-> FileOf(c, u, i)]

CursorOf(fd, o) == [file |-> IF o THEN fd.mcfile ELSE 0, offset |-> fd.offset, async |-> fd.async]

Disk == [p \in Ports |-> [i \in Files(p) |-> Contents(p, i)]]

Cursors == [p \in Ports |->
              [file |-> IF open[p] THEN fdesc[p].mcfile ELSE 0,
               offset |-> fdesc[p].offset, async |-> fdesc[p].async]]

LEMMA DiskIs ==
  /\ Disk = [p \in Ports |-> CardOf(dir[p], data[p])]
  /\ Disk' = [p \in Ports |-> CardOf(dir'[p], data'[p])]
  BY DEF Disk, CardOf, FirstBlocks, FileOf, Span, Files, Contents

LEMMA CursorsAre ==
  /\ Cursors = [p \in Ports |-> CursorOf(fdesc[p], open[p])]
  /\ Cursors' = [p \in Ports |-> CursorOf(fdesc'[p], open'[p])]
  BY DEF Cursors, CursorOf

LEMMA StoreInit == Init => Store!Init
<1> SUFFICES ASSUME Init PROVE Store!Init
  OBVIOUS
<1>1. ASSUME NEW p \in Ports PROVE CardOf(dir[p], data[p]) = << >>
  <2>1. FirstBlocks(dir[p]) = {}
    BY DEF Init, FirstBlocks, Entry
  <2>2. QED
    BY <2>1 DEF CardOf
<1>2. Disk = [p \in Ports |-> << >>]
  BY <1>1, DiskIs
<1>3. Cursors = [p \in Ports |-> [file |-> 0, offset |-> 0, async |-> FALSE]]
  BY DEF Init, Cursors
<1>4. got = Blank
  BY DEF Init
<1>5. QED
  BY <1>2, <1>3, <1>4 DEF Store!Init, Disk, Cursors

LEMMA StoreOpen ==
  ASSUME IInv, NEW p \in Ports, NEW name \in Names, NEW async \in BOOLEAN,
         Open(p, name, async)
  PROVE  Store!Next
<1> DEFINE found == Named(p, name)
<1>1. /\ dir' = dir /\ data' = data /\ got' = got
      /\ fdesc' = [fdesc EXCEPT ![p] = [mcfile |-> IF found = {} THEN fdesc[p].mcfile ELSE FirstOf(found),
                                       offset |-> 0, async |-> async]]
      /\ open' = [open EXCEPT ![p] = @ \/ found # {}]
  BY DEF Open, Opened
<1>2. fdesc \in [Ports -> Descriptors] /\ open \in [Ports -> BOOLEAN]
  BY RestTyped DEF IInv
<1>3. Disk' = Disk
  BY <1>1, DiskIs
<1>4. CASE found = {}
  <2>1. open' = open
    BY <1>1, <1>2, <1>4
  <2>2. Cursors' = [Cursors EXCEPT ![p].offset = 0, ![p].async = async]
    <3>1. ASSUME NEW q \in Ports
          PROVE  CursorOf(fdesc'[q], open'[q]) =
                   IF q = p THEN [Cursors[p] EXCEPT !.offset = 0, !.async = async] ELSE Cursors[q]
      BY <1>1, <1>2, <1>4, <2>1 DEF Cursors, CursorOf
    <3>2. QED
      BY <3>1, CursorsAre
  <2>3. {f \in DOMAIN Disk[p] : Disk[p][f].name = name} = {}
    BY <1>4 DEF Disk, Files, Contents, Named
  <2>4. Store!OpenFails(p, name, async)
    BY <1>1, <1>3, <2>2, <2>3 DEF Store!OpenFails, Store!Named, Disk, Cursors
  <2>5. QED
    BY <2>4 DEF Store!Next
<1>5. CASE found # {}
  <2>1. PICK f \in Files(p) : f = FirstOf(found)
    BY <1>5, NamedIsFile DEF IInv
  <2>2. Cursors' = [Cursors EXCEPT ![p] = [file |-> f, offset |-> 0, async |-> async]]
    <3>1. ASSUME NEW q \in Ports
          PROVE  CursorOf(fdesc'[q], open'[q]) =
                   IF q = p THEN [file |-> f, offset |-> 0, async |-> async] ELSE Cursors[q]
      BY <1>1, <1>2, <1>5, <2>1 DEF Cursors, CursorOf
    <3>2. QED
      BY <3>1, CursorsAre
  <2>3. f \in DOMAIN Disk[p]
    BY <2>1 DEF Disk
  <2>4. Store!Open(p, f, async)
    BY <1>1, <1>3, <2>2 DEF Store!Open, Disk, Cursors
  <2>5. QED
    BY <2>3, <2>4 DEF Store!Next, Disk
<1>6. QED
  BY <1>4, <1>5

(* A cursor that moves in its file.                                        *)
LEMMA CursorMoves ==
  ASSUME IInv, NEW p \in Ports, NEW to, fdesc' = [fdesc EXCEPT ![p].offset = to], open' = open
  PROVE  Cursors' = [Cursors EXCEPT ![p].offset = to]
<1>1. fdesc \in [Ports -> Descriptors]
  BY RestTyped DEF IInv
<1>2. ASSUME NEW q \in Ports
      PROVE  CursorOf(fdesc'[q], open'[q]) =
               IF q = p THEN [Cursors[p] EXCEPT !.offset = to] ELSE Cursors[q]
  BY <1>1 DEF Cursors, CursorOf, Descriptors
<1>3. QED
  BY <1>2, CursorsAre

LEMMA StoreSeek ==
  ASSUME IInv, NEW p \in Ports, NEW whence, NEW offset \in Nat, Lseek(p, whence, offset)
  PROVE  Store!Next
<1> DEFINE to == IF whence = "set" THEN offset ELSE fdesc[p].offset + offset
<1>0. to \in Nat
  <2>1. fdesc[p] \in Descriptors /\ BlockSize * NumSlots \in Nat
    BY RestTyped, CardAssumption DEF IInv
  <2>2. fdesc[p].offset \in Nat
    BY <2>1 DEF Descriptors
  <2>3. QED
    BY <2>2
<1>1. /\ MayMove(p, to) /\ fdesc' = [fdesc EXCEPT ![p].offset = to]
      /\ dir' = dir /\ data' = data /\ got' = got /\ open' = open
  BY DEF Lseek
<1> HIDE DEF to
<1>2. to \in 0 .. NumSlots * BlockSize
  <2>1. to \in 0 .. BlockSize * NumSlots
    BY <1>0, <1>1, MoveKeeps
  <2>2. BlockSize * NumSlots = NumSlots * BlockSize
    BY CardAssumption
  <2>3. QED
    BY <2>1, <2>2
<1>3. Disk' = Disk
  BY <1>1, DiskIs
<1>4. Cursors' = [Cursors EXCEPT ![p].offset = to]
  BY <1>1, CursorMoves
<1>5. PICK n \in 0 .. NumSlots * BlockSize : n = to
  BY <1>2
<1>6. Store!Seek(p, n)
  BY <1>1, <1>3, <1>4, <1>5 DEF Store!Seek, Disk, Cursors
<1>7. QED
  BY <1>6 DEF Store!Next

(* What is accessed lies in the contents of the cursor's file.             *)
LEMMA AccessInFile ==
  ASSUME IInv, NEW p \in Ports, MayAccess(p)
  PROVE  \E f \in Files(p), k \in Nat :
           /\ f \in Slots /\ f # 0 /\ f = fdesc[p].mcfile /\ k = fdesc[p].offset
           /\ k \in Span(dir[p], f)
           /\ Cursors[p].file = f /\ Cursors[p].offset = k
           /\ Cursors[p].async = fdesc[p].async
           /\ Disk[p][f] = FileOf(dir[p], data[p], f)
           /\ Disk[p][f].bytes = [m \in Span(dir[p], f) |-> data[p][BlockSize * f + m]]
           /\ Place(p) = BlockSize * f + k /\ Place(p) \in Places
<1>1. PICK f \in Files(p), k \in Nat :
        /\ f = fdesc[p].mcfile /\ k = fdesc[p].offset
        /\ k + 1 <= BlockSize * dir[p][f].blocks /\ Place(p) \in Places
  BY AccessOnCard
<1>2. f \in Slots /\ f # 0 /\ BlockSize * dir[p][f].blocks \in Nat
  BY WholeFile, CardAssumption DEF IInv, Slots
<1>3. k \in Span(dir[p], f)
  BY <1>1, <1>2 DEF Span
<1>4. open[p]
  BY DEF MayAccess, MayMove
<1>5. Cursors[p] = [file |-> f, offset |-> k, async |-> fdesc[p].async]
  BY <1>1, <1>4 DEF Cursors
<1>6. Disk[p][f] = FileOf(dir[p], data[p], f)
  BY <1>1 DEF Disk, Contents, FileOf, Span
<1>7. Place(p) = BlockSize * f + k
  BY <1>1 DEF Place
<1>8. QED
  BY <1>1, <1>2, <1>3, <1>5, <1>6, <1>7 DEF FileOf

LEMMA StoreRead ==
  ASSUME IInv, NEW p \in Ports, Read(p)
  PROVE  Store!Next
<1>1. /\ MayAccess(p) /\ got' = data[p][Place(p)] /\ dir' = dir /\ data' = data /\ open' = open
      /\ fdesc' = [fdesc EXCEPT ![p].offset = IF fdesc[p].async THEN @ ELSE @ + 1]
  BY DEF Read
<1>2. PICK f \in Files(p), k \in Nat :
           /\ f \in Slots /\ f # 0 /\ f = fdesc[p].mcfile /\ k = fdesc[p].offset
           /\ k \in Span(dir[p], f)
           /\ Cursors[p].file = f /\ Cursors[p].offset = k
           /\ Cursors[p].async = fdesc[p].async
           /\ Disk[p][f].bytes = [m \in Span(dir[p], f) |-> data[p][BlockSize * f + m]]
           /\ Place(p) = BlockSize * f + k
  BY <1>1, AccessInFile
<1>3. PICK to : to = IF fdesc[p].async THEN k ELSE k + 1
  OBVIOUS
<1>4. Cursors' = [Cursors EXCEPT ![p].offset = to]
  BY <1>1, <1>2, <1>3, CursorMoves
<1>5. Cursors' = [Cursors EXCEPT ![p].offset = IF Cursors[p].async THEN @ ELSE @ + 1]
  BY <1>2, <1>3, <1>4
<1>6. Cursors[p].file # 0 /\ Cursors[p].offset \in DOMAIN Disk[p][Cursors[p].file].bytes
  BY <1>2
<1>7. got' = Disk[p][Cursors[p].file].bytes[Cursors[p].offset]
  BY <1>1, <1>2
<1>8. Disk' = Disk
  BY <1>1, DiskIs
<1>9. Store!Read(p)
  BY <1>5, <1>6, <1>7, <1>8 DEF Store!Read, Disk, Cursors
<1>10. QED
  BY <1>9 DEF Store!Next

(* A place belongs to one file.                                            *)
LEMMA PlacesApart ==
  ASSUME IInv, NEW p \in Ports, NEW f \in Files(p), NEW g \in Files(p), f # g,
         NEW k \in Span(dir[p], f), NEW m \in Span(dir[p], g)
  PROVE  BlockSize * f + k # BlockSize * g + m
<1>1. ASSUME NEW i \in Files(p), NEW j \in Files(p), i < j,
             NEW a \in Span(dir[p], i), NEW b \in Span(dir[p], j)
      PROVE  BlockSize * i + a < BlockSize * j + b
  <2>1. PICK n \in Nat : n = dir[p][i].blocks
    BY WholeFile DEF IInv
  <2>2. i \in Nat /\ j \in Nat /\ BlockSize \in Nat
    BY WholeFile, CardAssumption DEF IInv, Slots
  <2>3. j \notin Extent(p, i)
    BY <1>1, <2>2, FilesApart DEF IInv
  <2>4. i + n <= j
    BY <1>1, <2>1, <2>2, <2>3 DEF Extent
  <2>5. BlockSize * (i + n) <= BlockSize * j
    BY <2>1, <2>2, <2>4, TimesMonotone
  <2>6. BlockSize * (i + n) = BlockSize * i + BlockSize * n
    BY <2>1, <2>2
  <2>7. /\ BlockSize * i \in Nat /\ BlockSize * n \in Nat /\ BlockSize * j \in Nat
        /\ BlockSize * dir[p][j].blocks \in Nat
    BY <2>1, <2>2, WholeFile DEF IInv
  <2>8. a \in Nat /\ a < BlockSize * n /\ b \in Nat
    BY <2>1, <2>7 DEF Span
  <2>9. QED
    BY <2>5, <2>6, <2>7, <2>8
<1>2. f \in Nat /\ g \in Nat /\ BlockSize * f \in Nat /\ BlockSize * g \in Nat
  BY WholeFile, CardAssumption DEF IInv, Slots
<1>3. k \in Nat /\ m \in Nat
  <2>1. BlockSize * dir[p][f].blocks \in Nat /\ BlockSize * dir[p][g].blocks \in Nat
    BY WholeFile, CardAssumption DEF IInv
  <2>2. QED
    BY <2>1 DEF Span
<1>4. CASE f < g
  <2>1. BlockSize * f + k < BlockSize * g + m
    BY <1>1, <1>4
  <2>2. QED
    BY <1>2, <1>3, <2>1
<1>5. CASE g < f
  <2>1. BlockSize * g + m < BlockSize * f + k
    BY <1>1, <1>5
  <2>2. QED
    BY <1>2, <1>3, <2>1
<1>6. QED
  BY <1>2, <1>4, <1>5

LEMMA StoreWrite ==
  ASSUME IInv, NEW p \in Ports, NEW v \in Values, Write(p, v)
  PROVE  Store!Next
<1>1. /\ MayAccess(p) /\ got' = got /\ dir' = dir /\ open' = open
      /\ data' = [data EXCEPT ![p][Place(p)] = v]
      /\ fdesc' = [fdesc EXCEPT ![p].offset = @ + 1]
  BY DEF Write
<1>2. PICK f \in Files(p), k \in Nat :
           /\ f \in Slots /\ f # 0 /\ f = fdesc[p].mcfile /\ k = fdesc[p].offset
           /\ k \in Span(dir[p], f)
           /\ Cursors[p].file = f /\ Cursors[p].offset = k
           /\ Disk[p][f] = FileOf(dir[p], data[p], f)
           /\ Disk[p][f].bytes = [m \in Span(dir[p], f) |-> data[p][BlockSize * f + m]]
           /\ Place(p) = BlockSize * f + k /\ Place(p) \in Places
  BY <1>1, AccessInFile
<1>3. data \in [Ports -> [Places -> Values]]
  BY RestTyped DEF IInv
<1>4. Cursors' = [Cursors EXCEPT ![p].offset = k + 1]
  BY <1>1, <1>2, CursorMoves
<1>5. Cursors' = [Cursors EXCEPT ![p].offset = @ + 1]
  BY <1>2, <1>4
<1>6. Cursors[p].file # 0 /\ Cursors[p].offset \in DOMAIN Disk[p][Cursors[p].file].bytes
  BY <1>2
<1>7. PICK u : u = [data[p] EXCEPT ![BlockSize * f + k] = v] /\ data' = [data EXCEPT ![p] = u]
  BY <1>1, <1>2, <1>3
<1>8. FileOf(dir[p], u, f) = [FileOf(dir[p], data[p], f) EXCEPT !.bytes[k] = v]
  <2>1. ASSUME NEW m \in Span(dir[p], f)
        PROVE  u[BlockSize * f + m] = IF m = k THEN v ELSE data[p][BlockSize * f + m]
    <3>1. BlockSize * f \in Nat /\ m \in Int
      BY <1>2, CardAssumption DEF Slots, Span
    <3>2. BlockSize * f + m = BlockSize * f + k => m = k
      BY <3>1
    <3>3. QED
      BY <1>2, <1>3, <1>7, <3>2
  <2>2. QED
    BY <1>2, <2>1 DEF FileOf
<1>9. ASSUME NEW g \in Files(p), g # f
      PROVE  FileOf(dir[p], u, g) = FileOf(dir[p], data[p], g)
  <2>1. ASSUME NEW m \in Span(dir[p], g)
        PROVE  u[BlockSize * g + m] = data[p][BlockSize * g + m]
    <3>1. BlockSize * g + m # BlockSize * f + k
      <4>1. k \in Span(dir[p], f) /\ f # g
        BY <1>2, <1>9
      <4>2. BlockSize * f + k # BlockSize * g + m
        BY <4>1, PlacesApart
      <4>3. QED
        BY <4>2
    <3>2. BlockSize * g + m \in Places
      <4>1. PICK n \in Nat : n = dir[p][g].blocks /\ g \in Slots /\ g + n - 1 <= NumSlots
        BY WholeFile DEF IInv
      <4>2. m \in Nat /\ m + 1 <= BlockSize * n
        BY <2>1, <4>1, CardAssumption DEF Span
      <4>3. QED
        BY <4>1, <4>2, PlaceOnCard
    <3>3. QED
      BY <1>3, <1>7, <3>1, <3>2
  <2>2. QED
    BY <2>1 DEF FileOf
<1>10. CardOf(dir[p], u) = [Disk[p] EXCEPT ![f].bytes[k] = v]
  <2>1. FirstBlocks(dir[p]) = Files(p) /\ Disk[p] = CardOf(dir[p], data[p])
    BY DiskIs DEF FirstBlocks, Files
  <2>2. ASSUME NEW g \in Files(p)
        PROVE  FileOf(dir[p], u, g) = IF g = f THEN [Disk[p][f] EXCEPT !.bytes[k] = v] ELSE Disk[p][g]
    BY <1>2, <1>8, <1>9, <2>1 DEF CardOf
  <2>3. QED
    BY <2>1, <2>2 DEF CardOf
<1>11. Disk' = [Disk EXCEPT ![p][Cursors[p].file].bytes[Cursors[p].offset] = v]
  <2>1. ASSUME NEW q \in Ports
        PROVE  CardOf(dir'[q], data'[q]) =
                 IF q = p THEN [Disk[p] EXCEPT ![f].bytes[k] = v] ELSE Disk[q]
    BY <1>1, <1>3, <1>7, <1>10, DiskIs
  <2>2. QED
    BY <1>2, <2>1, DiskIs
<1>12. Store!Write(p, v)
  BY <1>1, <1>5, <1>6, <1>11 DEF Store!Write, Disk, Cursors
<1>13. QED
  BY <1>12 DEF Store!Next

LEMMA StoreCreate ==
  ASSUME IInv, NEW p \in Ports, NEW name \in Names, NEW n \in Slots, NEW async \in BOOLEAN,
         Create(p, name, n, async)
  PROVE  Store!Next
<1>1. PICK i \in Slots, c \in [Slots -> Entries] :
        /\ Laid(p, i, n, name, c) /\ i + n - 1 <= NumSlots /\ dir[p][i].state = "free"
        /\ dir' = [dir EXCEPT ![p] = c]
        /\ fdesc' = [fdesc EXCEPT ![p] = [mcfile |-> i, offset |-> 0, async |-> async]]
        /\ open' = [open EXCEPT ![p] = TRUE]
        /\ data' = data /\ search' = search /\ got' = got /\ owed' = owed
  BY Created
<1>2. /\ dir \in [Ports -> [Slots -> Entries]] /\ data \in [Ports -> [Places -> Values]]
      /\ fdesc \in [Ports -> Descriptors] /\ open \in [Ports -> BOOLEAN]
  BY RestTyped DEF IInv
<1>3. Named(p, name) = {}
  BY DEF Create
<1>4. /\ FirstBlocks(c) = Files(p) \cup {i} /\ i \notin Files(p) /\ FirstBlocks(dir[p]) = Files(p)
      /\ c[i].blocks = n /\ c[i].name = name
      /\ \A f \in Files(p) : f # i /\ c[f] = dir[p][f]
  BY <1>1 DEF Laid, FirstBlocks, Files
<1>5. PICK e : e = FileOf(c, data[p], i)
  OBVIOUS
<1>6. e.name = name /\ e.bytes \in [0 .. n * BlockSize - 1 -> Values]
  <2>1. n \in Nat /\ BlockSize * n = n * BlockSize
    BY CardAssumption DEF Slots
  <2>2. ASSUME NEW k \in Span(c, i) PROVE data[p][BlockSize * i + k] \in Values
    <3>1. k \in Nat /\ k + 1 <= BlockSize * n
      BY <1>4, <2>1, <2>2, CardAssumption DEF Span
    <3>2. BlockSize * i + k \in Places
      BY <1>1, <2>1, <3>1, PlaceOnCard
    <3>3. QED
      BY <1>2, <3>2
  <2>3. QED
    BY <1>4, <1>5, <2>1, <2>2 DEF FileOf, Span
<1>7. ASSUME NEW f \in Files(p)
      PROVE  FileOf(c, data[p], f) = FileOf(dir[p], data[p], f)
  BY <1>4 DEF FileOf, Span
<1>8. Disk[p] = CardOf(dir[p], data[p]) /\ DOMAIN Disk[p] = Files(p)
  BY DiskIs DEF Disk
<1>9. CardOf(c, data[p]) = [g \in DOMAIN Disk[p] \cup {i} |-> IF g = i THEN e ELSE Disk[p][g]]
  BY <1>4, <1>5, <1>7, <1>8 DEF CardOf
<1>10. Disk'[p] = CardOf(c, data[p])
  BY <1>1, <1>2, DiskIs
<1>11. Disk' = [Disk EXCEPT ![p] = [g \in DOMAIN @ \cup {i} |-> IF g = i THEN e ELSE @[g]]]
  <2>1. ASSUME NEW q \in Ports
        PROVE  CardOf(dir'[q], data'[q]) =
                 IF q = p THEN [g \in DOMAIN Disk[p] \cup {i} |-> IF g = i THEN e ELSE Disk[p][g]]
                 ELSE Disk[q]
    BY <1>1, <1>2, <1>9, DiskIs
  <2>2. QED
    BY <2>1, DiskIs
<1>12. Disk'[p][i] = e /\ DOMAIN Disk'[p] = DOMAIN Disk[p] \cup {i}
  BY <1>9, <1>10
<1>13. Cursors' = [Cursors EXCEPT ![p] = [file |-> i, offset |-> 0, async |-> async]]
  <2>1. ASSUME NEW q \in Ports
        PROVE  CursorOf(fdesc'[q], open'[q]) =
                 IF q = p THEN [file |-> i, offset |-> 0, async |-> async] ELSE Cursors[q]
    BY <1>1, <1>2 DEF Cursors, CursorOf
  <2>2. QED
    BY <2>1, CursorsAre
<1>14. {f \in DOMAIN Disk[p] : Disk[p][f].name = name} = {}
  BY <1>3 DEF Disk, Files, Contents, Named
<1>15. i \notin DOMAIN Disk[p]
  BY <1>4, <1>8
<1>16. Disk' = [Disk EXCEPT ![p] = [g \in DOMAIN @ \cup {i} |->
                                    IF g = i THEN Disk'[p][i] ELSE @[g]]]
  BY <1>11, <1>12
<1>17. Disk'[p][i].name = name /\ Disk'[p][i].bytes \in [0 .. n * BlockSize - 1 -> Values]
  BY <1>6, <1>12
<1>18. Store!Create(p, i, name, n, async)
  BY <1>1, <1>12, <1>13, <1>14, <1>15, <1>16, <1>17
     DEF Store!Create, Store!Named, Disk, Cursors
<1>19. n \in 1 .. NumSlots
  BY DEF Slots
<1>20. QED
  BY <1>18, <1>19 DEF Store!Next

LEMMA StoreRename ==
  ASSUME IInv, NEW p \in Ports, NEW old \in Names, NEW new \in Names, Rename(p, old, new)
  PROVE  Store!Next
<1>1. PICK i \in Files(p) :
        /\ dir' = [dir EXCEPT ![p][i].name = new, ![p][i].sum = TRUE]
        /\ data' = data /\ fdesc' = fdesc /\ got' = got /\ open' = open
  BY NamedIsFile DEF Rename, IInv
<1>2. i \in Slots /\ dir \in [Ports -> [Slots -> Entries]]
  BY DirTyped DEF IInv, Files
<1>3. PICK c : /\ c = [dir[p] EXCEPT ![i].name = new, ![i].sum = TRUE]
               /\ dir' = [dir EXCEPT ![p] = c]
  BY <1>1, <1>2
<1>4. dir[p][i] \in Entries
  BY <1>2
<1>5. /\ c[i].state = dir[p][i].state /\ c[i].blocks = dir[p][i].blocks /\ c[i].name = new
      /\ \A f \in Slots : f # i => c[f] = dir[p][f]
  BY <1>2, <1>3, <1>4 DEF Entries
<1>6. FirstBlocks(c) = FirstBlocks(dir[p]) /\ FirstBlocks(dir[p]) = Files(p)
  BY <1>2, <1>5 DEF FirstBlocks, Files
<1>7. FileOf(c, data[p], i) = [FileOf(dir[p], data[p], i) EXCEPT !.name = new]
  <2>1. Span(c, i) = Span(dir[p], i)
    BY <1>5 DEF Span
  <2>2. PICK b : b = [k \in Span(dir[p], i) |-> data[p][BlockSize * i + k]]
    OBVIOUS
  <2>3. /\ FileOf(c, data[p], i) = [name |-> new, bytes |-> b]
        /\ FileOf(dir[p], data[p], i) = [name |-> dir[p][i].name, bytes |-> b]
    BY <1>5, <2>1, <2>2 DEF FileOf
  <2>4. QED
    BY <2>3
<1>8. ASSUME NEW f \in Files(p), f # i
      PROVE  FileOf(c, data[p], f) = FileOf(dir[p], data[p], f)
  BY <1>5, <1>8 DEF FileOf, Span, Files
<1>9. Disk[p] = CardOf(dir[p], data[p])
  BY DiskIs
<1>10. CardOf(c, data[p]) = [Disk[p] EXCEPT ![i].name = new]
  <2>1. ASSUME NEW f \in Files(p)
        PROVE  FileOf(c, data[p], f) = IF f = i THEN [Disk[p][i] EXCEPT !.name = new] ELSE Disk[p][f]
    BY <1>6, <1>7, <1>8, <1>9 DEF CardOf
  <2>2. QED
    BY <1>6, <1>9, <2>1 DEF CardOf
<1>11. Disk' = [Disk EXCEPT ![p][i].name = new]
  <2>1. ASSUME NEW q \in Ports
        PROVE  CardOf(dir'[q], data'[q]) =
                 IF q = p THEN [Disk[p] EXCEPT ![i].name = new] ELSE Disk[q]
    BY <1>1, <1>2, <1>3, <1>10, DiskIs
  <2>2. QED
    BY <2>1, DiskIs
<1>12. Cursors' = Cursors
  BY <1>1, CursorsAre
<1>13. Store!Rename(p, i, new)
  BY <1>1, <1>11, <1>12 DEF Store!Rename, Disk, Cursors
<1>14. i \in DOMAIN Disk[p]
  BY DEF Disk
<1>15. QED
  BY <1>13, <1>14 DEF Store!Next, Disk

LEMMA StoreDelete ==
  ASSUME IInv, NEW p \in Ports, NEW name \in Names, Delete(p, name)
  PROVE  Store!Next
<1>1. PICK i \in Files(p) :
        /\ dir' = [dir EXCEPT ![p][i].state = "free", ![p][i].sum = FALSE]
        /\ open' = [open EXCEPT ![p] = @ /\ fdesc[p].mcfile # i]
        /\ data' = data /\ fdesc' = fdesc /\ got' = got
  BY NamedIsFile DEF Delete, IInv
<1>2. /\ i \in Slots /\ i # 0 /\ dir \in [Ports -> [Slots -> Entries]]
      /\ fdesc \in [Ports -> Descriptors] /\ open \in [Ports -> BOOLEAN]
  BY RestTyped DEF IInv, Files, Slots
<1>3. PICK c : /\ c = [dir[p] EXCEPT ![i].state = "free", ![i].sum = FALSE]
               /\ dir' = [dir EXCEPT ![p] = c]
  BY <1>1, <1>2
<1>4. dir[p][i] \in Entries
  BY <1>2
<1>5. c[i].state = "free" /\ \A f \in Slots : f # i => c[f] = dir[p][f]
  BY <1>2, <1>3, <1>4 DEF Entries
<1>6. FirstBlocks(c) = Files(p) \ {i}
  BY <1>2, <1>5 DEF FirstBlocks, Files
<1>7. ASSUME NEW f \in Files(p) \ {i}
      PROVE  FileOf(c, data[p], f) = FileOf(dir[p], data[p], f)
  BY <1>5 DEF FileOf, Span, Files
<1>8. Disk[p] = CardOf(dir[p], data[p]) /\ DOMAIN Disk[p] = Files(p)
  BY DiskIs DEF Disk
<1>9. CardOf(c, data[p]) = [g \in DOMAIN Disk[p] \ {i} |-> Disk[p][g]]
  BY <1>6, <1>7, <1>8 DEF CardOf, FirstBlocks, Files
<1>10. Disk' = [Disk EXCEPT ![p] = [g \in DOMAIN @ \ {i} |-> @[g]]]
  <2>1. ASSUME NEW q \in Ports
        PROVE  CardOf(dir'[q], data'[q]) =
                 IF q = p THEN [g \in DOMAIN Disk[p] \ {i} |-> Disk[p][g]] ELSE Disk[q]
    BY <1>1, <1>2, <1>3, <1>9, DiskIs
  <2>2. QED
    BY <2>1, DiskIs
<1>11. Cursors' = [Cursors EXCEPT ![p].file = IF @ = i THEN 0 ELSE @]
  <2>1. ASSUME NEW q \in Ports
        PROVE  CursorOf(fdesc'[q], open'[q]) =
                 IF q = p THEN [Cursors[p] EXCEPT !.file = IF Cursors[p].file = i THEN 0 ELSE Cursors[p].file]
                 ELSE Cursors[q]
    BY <1>1, <1>2 DEF Cursors, CursorOf
  <2>2. QED
    BY <2>1, CursorsAre
<1>12. Store!Delete(p, i)
  BY <1>1, <1>10, <1>11 DEF Store!Delete, Disk, Cursors
<1>13. i \in DOMAIN Disk[p]
  BY <1>8
<1>14. QED
  BY <1>12, <1>13 DEF Store!Next, Disk

LEMMA StoreStutters ==
  ASSUME UNCHANGED <<dir, data, fdesc, got, open>>
  PROVE  UNCHANGED Store!vars
<1>1. Disk' = Disk /\ Cursors' = Cursors
  BY DiskIs, CursorsAre
<1>2. QED
  BY <1>1 DEF Store!vars, Disk, Cursors

LEMMA StoreNext == IInv /\ [Next]_vars => [Store!Next]_Store!vars
<1> SUFFICES ASSUME IInv, [Next]_vars PROVE Store!Next \/ UNCHANGED Store!vars
  OBVIOUS
<1>1. ASSUME NEW p \in Ports, NEW name \in Names, NEW async \in BOOLEAN, NEW n \in Slots,
             Open(p, name, async) \/ Create(p, name, n, async)
      PROVE  Store!Next
  BY <1>1, StoreOpen, StoreCreate
<1>2. ASSUME NEW p \in Ports, Read(p) \/ \E v \in Values : Write(p, v)
      PROVE  Store!Next
  BY <1>2, StoreRead, StoreWrite
<1>3. ASSUME NEW p \in Ports, NEW offset \in 0 .. BlockSize * NumSlots,
             NEW whence \in {"set", "cur"}, Lseek(p, whence, offset)
      PROVE  Store!Next
  <2>1. offset \in Nat
    BY CardAssumption
  <2>2. QED
    BY <1>3, <2>1, StoreSeek
<1>4. ASSUME NEW p \in Ports, NEW name \in Names,
             Delete(p, name) \/ \E new \in Names : Rename(p, name, new)
      PROVE  Store!Next
  BY <1>4, StoreDelete, StoreRename
<1>5. ASSUME NEW p \in Ports, NEW names \in Patterns, Firstfile(p, names)
      PROVE  UNCHANGED Store!vars
  BY <1>5, StoreStutters DEF Firstfile
<1>6. CASE Nextfile
  BY <1>6, StoreStutters DEF Nextfile
<1>7. CASE UNCHANGED vars
  BY <1>7, StoreStutters DEF vars
<1>8. Slots # {}
  BY CardAssumption DEF Slots
<1>9. QED
  BY <1>1, <1>2, <1>3, <1>4, <1>5, <1>6, <1>7, <1>8 DEF Next

(* Blocks found by counting from a file's first one implement separate     *)
(* files: reads return what was written to that file at that offset, and   *)
(* no call on one file shows in another, for any number of cards, blocks   *)
(* and names.                                                              *)
THEOREM FilesAreSeparate == Spec => FileStoreSpec
<1>1. Init => Store!Init
  BY StoreInit
<1>2. IInv /\ [Next]_vars => [Store!Next]_Store!vars
  BY StoreNext
<1>3. QED
  BY <1>1, <1>2, Inductive, PTL DEF Spec, FileStoreSpec, Store!Spec
=============================================================================
