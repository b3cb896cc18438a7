-------------------------------- MODULE Disc ---------------------------------
(***************************************************************************)
(* The file system of the disc (psxhle-filesystem.cpp): what the tables    *)
(* m_filesBySector, m_dirsBySector and m_filesByFullpath hold after the    *)
(* disc's directories were read once, and the look-up of a file by name.   *)
(*                                                                         *)
(* The parser that reads the directories is a library: it reports every    *)
(* entry of the disc once, in an order of its own (MayReport).  A path is  *)
(* a mount, whether a slash follows it, and the names behind it; letters'  *)
(* case, the kind of slash and the ";1" behind a name are left out.        *)
(***************************************************************************)
EXTENDS Integers, Sequences, SequencesExt

CONSTANTS
  Cdrom,     \* the mount "cdrom:"
  NoMount,   \* the mount of a path that has none
  NoName     \* the empty name

(* An entry that operator[] of a map makes up.                             *)
Blank == [start |-> 0, sectors |-> 0, parent |-> 0, dir |-> FALSE, name |-> NoName]

Extent(f) == f.start .. f.start + f.sectors - 1

At(files, s) == IF s \in DOMAIN files THEN files[s] ELSE Blank

(* insert of a std::map: the entries that are there stay.                  *)
insert(map, keys, e) ==
  [x \in DOMAIN map \cup keys |-> IF x \in DOMAIN map THEN map[x] ELSE e]

(* A path with a name behind it; the empty name leaves it as it is.        *)
Below(path, name) == IF name = NoName THEN path ELSE Append(path, name)

(* The walk from the entry at s up to the root: the path it builds on its  *)
(* way back, and the sectors it looks at.                                  *)
Walk(files, s) ==
  LET walk[x \in Nat] ==
        LET f == At(files, x)
            above == IF f.parent = 0 THEN [path |-> <<>>, sectors |-> {}] ELSE walk[f.parent]
        IN  [path |-> Below(above.path, f.name), sectors |-> above.sectors \cup {x}]
  IN  walk[s]

(* Mutant: the walk stops one directory below the root.                    *)
recurse_parent_walkShort(files, s) ==
  [path |-> Below(<<>>, At(files, s).name), files |-> files]

(* The path of the directory at s; the entries the walk misses are made up.*)
recurse_parent_walk(files, s) ==
  LET walk == Walk(files, s)
  IN  [path |-> walk.path, files |-> insert(files, walk.sectors, Blank)]

(* An entry goes to each of its sectors that has none; one whose first     *)
(* sector is taken is dropped.                                             *)
AddFile(tables, f) ==
  IF f.start \in DOMAIN tables.files THEN tables
  ELSE LET files == insert(tables.files, Extent(f), f)
           walk == recurse_parent_walk(files, f.start)
       IN  IF f.dir
           THEN [files |-> walk.files, dirs |-> insert(tables.dirs, {f.start}, walk.path)]
           ELSE [tables EXCEPT !.files = files]

(* Of two entries with the same path, that of the lower sector is found.   *)
buildFilesByDirLUT(tables) ==
  LET dir(s) == IF s \in DOMAIN tables.dirs THEN tables.dirs[s] ELSE <<>>
      path(s) == Below(dir(tables.files[s].parent), tables.files[s].name)
      sectors(p) == {s \in DOMAIN tables.files : path(s) = p}
  IN  [p \in {path(s) : s \in DOMAIN tables.files} |-> tables.files[Min(sectors(p))].start]

(* The tables of a disc whose entries are reported in the order of listing;*)
(* only the last of them is used after this.                               *)
psxFs_CacheFilesystem(listing) ==
  LET tables[k \in 0 .. Len(listing)] ==
        IF k = 0 THEN [files |-> [s \in {} |-> Blank], dirs |-> [s \in {0} |-> <<>>]]
        ELSE AddFile(tables[k - 1], listing[k])
  IN  buildFilesByDirLUT(tables[Len(listing)])

(* Every path is taken from the root; a mount other than "cdrom:" stays as *)
(* a part of the first name.                                               *)
psxFs_Canonicalize(path) ==
  IF path.mount \in {Cdrom, NoMount} THEN path.names ELSE <<path.mount>> \o path.names

(* 0 if there is no such file; directories are found as well.              *)
psxFs_GetFileSector(byPath, path) ==
  LET canon == psxFs_Canonicalize(path)
  IN  IF canon \in DOMAIN byPath THEN byPath[canon] ELSE 0
-----------------------------------------------------------------------------
(* The directories as they are on the disc: the path of the entry f.       *)
TruePath(entries, f) ==
  LET at(s) == CHOOSE e \in entries : e.start = s
      path[s \in {e.start : e \in entries}] ==
        Append(IF at(s).parent = 0 THEN <<>> ELSE path[at(s).parent], at(s).name)
  IN  path[f.start]

(* What the parser reports: whole files of at least one sector that share  *)
(* none, the names in a directory distinct, and each directory before those*)
(* inside it (but a file may come before its directory).                   *)
MayReport(listing) ==
  \A i \in DOMAIN listing : LET f == listing[i] IN
    /\ f.start \in Nat \ {0} /\ f.sectors \in Nat \ {0} /\ f.dir \in BOOLEAN
    /\ f.parent \in Nat /\ f.name # NoName
    /\ f.parent # 0 => \E j \in DOMAIN listing :
         listing[j].dir /\ f.parent = listing[j].start /\ (f.dir => j < i)
    /\ \A j \in DOMAIN listing \ {i} : LET g == listing[j] IN
         Extent(f) \cap Extent(g) = {} /\ (f.parent = g.parent => f.name # g.name)
=============================================================================
