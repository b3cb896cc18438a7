------------------------------- MODULE Programs --------------------------------
(***************************************************************************)
(* Programs (psxbios.cpp): booting from the disc, cd, Load, Exec,          *)
(* LoadExec, the return of a program to the one that called Exec, setjmp   *)
(* and longjmp, with the disc swapped at any time.                         *)
(*                                                                         *)
(* A program is where it is on which disc.  What the kernel saves of the   *)
(* CPU is a context: the activation whose stack it is (sp, fp, gp), where  *)
(* that goes on (ra), the program it runs (pc), and s0, in which ExecRet   *)
(* looks for the header.  s1-s7 go with the activation.                    *)
(***************************************************************************)
EXTENDS Disc

CONSTANTS
  Discs,       \* the discs
  Listings,    \* the orders in which a disc's entries may be reported
  BootPath,    \* the path in the SYSTEM.CNF of a disc, or NoPath
  PsxExe,      \* the path that is booted without one
  NoPath,      \* no path, no SYSTEM.CNF
  Paths,       \* the paths given to Load and LoadExec
  Directories, \* the paths given to cd
  Headers,     \* the descriptors programs give to Load and Exec
  ExecHeader,  \* the descriptor of LoadExec, at 0xf000
  NoHeader,    \* the s0 of a program that was booted
  Buffers,     \* the jmp_bufs
  NoContext,   \* what is in them, and in descriptors, that no one saved
  NoProgram,   \* what is in memory where no program was loaded, or not one
  Versions,    \* the versions of the state a program may be loaded from
  Period,      \* the places where an activation can be are counted modulo Period
  MaxFrames,   \* activations are numbered up to here
  SwapFrames   \* the disc is swapped while no more than these were used

Entries(d) == ToSet(CHOOSE l \in Listings[d] : TRUE)

(* What psxFs_CacheFilesystem may make of a disc.                          *)
Tables == [d \in Discs |-> {psxFs_CacheFilesystem(l) : l \in Listings[d]}]

(* The entries of a disc with the paths they have by its directories.      *)
Files ==
  [d \in Discs |->
     {[start |-> f.start, dir |-> f.dir, path |-> TruePath(Entries(d), f)] : f \in Entries(d)}]

AllHeaders == Headers \cup {ExecHeader}

Places == 0 .. Period - 1

Programs == [disc : Discs, start : UNION {{f.start : f \in Files[d]} : d \in Discs}]

Contexts == [frame : 1 .. MaxFrames, at : Places, s0 : AllHeaders \cup {NoHeader},
             prog : Programs \cup {NoProgram}]

ASSUME SizesAssumption ==
  /\ Period \in Nat \ {0} /\ MaxFrames \in Nat \ {0} /\ SwapFrames \in Nat
  /\ Cdrom # NoMount /\ NoHeader \notin AllHeaders /\ NoContext \notin Contexts
  /\ NoContext \notin [frame : Nat, at : Nat]

Exe(d) == IF BootPath[d] = NoPath THEN PsxExe ELSE BootPath[d]

(* What the discs are like: MayReport, and a file to boot from.            *)
ASSUME DiscsAssumption ==
  \A d \in Discs :
    /\ Listings[d] # {}
    /\ \A l \in Listings[d] : l \in Seq(Entries(d)) /\ ToSet(l) = Entries(d) /\ MayReport(l)
    /\ \E f \in Files[d] : ~f.dir /\ f.path = psxFs_Canonicalize(Exe(d))

VARIABLES
  disc,     \* the disc in the drive
  fs,       \* the disc the tables were built of, and m_filesByFullpath
  hle,      \* g_hle: version and pwd
  header,   \* the descriptors: the program at their pc, the context Exec saved
  regs,     \* the context of the CPU
  jmpbuf,   \* the contexts setjmp saved
  calls,    \* history: the contexts that are waiting for a program to return
  owner,    \* history: the activation that was started from a descriptor last
  frames,   \* the activations used so far
  asked     \* history: the program that Load, or the boot, was asked for

vars == <<disc, fs, hle, header, regs, jmpbuf, calls, owner, frames, asked>>

-----------------------------------------------------------------------------
(* What is read from sector s of the disc in the drive.                    *)
ProgramAt(s) ==
  IF \E f \in Files[disc] : ~f.dir /\ f.start = s
  THEN [disc |-> disc, start |-> s] ELSE NoProgram

(* The tables after a call of psxFs_CacheFilesystem.                       *)
Cached == IF fs.disc = disc THEN {fs} ELSE {[disc |-> disc, byPath |-> t] : t \in Tables[disc]}

(* A device is replaced by the current directory, if that is on a device   *)
(* with c; the slash behind it does not matter.                            *)
FullPath(path) ==
  IF hle.version >= 2 /\ hle.pwd.mount = Cdrom /\ path.mount # NoMount
  THEN [mount |-> Cdrom, rooted |-> TRUE, names |-> hle.pwd.names \o path.names] ELSE path

(* The file a path names, by the directories of the disc in the drive: a   *)
(* path without a slash is looked up in the current directory.             *)
AskedFor(path) ==
  LET names == IF path.mount = Cdrom /\ ~path.rooted /\ hle.version >= 2
                  /\ hle.pwd.mount = Cdrom
               THEN hle.pwd.names \o path.names ELSE path.names
  IN  {[disc |-> disc, start |-> f.start] : f \in {g \in Files[disc] : g.path = names /\ ~g.dir}}

(* The programs' side: paths that start with a slash, or name a card, are  *)
(* not used after a cd; and the tables are those of the disc in the drive. *)
MayAsk(path) ==
  /\ fs.disc = disc
  /\ path.mount \in {Cdrom, NoMount}
  /\ (hle.version >= 2 /\ hle.pwd.mount = Cdrom) => ~(path.rooted /\ path.mount = Cdrom)

(* The sector Load finds; the tables are not checked against the drive.    *)
SectorFor(path) == psxFs_GetFileSector(fs.byPath, FullPath(path))

(* That file; none if the path is not one that a program may use.          *)
ProgramAsked(path) ==
  IF MayAsk(path) /\ AskedFor(path) # {} THEN CHOOSE p \in AskedFor(path) : TRUE ELSE NoProgram
-----------------------------------------------------------------------------
NoPwd == [mount |-> NoMount, rooted |-> FALSE, names |-> <<>>]

Empty == [h \in AllHeaders |-> [prog |-> NoProgram, saved |-> NoContext]]

(* The program booted from a disc, by its tables and by its directories.   *)
BootContext(table, frame) ==
  [frame |-> frame, at |-> 0, s0 |-> NoHeader,
   prog |-> ProgramAt(psxFs_GetFileSector(table, Exe(disc)))]

BootAsked ==
  CHOOSE p \in Programs : \E f \in Files[disc] :
    ~f.dir /\ f.path = psxFs_Canonicalize(Exe(disc)) /\ p = [disc |-> disc, start |-> f.start]

AskedAtBoot ==
  [h \in AllHeaders \cup {NoHeader} |-> IF h = NoHeader THEN BootAsked ELSE NoProgram]

Init ==
  /\ disc \in Discs
  /\ \E table \in Tables[disc], version \in Versions :
       /\ fs = [disc |-> disc, byPath |-> table]
       /\ hle = [version |-> version, pwd |-> NoPwd]
       /\ regs = BootContext(table, 1)
  /\ header = Empty /\ jmpbuf = [b \in Buffers |-> NoContext]
  /\ calls = <<>> /\ frames = 1 /\ owner = [h \in AllHeaders |-> 0]
  /\ asked = AskedAtBoot

(* Mutant: the tables are those of the disc before.                        *)
psxBiosLoadExecCdromStale ==
  /\ frames < MaxFrames /\ frames' = frames + 1
  /\ fs' = fs
  /\ hle' = [version |-> 2, pwd |-> NoPwd]
  /\ regs' = BootContext(fs.byPath, frames + 1)
  /\ header' = Empty /\ calls' = <<>> /\ owner' = [h \in AllHeaders |-> 0]
  /\ asked' = AskedAtBoot
  /\ jmpbuf' = [b \in Buffers |-> NoContext]
  /\ UNCHANGED disc

(* A reset: g_hle and the memory are cleared, the tables brought up to     *)
(* date, and the program of SYSTEM.CNF, or PSX.EXE, loaded and started.    *)
psxBiosLoadExecCdrom ==
  /\ frames < MaxFrames /\ frames' = frames + 1
  /\ fs' \in Cached
  /\ hle' = [version |-> 2, pwd |-> NoPwd]
  /\ regs' = BootContext(fs'.byPath, frames + 1)
  /\ header' = Empty /\ calls' = <<>> /\ owner' = [h \in AllHeaders |-> 0]
  /\ asked' = AskedAtBoot
  /\ jmpbuf' = [b \in Buffers |-> NoContext]
  /\ UNCHANGED disc

Swap ==
  /\ frames <= SwapFrames
  /\ disc' \in Discs \ {disc}
  /\ UNCHANGED <<fs, hle, header, regs, jmpbuf, calls, owner, frames, asked>>

Work ==
  /\ regs' = [regs EXCEPT !.at = (@ + 1) % Period]
  /\ UNCHANGED <<disc, fs, hle, header, jmpbuf, calls, owner, frames, asked>>

cd(path) ==
  /\ hle' = [hle EXCEPT !.pwd = path]
  /\ UNCHANGED <<disc, fs, header, regs, jmpbuf, calls, owner, frames, asked>>
-----------------------------------------------------------------------------
(* The descriptors after Load: the one read from the disc comes over the   *)
(* context that Exec saved in it.                                          *)
LoadedInto(path, h) ==
  IF SectorFor(path) = 0 THEN header
  ELSE [header EXCEPT ![h] = [prog |-> ProgramAt(SectorFor(path)), saved |-> NoContext]]

(* The sector is looked up first, the tables are brought up to date when   *)
(* it is read.                                                             *)
Loads(path, h) ==
  /\ fs' \in IF SectorFor(path) = 0 THEN {fs} ELSE Cached
  /\ asked' = IF SectorFor(path) = 0 /\ ProgramAsked(path) = NoProgram THEN asked
              ELSE [asked EXCEPT ![h] = ProgramAsked(path)]

Load(path, h) ==
  /\ Loads(path, h)
  /\ header' = LoadedInto(path, h)
  /\ owner' = IF SectorFor(path) = 0 THEN owner ELSE [owner EXCEPT ![h] = 0]
  /\ UNCHANGED <<disc, hle, regs, jmpbuf, calls, frames>>

(* The context goes to the descriptor, the new activation runs its program.*)
Executes(descriptors, h) ==
  /\ descriptors[h].prog # NoProgram
  /\ frames < MaxFrames /\ frames' = frames + 1
  /\ header' = [descriptors EXCEPT ![h].saved = regs]
  /\ regs' = [frame |-> frames + 1, at |-> 0, s0 |-> h, prog |-> descriptors[h].prog]
  /\ calls' = Append(calls, regs)
  /\ owner' = [owner EXCEPT ![h] = frames + 1]

Exec(h) ==
  /\ Executes(header, h)
  /\ UNCHANGED <<disc, fs, hle, jmpbuf, asked>>

(* Load and Exec with the descriptor at 0xf000, whatever Load returned: if *)
(* there is no such file, the program loaded there before starts again.    *)
LoadExec(path) ==
  /\ Loads(path, ExecHeader)
  /\ Executes(LoadedInto(path, ExecHeader), ExecHeader)
  /\ UNCHANGED <<disc, hle, jmpbuf>>

(* A program returns only while the descriptor it was started from is its  *)
(* own: no other program was loaded or started with it since.              *)
MayReturn == \E h \in AllHeaders : owner[h] = regs.frame

(* A program that was called returns to 0x8000.                            *)
ExecRet ==
  /\ MayReturn
  /\ regs' = header[regs.s0].saved
  /\ calls' = SubSeq(calls, 1, Len(calls) - 1)
  /\ UNCHANGED <<disc, fs, hle, header, jmpbuf, owner, frames, asked>>

setjmp(b) ==
  /\ jmpbuf' = [jmpbuf EXCEPT ![b] = regs]
  /\ UNCHANGED <<disc, fs, hle, header, regs, calls, owner, frames, asked>>

(* The activations, oldest first.                                          *)
Stack == Append(calls, regs)

(* Mutant: s0 is left out of the loop over the registers.                  *)
longjmpWithoutS0(b) ==
  /\ jmpbuf[b] # NoContext
  /\ \E k \in 1 .. Len(Stack) :
       Stack[k].frame = jmpbuf[b].frame /\ calls' = SubSeq(calls, 1, k - 1)
  /\ regs' = [jmpbuf[b] EXCEPT !.s0 = regs.s0]
  /\ UNCHANGED <<disc, fs, hle, header, jmpbuf, owner, frames, asked>>

(* A jump goes to an activation that has not ended.                        *)
longjmp(b) ==
  /\ jmpbuf[b] # NoContext
  /\ \E k \in 1 .. Len(Stack) :
       Stack[k].frame = jmpbuf[b].frame /\ calls' = SubSeq(calls, 1, k - 1)
  /\ regs' = jmpbuf[b]
  /\ UNCHANGED <<disc, fs, hle, header, jmpbuf, owner, frames, asked>>
-----------------------------------------------------------------------------
Next ==
  \/ psxBiosLoadExecCdrom \/ Swap \/ Work
  \/ \E path \in Directories : cd(path)
  \/ \E path \in Paths : LoadExec(path) \/ \E h \in Headers : Load(path, h)
  \/ \E h \in Headers : Exec(h)
  \/ ExecRet
  \/ \E b \in Buffers : setjmp(b) \/ longjmp(b)

Spec == Init /\ [][Next]_vars
-----------------------------------------------------------------------------
(* Types; the tables are always those of one whole disc.                   *)
TypeOK ==
  /\ disc \in Discs
  /\ fs.disc \in Discs /\ fs.byPath \in Tables[fs.disc]
  /\ hle.version \in Versions \cup {2} /\ hle.pwd \in Directories \cup {NoPwd}
  /\ header \in [AllHeaders ->
       [prog : Programs \cup {NoProgram}, saved : Contexts \cup {NoContext}]]
  /\ regs \in Contexts /\ jmpbuf \in [Buffers -> Contexts \cup {NoContext}]
  /\ calls \in Seq(Contexts) /\ owner \in [AllHeaders -> 0 .. MaxFrames]
  /\ frames \in 1 .. MaxFrames
  /\ asked \in [AllHeaders \cup {NoHeader} -> Programs \cup {NoProgram}]

(* Every file of the disc is found under its path, in whatever order its   *)
(* entries were reported, and the sector found is its own.                 *)
FilesFound ==
  \A f \in Files[fs.disc] : f.path \in DOMAIN fs.byPath /\ fs.byPath[f.path] = f.start

(* What Load put into a descriptor, and what was booted, is the program    *)
(* that was asked for, after any sequence of cd, Load, LoadExec, returns,  *)
(* jumps, resets and swaps of the disc.                                    *)
RunsAsAsked ==
  /\ \A h \in AllHeaders : asked[h] # NoProgram => header[h].prog = asked[h]
  /\ Stack[1].prog = asked[NoHeader]
=============================================================================
