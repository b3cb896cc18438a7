----------------------------- MODULE KernelTables -----------------------------
(***************************************************************************)
(* The tables of the PSX kernel and the allocator they come from           *)
(* (psxbios.cpp): boot, SetConf, SysMalloc, SysInitMemory, savestates.     *)
(*                                                                         *)
(* The tables lie in RAM, with pointers and sizes that programs may read   *)
(* and write; a savestate covers them.  The numbers of entries are globals *)
(* of the C++ program, which no savestate covers and no reset restores.    *)
(*                                                                         *)
(* Addresses and sizes are in bytes; the segment bits are left out.        *)
(***************************************************************************)
EXTENDS Integers

CONSTANTS
  Kernel,      \* the 64 KB of the kernel, as a region
  Heap,        \* KERNEL_HEAP .. KERNEL_HEAP_END, as a region
  Magic,       \* the bytes at KERNEL_HLE_MAGIC, as a region
  SizeOf,      \* SIZEOF_HANDLER, SIZEOF_PCB, SIZEOF_TCB, SIZEOF_EVCB
  Defaults,    \* the initial HANDLER_MAX, PCB_MAX, TCB_MAX, EVCB_MAX
  Counts,      \* numbers of threads and events that discs and SetConf ask for
  Requests,    \* sizes SysMalloc is asked for
  Arenas,      \* regions programs hand to SysInitMemory
  Moves,       \* by table, the regions programs move it to
  Foreigns,    \* the tables found in states that another BIOS saved
  Unset,       \* what SYSTEM.CNF says of a number it does not mention
  NoState,     \* no state has been saved
  Wrap         \* 2^32

Tables == {"HANDLERS", "PROCESS", "THREADS", "EVENTS"}

(* The tables whose number of entries can change.                          *)
Counted == {"THREADS", "EVENTS"}

Region == [at : Nat, size : Nat]

End(r) == r.at + r.size

Apart(a, b) == End(a) <= b.at \/ End(b) <= a.at

Within(a, b) == b.at <= a.at /\ End(a) <= End(b)

(* Numbers of threads and events are not so large that the size of a table *)
(* wraps around, and not 0: thread 0 is written even if there is none.     *)
(* Regions given to SysInitMemory are whole words.  Memory that programs   *)
(* use for arenas and tables is their own.                                 *)
ASSUME LayoutAssumption ==
  /\ Kernel \in Region /\ Heap \in Region /\ Magic \in Region
  /\ Within(Heap, Kernel) /\ Apart(Magic, Heap)
  /\ SizeOf \in [Tables -> Nat \ {0}] /\ Defaults \in [Tables -> Nat \ {0}]
  /\ Counts \subseteq Nat \ {0} /\ Requests \subseteq Nat
  /\ Wrap \in Nat \ {0} /\ Heap.size % 4 = 0 /\ Heap.size < Wrap
  /\ Unset \notin Nat

ASSUME ProgramAssumption ==
  /\ Arenas \subseteq Region
  /\ \A a \in Arenas : Apart(a, Kernel) /\ a.size % 4 = 0 /\ a.size < Wrap
  /\ \A a, b \in Arenas : a = b \/ Apart(a, b)
  /\ Moves \in [Counted -> SUBSET Region]
  /\ \A k \in Counted : \A r \in Moves[k] :
       /\ r.size >= SizeOf[k] /\ Apart(r, Kernel)
       /\ \A a \in Arenas : Apart(r, a)
       /\ \A j \in Counted \ {k} : \A q \in Moves[j] : Apart(r, q)

ASSUME ForeignAssumption ==
  /\ Foreigns \subseteq [Tables -> Region]
  /\ \A f \in Foreigns : /\ f["THREADS"].size >= SizeOf["THREADS"]
                         /\ \A k \in Tables : Within(f[k], Kernel)

VARIABLES
  ram,      \* what a savestate covers, see Ram
  max,      \* HANDLER_MAX, PCB_MAX, TCB_MAX, EVCB_MAX
  synced,   \* history: the tables whose size was not changed behind max's back
  saved,    \* the savestate
  phase     \* "reset" or "running"

vars == <<ram, max, synced, saved, phase>>

(* tables: the pointers and sizes at G_HANDLERS .. G_EVENTS_SIZE; kheap:   *)
(* g_hle->kheap_addr, kheap_size; current: the thread the process control  *)
(* block points to; given, history: the blocks SysMalloc gave away out of  *)
(* heaps that were not set up anew since; magic, vector: "HLE" stands at   *)
(* KERNEL_HLE_MAGIC, the trampoline at KERNEL_EXCEPTION_VECTOR.            *)
Ram == [tables : [Tables -> Region], kheap : Region, current : Nat,
        given : SUBSET Region, magic : BOOLEAN, vector : BOOLEAN]
-----------------------------------------------------------------------------
(* The allocator hands out words from the front of a region.               *)

Aligned(n) == ((n + 3) \div 4) * 4

Minus(a, b) == IF b <= a THEN a - b ELSE a - b + Wrap

HasRoom(h, n) == h.size > n

(* Mutant: the heap goes on behind the bytes asked for, not the words.     *)
RestUnaligned(h, n) == [at |-> h.at + n, size |-> Minus(h.size, n)]

Rest(h, n) == [at |-> h.at + Aligned(n), size |-> Minus(h.size, Aligned(n))]

Bytes(m, k) == SizeOf[k] * m[k]

(* What is left of the kernel's heap after each of the four tables.        *)
AfterProcess(m) == Rest(Heap, Bytes(m, "PROCESS"))

AfterThreads(m) == Rest(AfterProcess(m), Bytes(m, "THREADS"))

AfterHandlers(m) == Rest(AfterThreads(m), Bytes(m, "HANDLERS"))

AfterEvents(m) == Rest(AfterHandlers(m), Bytes(m, "EVENTS"))

Fits(m) ==
  /\ HasRoom(Heap, Bytes(m, "PROCESS"))
  /\ HasRoom(AfterProcess(m), Bytes(m, "THREADS"))
  /\ HasRoom(AfterThreads(m), Bytes(m, "HANDLERS"))
  /\ HasRoom(AfterHandlers(m), Bytes(m, "EVENTS"))

ASSUME DefaultsAssumption == Fits(Defaults)

Laid(m) ==
  [k \in Tables |->
     [at |-> CASE k = "PROCESS" -> Heap.at
               [] k = "THREADS" -> AfterProcess(m).at
               [] k = "HANDLERS" -> AfterThreads(m).at
               [] k = "EVENTS" -> AfterHandlers(m).at,
      size |-> Bytes(m, k)]]

(* psxBiosInitKernelDataStructure: new tables, in a heap set up anew.      *)
Rebuilt(r, m) ==
  [r EXCEPT !.tables = Laid(m), !.kheap = AfterEvents(m), !.current = Laid(m)["THREADS"].at,
            !.given = {b \in @ : Apart(b, Heap)}]

(* psxBiosInitFull, on memory that was cleared.                            *)
Fresh(m) ==
  [tables |-> Laid(m), kheap |-> AfterEvents(m), current |-> Laid(m)["THREADS"].at,
   given |-> {}, magic |-> TRUE, vector |-> TRUE]

Init ==
  /\ ram = Fresh(Defaults) /\ max = Defaults /\ synced = Counted
  /\ saved = NoState /\ phase = "reset"
-----------------------------------------------------------------------------
(* Boot.                                                                   *)

(* The emulator is started again; the savestate was kept in a file.        *)
Restart ==
  /\ ram' = Fresh(Defaults) /\ max' = Defaults /\ synced' = Counted /\ phase' = "reset"
  /\ UNCHANGED saved

(* A step that builds tables of m entries and leaves RAM as r.  Where they  *)
(* do not fit a rel_check of SysMalloc ends the emulator.                  *)
Build(m, r, next) ==
  \/ /\ Fits(m)
     /\ ram' = r /\ max' = m /\ synced' = Counted /\ phase' = next
     /\ UNCHANGED saved
  \/ ~Fits(m) /\ Restart

(* psxBiosInit: the numbers of entries stay as they are.                   *)
Reset == Build(max, Fresh(max), "reset")

(* SYSTEM.CNF may give the number of threads and events; per-game, there   *)
(* is one thread more.                                                     *)
Configured(threads, events, extra) ==
  [max EXCEPT !["THREADS"] = (IF threads = Unset THEN @ ELSE threads) + (IF extra THEN 1 ELSE 0),
              !["EVENTS"] = IF events = Unset THEN @ ELSE events]

psxBiosLoadExecCdrom(threads, events, extra) ==
  /\ phase = "reset"
  /\ LET m == Configured(threads, events, extra) IN Build(m, Rebuilt(ram, m), "running")
-----------------------------------------------------------------------------
(* Calls of the program.                                                   *)

SetConf(threads, events) ==
  /\ phase = "running"
  /\ LET m == [max EXCEPT !["THREADS"] = threads, !["EVENTS"] = events]
     IN Build(m, Rebuilt(ram, m), "running")

SysMalloc(n) ==
  /\ phase = "running"
  /\ \/ /\ HasRoom(ram.kheap, n)
        /\ ram' = [ram EXCEPT !.kheap = Rest(@, n),
                              !.given = @ \cup {[at |-> ram.kheap.at, size |-> Aligned(n)]}]
        /\ UNCHANGED <<max, synced, saved, phase>>
     \/ ~HasRoom(ram.kheap, n) /\ Restart

SysInitMemory(a) ==
  /\ phase = "running"
  /\ ram' = [ram EXCEPT !.kheap = a, !.given = {b \in @ : Apart(b, a)}]
  /\ UNCHANGED <<max, synced, saved, phase>>

(* The program writes the pointer and the size of a table.                 *)
MoveTable(k, r) ==
  /\ phase = "running"
  /\ ram' = [ram EXCEPT !.tables[k] = r, !.current = IF k = "THREADS" THEN r.at ELSE @]
  /\ synced' = synced \ {k}
  /\ UNCHANGED <<max, saved, phase>>

(* Mutant: the number of entries is not read again.                        *)
OpenTrusts(k) ==
  /\ phase = "running"
  /\ synced' = synced \cup {k}
  /\ UNCHANGED <<ram, max, saved, phase>>

(* OpenTh, OpenEvent: first of all the number of entries is read again.    *)
Open(k) ==
  /\ phase = "running"
  /\ max' = [max EXCEPT ![k] = ram.tables[k].size \div SizeOf[k]]
  /\ synced' = synced \cup {k}
  /\ UNCHANGED <<ram, saved, phase>>

Threads(table) == {table.at + t * SizeOf["THREADS"] : t \in 0 .. (table.size \div SizeOf["THREADS"]) - 1}

ChangeTh(tcb) ==
  /\ phase = "running"
  /\ ram' = [ram EXCEPT !.current = tcb]
  /\ UNCHANGED <<max, synced, saved, phase>>

(* The program puts its own code at the exception vector.  It is taken not *)
(* to do so where a conversion has overwritten the magic bytes.            *)
ReplaceVector ==
  /\ phase = "running" /\ ram.magic
  /\ ram' = [ram EXCEPT !.vector = FALSE]
  /\ UNCHANGED <<max, synced, saved, phase>>
-----------------------------------------------------------------------------
(* Savestates.                                                             *)

SaveState ==
  /\ phase = "running"
  /\ saved' = ram
  /\ UNCHANGED <<ram, max, synced, phase>>

Recognised(r) == r.magic \/ r.vector

(* HleHookAfterLoadState on a state that this BIOS saved.                  *)
LoadState ==
  /\ saved # NoState
  /\ \/ /\ Recognised(saved)
        /\ ram' = saved /\ synced' = {} /\ phase' = "running"
        /\ UNCHANGED <<max, saved>>
     \/ ~Recognised(saved) /\ Restart                       \* a failed rel_check

(* The pointers and sizes are copied up to, not including, the last size.  *)
CopiedTables(f, m) == [f EXCEPT !["EVENTS"].size = Bytes(m, "EVENTS")]

(* Mutant: the trampoline is not installed.                                *)
ConvertedNoVector(f, m) ==
  LET t == CopiedTables(f, m) IN
  [Fresh(m) EXCEPT !.tables = t, !.current = t["THREADS"].at, !.vector = FALSE,
                   !.magic = \A k \in Tables : Apart(t[k], Magic)]

(* Memory is set up anew and the tables are copied to where they were.  The *)
(* thread that was running is taken to be the first.                       *)
Converted(f, m) ==
  LET t == CopiedTables(f, m) IN
  [Fresh(m) EXCEPT !.tables = t, !.current = t["THREADS"].at,
                   !.magic = \A k \in Tables : Apart(t[k], Magic)]

(* The states that convert well: the tables, the events in the size of this *)
(* BIOS, lie apart from one another and from what the allocator has left.  *)
MayConvert(f, m) ==
  LET t == CopiedTables(f, m) IN
  /\ \A j, k \in Tables : j # k => Apart(t[j], t[k])
  /\ \A k \in Tables : End(t[k]) <= AfterEvents(m).at

(* HleHookAfterLoadState on a state that another BIOS saved.               *)
LoadForeign(f) ==
  /\ MayConvert(f, max)
  /\ \/ /\ Fits(max)
        /\ ram' = Converted(f, max) /\ synced' = {"EVENTS"} /\ phase' = "running"
        /\ UNCHANGED <<max, saved>>
     \/ ~Fits(max) /\ Restart
-----------------------------------------------------------------------------
Next ==
  \/ Reset \/ Restart
  \/ \E threads, events \in Counts \cup {Unset}, extra \in BOOLEAN :
       psxBiosLoadExecCdrom(threads, events, extra)
  \/ \E threads, events \in Counts : SetConf(threads, events)
  \/ \E n \in Requests : SysMalloc(n)
  \/ \E a \in Arenas : SysInitMemory(a)
  \/ \E k \in Counted : Open(k) \/ (\E r \in Moves[k] : MoveTable(k, r))
  \/ \E tcb \in Threads(ram.tables["THREADS"]) : ChangeTh(tcb)
  \/ ReplaceVector
  \/ SaveState \/ LoadState \/ (\E f \in Foreigns : LoadForeign(f))

Spec == Init /\ [][Next]_vars
-----------------------------------------------------------------------------
(* Types; what the allocator has left lies in the kernel's heap or in an   *)
(* arena, so its size has not wrapped around.                              *)
TypeOK ==
  /\ ram \in Ram
  /\ \E r \in Arenas \cup {Heap} : Within(ram.kheap, r)
  /\ max \in [Tables -> Nat]
  /\ synced \subseteq Counted
  /\ saved \in Ram \cup {NoState}
  /\ phase \in {"reset", "running"}

(* The kernel's tables and the blocks SysMalloc gave away overlap nowhere, *)
(* whatever is rebuilt, moved, loaded and converted in between.            *)
TablesApart ==
  \A j, k \in Tables : j # k => Apart(ram.tables[j], ram.tables[k])

BlocksApart ==
  /\ \A a, b \in ram.given : a # b => Apart(a, b)
  /\ \A b \in ram.given, k \in Tables : Apart(b, ram.tables[k])

(* The context of the running thread is saved in an entry of the threads'  *)
(* table, never in one that was given up.                                  *)
CurrentInTable == ram.current \in Threads(ram.tables["THREADS"])

(* The loops over EVCB_MAX and TCB_MAX entries stay within the tables, as  *)
(* soon as OpenTh or OpenEvent has seen a size that changed in RAM.        *)
WalksInTable == \A k \in synced : Bytes(max, k) <= ram.tables[k].size

(* The kernel's memory: the tables, the blocks it gave away and what the   *)
(* allocator has left to give never overlap or leave their space.          *)
MemoryApart == TypeOK /\ TablesApart /\ BlocksApart

(* The globals TCB_MAX and EVCB_MAX and the process control block agree    *)
(* with the tables in force.                                               *)
GlobalsAgree == CurrentInTable /\ WalksInTable

(* A state that this BIOS saves is one it recognises.                      *)
OwnStatesLoad == saved # NoState => Recognised(saved)
=============================================================================
