-------------------------- MODULE KernelTablesProofs --------------------------
(***************************************************************************)
(* Theorems about KernelTables, for kernels of any layout and size.        *)
(***************************************************************************)
EXTENDS KernelTables, TLAPS

(* What every RAM satisfies, the running one and a saved one alike.        *)
Spaces == Arenas \cup {Heap}

AllocatorSound(h) ==
  /\ h \in Region /\ h.size % 4 = 0 /\ h.size < Wrap
  /\ \E z \in Spaces : Within(h, z)

TablesSound(t) ==
  /\ t \in [Tables -> Region]
  /\ \A j, k \in Tables : j # k => Apart(t[j], t[k])
  /\ \A k \in Tables : Within(t[k], Kernel) \/ (k \in Counted /\ t[k] \in Moves[k])

(* The blocks given away stay away from what may be given away next.       *)
BlocksSound(r) ==
  /\ r.given \in SUBSET Region
  /\ \A b \in r.given : \E z \in Spaces : Within(b, z)
  /\ \A a, b \in r.given : a # b => Apart(a, b)
  /\ \A b \in r.given : Apart(b, r.kheap)
  /\ \A b \in r.given, k \in Tables : Apart(b, r.tables[k])

Sound(r) ==
  /\ r \in Ram
  /\ AllocatorSound(r.kheap)
  /\ TablesSound(r.tables)
  /\ \A k \in Tables : Apart(r.tables[k], r.kheap)
  /\ BlocksSound(r)
  /\ r.current \in Threads(r.tables["THREADS"])
  /\ Recognised(r)

Numbers == {m \in [Tables -> Nat] : m["THREADS"] >= 1}

IInv ==
  /\ Sound(ram)
  /\ saved # NoState => Sound(saved)
  /\ max \in Numbers
  /\ synced \subseteq Counted
  /\ phase \in {"reset", "running"}
  /\ WalksInTable
-----------------------------------------------------------------------------
(* Arithmetic.                                                             *)

LEMMA BytesNat == ASSUME NEW a \in Nat, NEW b \in Nat PROVE a * b \in Nat
  OBVIOUS

LEMMA BytesPositive == ASSUME NEW a \in Nat, NEW b \in Nat, b >= 1 PROVE a * b >= a
  OBVIOUS

LEMMA Quotient ==
  ASSUME NEW a \in Nat, NEW b \in Nat \ {0}
  PROVE /\ a \div b \in Nat
        /\ b * (a \div b) <= a
        /\ a >= b => a \div b >= 1
        /\ a \div b >= 1 => a >= b
  OBVIOUS

(* Parts of regions that lie apart lie apart.                              *)
LEMMA PartsApart ==
  ASSUME NEW a \in Region, NEW b \in Region, NEW y \in Region, NEW z \in Region,
         Within(a, y), Within(b, z), Apart(y, z)
  PROVE Apart(a, b)
  BY DEF Region, Within, Apart, End

LEMMA ApartSymmetric ==
  ASSUME NEW a, NEW b, Apart(a, b) PROVE Apart(b, a)
  BY DEF Apart

LEMMA WithinSelf == ASSUME NEW a \in Region PROVE Within(a, a)
  BY DEF Region, Within, End

(* A table of at least one thread has the first.                           *)
LEMMA FirstThread ==
  ASSUME NEW t \in Region, t.size >= SizeOf["THREADS"]
  PROVE t.at \in Threads(t)
  <1>1. SizeOf["THREADS"] \in Nat \ {0}
    BY LayoutAssumption DEF Tables
  <1>2. t.size \div SizeOf["THREADS"] \in Nat /\ t.size \div SizeOf["THREADS"] >= 1
    BY <1>1, Quotient DEF Region
  <1>3. 0 \in 0 .. (t.size \div SizeOf["THREADS"]) - 1 /\ t.at = t.at + 0 * SizeOf["THREADS"]
    BY <1>1, <1>2 DEF Region
  <1> QED
    BY <1>3 DEF Threads

(* An allocation splits the heap in whole words.                           *)
LEMMA RestOf ==
  ASSUME NEW h \in Region, h.size % 4 = 0, NEW n \in Nat, HasRoom(h, n)
  PROVE /\ Aligned(n) \in Nat /\ n <= Aligned(n)
        /\ Rest(h, n) \in Region
        /\ Rest(h, n).at = h.at + Aligned(n)
        /\ Rest(h, n).size % 4 = 0 /\ Rest(h, n).size <= h.size
        /\ End(Rest(h, n)) = End(h)
  <1>1. /\ Aligned(n) \in Nat /\ n <= Aligned(n) /\ Aligned(n) % 4 = 0 /\ Aligned(n) <= h.size
    BY DEF Region, HasRoom, Aligned
  <1>2. Minus(h.size, Aligned(n)) = h.size - Aligned(n)
    BY <1>1 DEF Minus, Region
  <1>3. (h.size - Aligned(n)) % 4 = 0
    BY <1>1 DEF Region
  <1> QED
    BY <1>1, <1>2, <1>3 DEF Region, Rest, End
-----------------------------------------------------------------------------
(* The tables that psxBiosInitKernelDataStructure lays out.                *)

(* The first of them lies at the front of a heap, the others in its rest.  *)
LEMMA FrontOf ==
  ASSUME NEW h \in Region, h.size % 4 = 0, NEW n \in Nat, HasRoom(h, n)
  PROVE LET b == [at |-> h.at, size |-> n] IN
        /\ b \in Region
        /\ Within(b, h) /\ Within(Rest(h, n), h) /\ Apart(b, Rest(h, n))
  BY RestOf DEF Region, Within, Apart, End

LEMMA WithinTransitive ==
  ASSUME NEW a \in Region, NEW b \in Region, NEW c \in Region, Within(a, b), Within(b, c)
  PROVE Within(a, c)
  BY DEF Region, Within, End

LEMMA LaidOut ==
  ASSUME NEW m \in Numbers, Fits(m)
  PROVE /\ Laid(m) \in [Tables -> Region]
        /\ AfterEvents(m) \in Region
        /\ AfterEvents(m).size % 4 = 0 /\ AfterEvents(m).size < Wrap
        /\ Within(AfterEvents(m), Heap)
        /\ \A k \in Tables : Within(Laid(m)[k], Heap) /\ Apart(Laid(m)[k], AfterEvents(m))
        /\ \A j, k \in Tables : j # k => Apart(Laid(m)[j], Laid(m)[k])
        /\ Laid(m)["THREADS"].at \in Threads(Laid(m)["THREADS"])
  <1> DEFINE h0 == Heap
             h1 == AfterProcess(m)
             h2 == AfterThreads(m)
             h3 == AfterHandlers(m)
             h4 == AfterEvents(m)
             p == Laid(m)["PROCESS"]
             t == Laid(m)["THREADS"]
             i == Laid(m)["HANDLERS"]
             e == Laid(m)["EVENTS"]
  <1>1. \A k \in Tables : Bytes(m, k) \in Nat
    BY LayoutAssumption, BytesNat DEF Numbers, Bytes
  <1>2. h0 \in Region /\ h0.size % 4 = 0 /\ h0.size < Wrap /\ Wrap \in Nat
    BY LayoutAssumption
  <1>3. /\ p = [at |-> h0.at, size |-> Bytes(m, "PROCESS")]
        /\ t = [at |-> h1.at, size |-> Bytes(m, "THREADS")]
        /\ i = [at |-> h2.at, size |-> Bytes(m, "HANDLERS")]
        /\ e = [at |-> h3.at, size |-> Bytes(m, "EVENTS")]
    BY DEF Laid, Tables
  <1>4. /\ h1 \in Region /\ h1.size % 4 = 0 /\ h1.size <= h0.size
        /\ p \in Region /\ Within(p, h0) /\ Within(h1, h0) /\ Apart(p, h1)
    BY <1>1, <1>2, <1>3, RestOf, FrontOf DEF Fits, AfterProcess, Tables
  <1>5. /\ h2 \in Region /\ h2.size % 4 = 0 /\ h2.size <= h1.size
        /\ t \in Region /\ Within(t, h1) /\ Within(h2, h1) /\ Apart(t, h2)
    BY <1>1, <1>3, <1>4, RestOf, FrontOf DEF Fits, AfterThreads, Tables
  <1>6. /\ h3 \in Region /\ h3.size % 4 = 0 /\ h3.size <= h2.size
        /\ i \in Region /\ Within(i, h2) /\ Within(h3, h2) /\ Apart(i, h3)
    BY <1>1, <1>3, <1>5, RestOf, FrontOf DEF Fits, AfterHandlers, Tables
  <1>7. /\ h4 \in Region /\ h4.size % 4 = 0 /\ h4.size <= h3.size
        /\ e \in Region /\ Within(e, h3) /\ Within(h4, h3) /\ Apart(e, h4)
    BY <1>1, <1>3, <1>6, RestOf, FrontOf DEF Fits, AfterEvents, Tables
  <1>8. h4.size < Wrap
    BY <1>2, <1>4, <1>5, <1>6, <1>7 DEF Region
  <1> HIDE DEF h0, h1, h2, h3, h4, p, t, i, e
  <1>9. /\ Within(h2, h0) /\ Within(h3, h0) /\ Within(h4, h0)
        /\ Within(h3, h1) /\ Within(h4, h1) /\ Within(h4, h2)
    BY <1>2, <1>4, <1>5, <1>6, <1>7, WithinTransitive
  <1>10. /\ Within(t, h0) /\ Within(i, h0) /\ Within(e, h0)
         /\ Within(i, h1) /\ Within(e, h1) /\ Within(e, h2)
    BY <1>2, <1>4, <1>5, <1>6, <1>7, <1>9, WithinTransitive
  <1>11. /\ Apart(p, t) /\ Apart(p, i) /\ Apart(p, e)
         /\ Apart(t, i) /\ Apart(t, e) /\ Apart(i, e)
         /\ Apart(p, h4) /\ Apart(t, h4) /\ Apart(i, h4)
    BY <1>4, <1>5, <1>6, <1>7, <1>9, <1>10, PartsApart, WithinSelf
  <1>12. Laid(m) \in [Tables -> Region]
    BY <1>4, <1>5, <1>6, <1>7 DEF Laid, Tables, p, t, i, e
  <1>13. \A k \in Tables : Within(Laid(m)[k], Heap) /\ Apart(Laid(m)[k], AfterEvents(m))
    BY <1>4, <1>7, <1>10, <1>11 DEF Tables, p, t, i, e, h0, h4
  <1>14. \A j, k \in Tables : j # k => Apart(Laid(m)[j], Laid(m)[k])
    BY <1>11, ApartSymmetric DEF Tables, p, t, i, e
  <1>15. Laid(m)["THREADS"].at \in Threads(Laid(m)["THREADS"])
    <2>1. Laid(m)["THREADS"].size >= SizeOf["THREADS"]
      BY <1>3, LayoutAssumption, BytesPositive DEF Numbers, Bytes, Tables, t
    <2> QED
      BY <2>1, <1>5, FirstThread DEF t
  <1> QED
    BY <1>7, <1>8, <1>9, <1>12, <1>13, <1>14, <1>15 DEF h0, h4
-----------------------------------------------------------------------------
(* The RAM that each kind of step leaves is sound.                         *)

LEMMA SpacesApart ==
  /\ \A z \in Spaces : z \in Region /\ z.size % 4 = 0 /\ z.size < Wrap
  /\ \A y, z \in Spaces : y = z \/ Apart(y, z)
  <1>1. \A a \in Arenas : Apart(a, Heap) /\ Apart(Heap, a)
    BY LayoutAssumption, ProgramAssumption, PartsApart, WithinSelf, ApartSymmetric
  <1> QED
    BY <1>1, LayoutAssumption, ProgramAssumption DEF Spaces

(* Memory that is not the program's lies apart from its arenas.            *)
LEMMA TableApartFromArena ==
  ASSUME NEW t, TablesSound(t), NEW k \in Tables, NEW a \in Arenas
  PROVE Apart(t[k], a)
  <1>1. a \in Region /\ Apart(a, Kernel) /\ Kernel \in Region /\ t[k] \in Region
    BY LayoutAssumption, ProgramAssumption DEF TablesSound
  <1>2. CASE Within(t[k], Kernel)
    BY <1>1, <1>2, PartsApart, WithinSelf, ApartSymmetric
  <1>3. CASE k \in Counted /\ t[k] \in Moves[k]
    BY <1>3, ProgramAssumption
  <1> QED
    BY <1>2, <1>3 DEF TablesSound

LEMMA RebuiltSound ==
  ASSUME NEW m \in Numbers, Fits(m), NEW r, Sound(r)
  PROVE Sound(Rebuilt(r, m))
  <1> DEFINE n == Rebuilt(r, m)
  <1>1. /\ n.tables = Laid(m) /\ n.kheap = AfterEvents(m)
        /\ n.current = Laid(m)["THREADS"].at
        /\ n.given = {b \in r.given : Apart(b, Heap)}
        /\ n.magic = r.magic /\ n.vector = r.vector
    BY DEF Rebuilt, Sound, Ram
  <1>2. /\ Heap \in Region /\ Kernel \in Region /\ Within(Heap, Kernel) /\ Heap \in Spaces
    BY LayoutAssumption DEF Spaces
  <1>3. n.current \in Nat
    BY <1>1, LaidOut DEF Region, Tables
  <1>4. n \in Ram
    BY <1>1, <1>3, LaidOut DEF Rebuilt, Sound, Ram
  <1>5. AllocatorSound(n.kheap)
    BY <1>1, <1>2, LaidOut DEF AllocatorSound
  <1>6. TablesSound(n.tables)
    <2>1. \A k \in Tables : Within(Laid(m)[k], Kernel)
      BY <1>2, LaidOut, WithinTransitive
    <2> QED
      BY <1>1, <2>1, LaidOut DEF TablesSound
  <1>7. \A k \in Tables : Apart(n.tables[k], n.kheap)
    BY <1>1, LaidOut
  <1>8. BlocksSound(n)
    <2>1. \A b \in n.given : b \in Region /\ b \in r.given /\ Apart(b, Heap)
      BY <1>1 DEF Sound, BlocksSound
    <2>2. \A b \in n.given : Apart(b, n.kheap)
      BY <1>1, <1>2, <2>1, LaidOut, PartsApart, WithinSelf
    <2>3. \A b \in n.given, k \in Tables : Apart(b, n.tables[k])
      BY <1>1, <1>2, <2>1, LaidOut, PartsApart, WithinSelf
    <2> QED
      BY <2>1, <2>2, <2>3 DEF Sound, BlocksSound
  <1>9. n.current \in Threads(n.tables["THREADS"])
    BY <1>1, LaidOut
  <1>10. Recognised(n)
    BY <1>1 DEF Sound, Recognised
  <1> QED
    BY <1>4, <1>5, <1>6, <1>7, <1>8, <1>9, <1>10 DEF Sound

LEMMA FreshSound ==
  ASSUME NEW m \in Numbers, Fits(m)
  PROVE Sound(Fresh(m))
  <1> DEFINE n == Fresh(m)
  <1>1. /\ n.tables = Laid(m) /\ n.kheap = AfterEvents(m)
        /\ n.current = Laid(m)["THREADS"].at
        /\ n.given = {} /\ n.magic = TRUE /\ n.vector = TRUE
    BY DEF Fresh
  <1>2. /\ Heap \in Region /\ Kernel \in Region /\ Within(Heap, Kernel) /\ Heap \in Spaces
    BY LayoutAssumption DEF Spaces
  <1>3. n.current \in Nat
    BY <1>1, LaidOut DEF Region, Tables
  <1>4. n \in Ram
    BY <1>1, <1>3, LaidOut DEF Fresh, Ram
  <1>5. AllocatorSound(n.kheap)
    BY <1>1, <1>2, LaidOut DEF AllocatorSound
  <1>6. TablesSound(n.tables)
    <2>1. \A k \in Tables : Within(Laid(m)[k], Kernel)
      BY <1>2, LaidOut, WithinTransitive
    <2> QED
      BY <1>1, <2>1, LaidOut DEF TablesSound
  <1>7. \A k \in Tables : Apart(n.tables[k], n.kheap)
    BY <1>1, LaidOut
  <1>8. BlocksSound(n)
    BY <1>1 DEF BlocksSound
  <1>9. n.current \in Threads(n.tables["THREADS"])
    BY <1>1, LaidOut
  <1>10. Recognised(n)
    BY <1>1 DEF Recognised
  <1> QED
    BY <1>4, <1>5, <1>6, <1>7, <1>8, <1>9, <1>10 DEF Sound

LEMMA ConvertedSound ==
  ASSUME NEW m \in Numbers, Fits(m), NEW f \in Foreigns, MayConvert(f, m)
  PROVE Sound(Converted(f, m))
  <1> DEFINE n == Converted(f, m)
             t == CopiedTables(f, m)
  <1>1. /\ n.tables = t /\ n.kheap = AfterEvents(m)
        /\ n.current = t["THREADS"].at
        /\ n.given = {} /\ n.magic \in BOOLEAN /\ n.vector = TRUE
    BY DEF Converted, Fresh
  <1>2. f \in [Tables -> Region] /\ \A k \in Tables : Within(f[k], Kernel)
    BY ForeignAssumption
  <1>3. Bytes(m, "EVENTS") \in Nat
    BY LayoutAssumption, BytesNat DEF Numbers, Bytes, Tables
  <1>4. /\ t \in [Tables -> Region]
        /\ \A k \in Tables : t[k].at = f[k].at
        /\ t["THREADS"] = f["THREADS"]
    BY <1>2, <1>3 DEF CopiedTables, Region, Tables
  <1>5. /\ Heap \in Region /\ Kernel \in Region /\ Within(Heap, Kernel) /\ Heap \in Spaces
    BY LayoutAssumption DEF Spaces
  <1>6. \A k \in Tables : Within(t[k], Kernel)
    <2> SUFFICES ASSUME NEW k \in Tables PROVE Within(t[k], Kernel)
      OBVIOUS
    <2>1. End(t[k]) <= AfterEvents(m).at /\ AfterEvents(m).at <= End(Heap)
      BY <1>5, LaidOut DEF MayConvert, Within, End, Region
    <2> QED
      BY <1>2, <1>4, <1>5, <2>1, LaidOut DEF Within, End, Region
  <1>7. n \in Ram
    <2>1. n.current \in Nat
      BY <1>1, <1>4 DEF Region, Tables
    <2> QED
      BY <1>1, <1>4, <2>1, LaidOut DEF Converted, Fresh, Ram
  <1>8. AllocatorSound(n.kheap)
    BY <1>1, <1>5, LaidOut DEF AllocatorSound
  <1>9. TablesSound(n.tables)
    BY <1>1, <1>4, <1>6 DEF TablesSound, MayConvert
  <1>10. \A k \in Tables : Apart(n.tables[k], n.kheap)
    BY <1>1 DEF MayConvert, Apart
  <1>11. BlocksSound(n)
    BY <1>1 DEF BlocksSound
  <1>12. n.current \in Threads(n.tables["THREADS"])
    BY <1>1, <1>2, <1>4, ForeignAssumption, FirstThread DEF Tables
  <1>13. Recognised(n)
    BY <1>1 DEF Recognised
  <1> QED
    BY <1>7, <1>8, <1>9, <1>10, <1>11, <1>12, <1>13 DEF Sound

LEMMA SysMallocSound ==
  ASSUME Sound(ram), NEW n \in Nat, HasRoom(ram.kheap, n),
         ram' = [ram EXCEPT !.kheap = Rest(@, n),
                            !.given = @ \cup {[at |-> ram.kheap.at, size |-> Aligned(n)]}]
  PROVE Sound(ram')
  <1> DEFINE h == ram.kheap
             b0 == [at |-> h.at, size |-> Aligned(n)]
  <1>1. /\ h \in Region /\ h.size % 4 = 0 /\ h.size < Wrap /\ Wrap \in Nat
        /\ ram \in Ram
    BY LayoutAssumption DEF Sound, AllocatorSound
  <1>2. PICK z \in Spaces : Within(h, z)
    BY DEF Sound, AllocatorSound
  <1>3. /\ Aligned(n) \in Nat /\ Rest(h, n) \in Region
        /\ Rest(h, n).at = h.at + Aligned(n)
        /\ Rest(h, n).size % 4 = 0 /\ Rest(h, n).size <= h.size
        /\ End(Rest(h, n)) = End(h)
    BY <1>1, RestOf
  <1>4. /\ b0 \in Region /\ Within(b0, h) /\ Within(Rest(h, n), h)
        /\ Apart(b0, Rest(h, n))
    BY <1>1, <1>3 DEF Region, Within, Apart, End
  <1>5. z \in Region
    BY SpacesApart
  <1>6. /\ ram'.tables = ram.tables /\ ram'.kheap = Rest(h, n) /\ ram'.current = ram.current
        /\ ram'.given = ram.given \cup {b0}
        /\ ram'.magic = ram.magic /\ ram'.vector = ram.vector
    BY <1>1 DEF Ram
  <1> HIDE DEF b0, h
  <1>7. ram' \in Ram
    BY <1>1, <1>3, <1>4 DEF Ram, b0, h
  <1>8. AllocatorSound(ram'.kheap)
    <2>1. Within(Rest(h, n), z) /\ Rest(h, n).size < Wrap
      BY <1>1, <1>2, <1>3, <1>4, <1>5, WithinTransitive DEF Region, h
    <2> QED
      BY <1>3, <1>6, <2>1 DEF AllocatorSound
  <1>9. TablesSound(ram'.tables)
    BY <1>6 DEF Sound
  <1>10. \A k \in Tables : /\ Apart(ram.tables[k], Rest(h, n))
                           /\ Apart(ram.tables[k], b0)
    BY <1>1, <1>3, <1>4, PartsApart, WithinSelf DEF Sound, TablesSound, h
  <1>11. BlocksSound(ram')
    <2>1. \A b \in ram.given :
            /\ b \in Region
            /\ Apart(b, Rest(h, n)) /\ Apart(b, b0) /\ Apart(b0, b)
      BY <1>1, <1>3, <1>4, PartsApart, WithinSelf, ApartSymmetric DEF Sound, BlocksSound, h
    <2>2. Within(b0, z)
      BY <1>1, <1>2, <1>4, <1>5, WithinTransitive DEF h
    <2>3. \A k \in Tables : Apart(b0, ram.tables[k])
      BY <1>10, ApartSymmetric
    <2>4. ram'.given \in SUBSET Region /\ \A b \in ram'.given : \E y \in Spaces : Within(b, y)
      BY <1>4, <1>6, <2>2 DEF Sound, BlocksSound
    <2>5. \A a, b \in ram'.given : a # b => Apart(a, b)
      BY <1>6, <2>1 DEF Sound, BlocksSound
    <2>6. \A b \in ram'.given : Apart(b, ram'.kheap)
      BY <1>4, <1>6, <2>1
    <2>7. \A b \in ram'.given, k \in Tables : Apart(b, ram'.tables[k])
      BY <1>6, <2>3 DEF Sound, BlocksSound
    <2> QED
      BY <2>4, <2>5, <2>6, <2>7 DEF BlocksSound
  <1>12. ram'.current \in Threads(ram'.tables["THREADS"]) /\ Recognised(ram')
    BY <1>6 DEF Sound, Recognised
  <1> QED
    BY <1>6, <1>7, <1>8, <1>9, <1>10, <1>11, <1>12 DEF Sound

LEMMA SysInitMemorySound ==
  ASSUME Sound(ram), NEW a \in Arenas,
         ram' = [ram EXCEPT !.kheap = a, !.given = {b \in @ : Apart(b, a)}]
  PROVE Sound(ram')
  <1>1. a \in Region /\ a \in Spaces /\ a.size % 4 = 0 /\ a.size < Wrap
    BY ProgramAssumption DEF Spaces
  <1>2. /\ ram'.tables = ram.tables /\ ram'.kheap = a /\ ram'.current = ram.current
        /\ ram'.given = {b \in ram.given : Apart(b, a)}
        /\ ram'.magic = ram.magic /\ ram'.vector = ram.vector
    BY DEF Sound, Ram
  <1>3. ram' \in Ram
    BY <1>1 DEF Sound, Ram
  <1>4. AllocatorSound(ram'.kheap)
    BY <1>1, <1>2, WithinSelf DEF AllocatorSound
  <1>5. TablesSound(ram'.tables)
    BY <1>2 DEF Sound
  <1>6. \A k \in Tables : Apart(ram'.tables[k], ram'.kheap)
    BY <1>2, TableApartFromArena DEF Sound
  <1>7. BlocksSound(ram')
    BY <1>2 DEF Sound, BlocksSound
  <1>8. ram'.current \in Threads(ram'.tables["THREADS"]) /\ Recognised(ram')
    BY <1>2 DEF Sound, Recognised
  <1> QED
    BY <1>3, <1>4, <1>5, <1>6, <1>7, <1>8 DEF Sound

(* A program's table lies apart from all that is the kernel's, from what   *)
(* the allocator has and from what it gave away.                           *)
LEMMA MoveApart ==
  ASSUME NEW k \in Counted, NEW q \in Moves[k]
  PROVE /\ q \in Region /\ q.size >= SizeOf[k]
        /\ \A x \in Region, z \in Spaces \cup {Kernel} : Within(x, z) => Apart(q, x)
  <1>1. q \in Region /\ q.size >= SizeOf[k] /\ Apart(q, Kernel)
    BY ProgramAssumption
  <1>2. \A z \in Spaces \cup {Kernel} : z \in Region /\ Apart(q, z)
    <2>1. Apart(q, Heap) /\ Heap \in Region /\ Kernel \in Region
      BY <1>1, LayoutAssumption, PartsApart, WithinSelf
    <2> QED
      BY <1>1, <2>1, ProgramAssumption DEF Spaces
  <1> QED
    BY <1>1, <1>2, PartsApart, WithinSelf

LEMMA MoveTableSound ==
  ASSUME Sound(ram), NEW k \in Counted, NEW q \in Moves[k],
         ram' = [ram EXCEPT !.tables[k] = q, !.current = IF k = "THREADS" THEN q.at ELSE @]
  PROVE Sound(ram')
  <1>1. /\ q \in Region /\ q.size >= SizeOf[k] /\ k \in Tables
        /\ \A x \in Region, z \in Spaces \cup {Kernel} : Within(x, z) => Apart(q, x)
    BY MoveApart DEF Counted, Tables
  <1>2. /\ ram'.kheap = ram.kheap /\ ram'.given = ram.given
        /\ ram'.magic = ram.magic /\ ram'.vector = ram.vector
        /\ ram'.tables = [ram.tables EXCEPT ![k] = q]
        /\ ram'.current = IF k = "THREADS" THEN q.at ELSE ram.current
    BY DEF Sound, Ram
  <1>3. /\ ram'.tables \in [Tables -> Region] /\ ram'.tables[k] = q
        /\ \A j \in Tables \ {k} : ram'.tables[j] = ram.tables[j]
    BY <1>1, <1>2 DEF Sound, TablesSound
  <1>4. ram' \in Ram
    <2>1. ram'.current \in Nat
      BY <1>1, <1>2 DEF Sound, Ram, Region
    <2> QED
      BY <1>2, <1>3, <2>1 DEF Sound, Ram
  <1>5. AllocatorSound(ram'.kheap)
    BY <1>2 DEF Sound
  <1>6. TablesSound(ram'.tables)
    <2>1. ASSUME NEW j \in Tables \ {k} PROVE Apart(q, ram.tables[j])
      <3>1. ram.tables[j] \in Region
        BY DEF Sound, TablesSound
      <3>2. CASE Within(ram.tables[j], Kernel)
        BY <1>1, <3>1, <3>2
      <3>3. CASE j \in Counted /\ ram.tables[j] \in Moves[j]
        BY <3>3, ProgramAssumption
      <3> QED
        BY <3>2, <3>3 DEF Sound, TablesSound
    <2>2. \A i, j \in Tables : i # j => Apart(ram'.tables[i], ram'.tables[j])
      BY <1>3, <2>1, ApartSymmetric DEF Sound, TablesSound
    <2> QED
      BY <1>3, <2>2 DEF Sound, TablesSound
  <1>7. \A j \in Tables : Apart(ram'.tables[j], ram'.kheap)
    <2>1. Apart(q, ram.kheap)
      BY <1>1 DEF Sound, AllocatorSound
    <2> QED
      BY <1>2, <1>3, <2>1 DEF Sound
  <1>8. BlocksSound(ram')
    <2>1. \A b \in ram.given : Apart(b, q)
      BY <1>1, ApartSymmetric DEF Sound, BlocksSound
    <2> QED
      BY <1>2, <1>3, <2>1 DEF Sound, BlocksSound
  <1>9. ram'.current \in Threads(ram'.tables["THREADS"])
    BY <1>1, <1>2, <1>3, FirstThread DEF Sound, Tables, Counted
  <1>10. Recognised(ram')
    BY <1>2 DEF Sound, Recognised
  <1> QED
    BY <1>4, <1>5, <1>6, <1>7, <1>8, <1>9, <1>10 DEF Sound
-----------------------------------------------------------------------------
(* The invariant.                                                          *)

LEMMA DefaultNumbers == Defaults \in Numbers
  BY LayoutAssumption DEF Numbers, Tables

(* Tables laid out for max hold what the loops over max entries visit.     *)
LEMMA WalksAgree ==
  ASSUME NEW m \in Numbers, NEW r,
         r.tables["THREADS"].size = Bytes(m, "THREADS"),
         r.tables["EVENTS"].size = Bytes(m, "EVENTS"),
         ram' = r, max' = m
  PROVE \A k \in Counted : Bytes(max', k) <= ram'.tables[k].size
  <1>1. \A k \in Counted : Bytes(m, k) \in Nat
    BY LayoutAssumption, BytesNat DEF Numbers, Bytes, Counted, Tables
  <1> QED
    BY <1>1 DEF Counted

LEMMA InitInv == Init => IInv
  <1> SUFFICES ASSUME Init PROVE IInv
    OBVIOUS
  <1>1. Sound(ram) /\ max \in Numbers
    BY DefaultsAssumption, DefaultNumbers, FreshSound DEF Init
  <1>2. WalksInTable
    <2>1. \A k \in Counted : /\ ram.tables[k].size = Bytes(max, k)
                             /\ Bytes(max, k) \in Nat
      BY <1>1, LayoutAssumption, BytesNat
      DEF Init, Fresh, Laid, Numbers, Bytes, Counted, Tables
    <2> QED
      BY <2>1 DEF Init, WalksInTable
  <1> QED
    BY <1>1, <1>2 DEF IInv, Init

LEMMA RestartInv == IInv /\ Restart => IInv'
  <1> SUFFICES ASSUME IInv, Restart PROVE IInv'
    OBVIOUS
  <1>1. Sound(ram') /\ max' \in Numbers
    BY DefaultsAssumption, DefaultNumbers, FreshSound DEF Restart
  <1>2. WalksInTable'
    BY DefaultNumbers, WalksAgree DEF Restart, Fresh, Laid, Tables, Counted, WalksInTable
  <1> QED
    BY <1>1, <1>2 DEF IInv, Restart

LEMMA BuildInv ==
  ASSUME IInv, NEW m \in Numbers, NEW r, NEW next \in {"reset", "running"},
         Fits(m) => Sound(r) /\ r.tables = Laid(m),
         Build(m, r, next)
  PROVE IInv'
  <1>1. CASE Fits(m) /\ ram' = r /\ max' = m /\ synced' = Counted /\ phase' = next /\ saved' = saved
    <2>1. WalksInTable'
      BY <1>1, WalksAgree DEF Laid, Tables, Counted, WalksInTable
    <2> QED
      BY <1>1, <2>1 DEF IInv
  <1>2. CASE Restart
    BY <1>2, RestartInv
  <1> QED
    BY <1>1, <1>2 DEF Build

LEMMA BootInv ==
  ASSUME IInv,
         \/ Reset
         \/ \E threads, events \in Counts \cup {Unset}, extra \in BOOLEAN :
              psxBiosLoadExecCdrom(threads, events, extra)
         \/ \E threads, events \in Counts : SetConf(threads, events)
  PROVE IInv'
  <1> USE DEF IInv
  <1>1. CASE Reset
    BY <1>1, FreshSound, BuildInv DEF Reset, Fresh
  <1>2. ASSUME NEW m \in Numbers, Build(m, Rebuilt(ram, m), "running") PROVE IInv'
    <2>1. Fits(m) => Sound(Rebuilt(ram, m)) /\ Rebuilt(ram, m).tables = Laid(m)
      BY RebuiltSound DEF Rebuilt, Sound, Ram
    <2> QED
      BY <1>2, <2>1, BuildInv
  <1>3. ASSUME NEW threads \in Counts \cup {Unset}, NEW events \in Counts \cup {Unset},
               NEW extra \in BOOLEAN, psxBiosLoadExecCdrom(threads, events, extra)
        PROVE IInv'
    <2>1. Configured(threads, events, extra) \in Numbers
      BY LayoutAssumption DEF Configured, Numbers, Tables
    <2> QED
      BY <1>2, <1>3, <2>1 DEF psxBiosLoadExecCdrom
  <1>4. ASSUME NEW threads \in Counts, NEW events \in Counts, SetConf(threads, events)
        PROVE IInv'
    <2>1. [max EXCEPT !["THREADS"] = threads, !["EVENTS"] = events] \in Numbers
      BY LayoutAssumption DEF Numbers, Tables
    <2> QED
      BY <1>2, <1>4, <2>1 DEF SetConf
  <1> QED
    BY <1>1, <1>3, <1>4

(* A step that leaves the tables and the numbers alone.                    *)
LEMMA WalksKept ==
  ASSUME WalksInTable, ram'.tables = ram.tables, max' = max, synced' = synced
  PROVE WalksInTable'
  BY DEF WalksInTable, Bytes

LEMMA MemoryInv ==
  ASSUME IInv,
         \/ \E n \in Requests : SysMalloc(n)
         \/ \E a \in Arenas : SysInitMemory(a)
         \/ \E k \in Counted : \E q \in Moves[k] : MoveTable(k, q)
  PROVE IInv'
  <1> USE DEF IInv
  <1>1. ASSUME NEW n \in Requests, SysMalloc(n) PROVE IInv'
    <2>1. CASE Restart
      BY <2>1, RestartInv
    <2>2. CASE ~Restart
      <3>1. /\ HasRoom(ram.kheap, n) /\ n \in Nat
            /\ ram' = [ram EXCEPT !.kheap = Rest(@, n),
                                  !.given = @ \cup {[at |-> ram.kheap.at, size |-> Aligned(n)]}]
            /\ UNCHANGED <<max, synced, saved, phase>>
        BY <1>1, <2>2, LayoutAssumption DEF SysMalloc
      <3>2. Sound(ram')
        BY <3>1, SysMallocSound
      <3>3. ram'.tables = ram.tables
        BY <3>1 DEF Sound, Ram
      <3> QED
        BY <3>1, <3>2, <3>3, WalksKept
    <2> QED
      BY <2>1, <2>2
  <1>2. ASSUME NEW a \in Arenas, SysInitMemory(a) PROVE IInv'
    <2>1. Sound(ram')
      BY <1>2, SysInitMemorySound DEF SysInitMemory
    <2>2. ram'.tables = ram.tables
      BY <1>2 DEF SysInitMemory, Sound, Ram
    <2> QED
      BY <1>2, <2>1, <2>2, WalksKept DEF SysInitMemory
  <1>3. ASSUME NEW k \in Counted, NEW q \in Moves[k], MoveTable(k, q) PROVE IInv'
    <2>1. Sound(ram')
      BY <1>3, MoveTableSound DEF MoveTable
    <2>2. \A j \in Counted \ {k} : ram'.tables[j] = ram.tables[j]
      BY <1>3 DEF MoveTable, Sound, Ram, Counted, Tables
    <2>3. WalksInTable'
      BY <1>3, <2>2 DEF MoveTable, WalksInTable, Bytes
    <2> QED
      BY <1>3, <2>1, <2>3 DEF MoveTable
  <1> QED
    BY <1>1, <1>2, <1>3

(* The table of threads has room for the one that runs.                    *)
LEMMA RoomForCurrent ==
  ASSUME NEW r, Sound(r) PROVE r.tables["THREADS"].size \div SizeOf["THREADS"] >= 1
  <1>1. /\ r.tables["THREADS"].size \in Nat /\ SizeOf["THREADS"] \in Nat \ {0}
    BY LayoutAssumption DEF Sound, TablesSound, Region, Tables
  <1>2. PICK t \in 0 .. (r.tables["THREADS"].size \div SizeOf["THREADS"]) - 1 : TRUE
    BY DEF Sound, Threads
  <1> QED
    BY <1>1, <1>2, Quotient

LEMMA CallInv ==
  ASSUME IInv,
         \/ \E k \in Counted : Open(k)
         \/ \E tcb \in Threads(ram.tables["THREADS"]) : ChangeTh(tcb)
         \/ ReplaceVector
  PROVE IInv'
  <1> USE DEF IInv
  <1>1. ASSUME NEW k \in Counted, Open(k) PROVE IInv'
    <2> DEFINE q == ram.tables[k].size \div SizeOf[k]
    <2>1. /\ ram.tables[k].size \in Nat /\ SizeOf[k] \in Nat \ {0} /\ k \in Tables
      BY LayoutAssumption DEF Sound, TablesSound, Region, Tables, Counted
    <2>2. q \in Nat /\ SizeOf[k] * q <= ram.tables[k].size
      BY <2>1, Quotient
    <2>3. k = "THREADS" => q >= 1
      BY RoomForCurrent
    <2> HIDE DEF q
    <2>4. max' = [max EXCEPT ![k] = q] /\ ram' = ram
      BY <1>1 DEF Open, q
    <2>5. max' \in Numbers
      BY <2>1, <2>2, <2>3, <2>4 DEF Numbers, Tables
    <2>6. \A j \in synced' : Bytes(max', j) <= ram'.tables[j].size
      BY <1>1, <2>1, <2>2, <2>4 DEF Open, Bytes, Numbers, WalksInTable, Counted, Tables
    <2> QED
      BY <1>1, <2>4, <2>5, <2>6 DEF Open, WalksInTable
  <1>2. ASSUME NEW tcb \in Threads(ram.tables["THREADS"]), ChangeTh(tcb) PROVE IInv'
    <2>1. /\ ram'.tables = ram.tables /\ ram'.kheap = ram.kheap /\ ram'.given = ram.given
          /\ ram'.current = tcb /\ ram'.magic = ram.magic /\ ram'.vector = ram.vector
      BY <1>2 DEF ChangeTh, Sound, Ram
    <2>2. tcb \in Nat
      <3>1. /\ ram.tables["THREADS"].at \in Nat /\ ram.tables["THREADS"].size \in Nat
            /\ SizeOf["THREADS"] \in Nat \ {0}
        BY LayoutAssumption DEF Sound, TablesSound, Region, Tables
      <3>2. PICK t \in 0 .. (ram.tables["THREADS"].size \div SizeOf["THREADS"]) - 1 :
              tcb = ram.tables["THREADS"].at + t * SizeOf["THREADS"]
        BY DEF Threads
      <3>3. t \in Nat /\ t * SizeOf["THREADS"] \in Nat
        BY <3>1, BytesNat, Quotient
      <3> QED
        BY <3>1, <3>2, <3>3
    <2>3. ram' \in Ram
      BY <1>2, <2>2 DEF ChangeTh, Sound, Ram
    <2>4. Sound(ram')
      BY <2>1, <2>3 DEF Sound, BlocksSound, Recognised
    <2> QED
      BY <1>2, <2>1, <2>4, WalksKept DEF ChangeTh
  <1>3. CASE ReplaceVector
    <2>1. /\ ram'.tables = ram.tables /\ ram'.kheap = ram.kheap /\ ram'.given = ram.given
          /\ ram'.current = ram.current /\ ram'.magic = ram.magic /\ ram.magic
      BY <1>3 DEF ReplaceVector, Sound, Ram
    <2>2. ram' \in Ram
      BY <1>3 DEF ReplaceVector, Sound, Ram
    <2>3. Sound(ram')
      BY <2>1, <2>2 DEF Sound, BlocksSound, Recognised
    <2> QED
      BY <1>3, <2>1, <2>3, WalksKept DEF ReplaceVector
  <1> QED
    BY <1>1, <1>2, <1>3

LEMMA StateInv ==
  ASSUME IInv, SaveState \/ LoadState \/ (\E f \in Foreigns : LoadForeign(f))
  PROVE IInv'
  <1> USE DEF IInv
  <1>1. CASE SaveState
    BY <1>1, WalksKept DEF SaveState
  <1>2. CASE LoadState
    <2>1. CASE Restart
      BY <2>1, RestartInv
    <2>2. CASE ~Restart
      BY <1>2, <2>2 DEF LoadState, WalksInTable
    <2> QED
      BY <2>1, <2>2
  <1>3. ASSUME NEW f \in Foreigns, LoadForeign(f) PROVE IInv'
    <2>1. CASE Restart
      BY <2>1, RestartInv
    <2>2. CASE ~Restart
      <3>1. /\ Fits(max) /\ MayConvert(f, max) /\ ram' = Converted(f, max)
            /\ synced' = {"EVENTS"} /\ phase' = "running" /\ UNCHANGED <<max, saved>>
        BY <1>3, <2>2 DEF LoadForeign
      <3>2. Sound(ram')
        BY <3>1, ConvertedSound
      <3>3. Bytes(max, "EVENTS") \in Nat
        BY LayoutAssumption, BytesNat DEF Numbers, Bytes, Tables
      <3>4. ram'.tables["EVENTS"].size = Bytes(max, "EVENTS")
        BY <3>1, <3>3, ForeignAssumption DEF Converted, Fresh, CopiedTables, Region, Tables
      <3>5. WalksInTable'
        BY <3>1, <3>3, <3>4 DEF WalksInTable, Bytes
      <3> QED
        BY <3>1, <3>2, <3>5 DEF Counted
    <2> QED
      BY <2>1, <2>2
  <1> QED
    BY <1>1, <1>2, <1>3

LEMMA StepInv == IInv /\ [Next]_vars => IInv'
  <1> SUFFICES ASSUME IInv, [Next]_vars PROVE IInv'
    OBVIOUS
  <1>1. CASE UNCHANGED vars
    BY <1>1 DEF vars, IInv, WalksInTable, Bytes
  <1>2. CASE Next
    BY <1>2, BootInv, RestartInv, MemoryInv, CallInv, StateInv DEF Next
  <1> QED
    BY <1>1, <1>2

LEMMA Invariant == Spec => []IInv
  BY InitInv, StepInv, PTL DEF Spec
-----------------------------------------------------------------------------
(* The allocator never leaves its heap and the sizes do not wrap around.   *)
THEOREM TypeCorrect == Spec => []TypeOK
  <1>1. IInv => TypeOK
    BY DEF IInv, TypeOK, Sound, AllocatorSound, Spaces, Numbers
  <1> QED
    BY <1>1, Invariant, PTL

(* The tables of the kernel lie apart, through every rebuilding, move and  *)
(* conversion.                                                             *)
THEOREM TablesStayApart == Spec => []TablesApart
  <1>1. IInv => TablesApart
    BY DEF IInv, Sound, TablesSound, TablesApart
  <1> QED
    BY <1>1, Invariant, PTL

(* What SysMalloc gave away lies apart, from the tables too.               *)
THEOREM BlocksStayApart == Spec => []BlocksApart
  <1>1. IInv => BlocksApart
    BY DEF IInv, Sound, BlocksSound, BlocksApart
  <1> QED
    BY <1>1, Invariant, PTL

(* The running thread is one of the table in use.                          *)
THEOREM CurrentStaysInTable == Spec => []CurrentInTable
  <1>1. IInv => CurrentInTable
    BY DEF IInv, Sound, CurrentInTable
  <1> QED
    BY <1>1, Invariant, PTL

(* The loops stay within tables whose size was seen.                       *)
THEOREM WalksStayInTable == Spec => []WalksInTable
  <1>1. IInv => WalksInTable
    BY DEF IInv
  <1> QED
    BY <1>1, Invariant, PTL

(* The kernel's memory stays apart.                                        *)
THEOREM MemoryStaysApart == Spec => []MemoryApart
BY TypeCorrect, TablesStayApart, BlocksStayApart, PTL DEF MemoryApart

(* Globals and tables agree.                                               *)
THEOREM GlobalsStayInTables == Spec => []GlobalsAgree
BY CurrentStaysInTable, WalksStayInTable, PTL DEF GlobalsAgree

(* States saved by this BIOS are recognised.                               *)
THEOREM SavedStatesLoad == Spec => []OwnStatesLoad
  <1>1. IInv => OwnStatesLoad
    BY DEF IInv, Sound, OwnStatesLoad
  <1> QED
    BY <1>1, Invariant, PTL
=============================================================================
