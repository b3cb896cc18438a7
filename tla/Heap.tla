-------------------------------- MODULE Heap --------------------------------
(***************************************************************************)
(* The user heap (psxbios.cpp: malloc, free, calloc, realloc, InitHeap).   *)
(*                                                                         *)
(* The heap is a row of chunks, each a header word and the words it owns;  *)
(* a chunk leads to the next one only by its size.  Freed chunks are       *)
(* merged lazily, by the next malloc, which then takes the first chunk     *)
(* that is large enough.  A header that is 0 makes everything behind it    *)
(* one free chunk: so the heap begins, and a header the program destroyed  *)
(* is repaired the same way.                                               *)
(***************************************************************************)
EXTENDS Integers

CONSTANTS
  Base,           \* heap_addr, as an offset into the 8 MB of the RAM mirrors, in bytes
  Top,            \* 8 MB
  Wrap,           \* 2^32, where sizes in bytes wrap around
  HeapSizes,      \* sizes a program gives to InitHeap, in bytes
  Requests,       \* sizes it asks malloc, calloc and realloc for, in bytes
  Counts,         \* numbers of elements it asks calloc for
  CallocMayFail,  \* it calls calloc when the memory may be short
  Null            \* the address 0

ASSUME HeapAssumption ==
  /\ Base \in Nat /\ Top \in Nat /\ Wrap \in Nat
  /\ Base + 4 <= Top /\ Top < Wrap
  /\ HeapSizes \subseteq Nat /\ Requests \subseteq Nat /\ Counts \subseteq Nat
  /\ CallocMayFail \in BOOLEAN
  /\ Null \notin Nat

VARIABLES
  heapWords,  \* heap_size, in words; 0 before InitHeap
  chunks,     \* the header words by their place, those a walk could still find
  v0,         \* what the last call returned: the place of a chunk's header, or Null
  held,       \* history: the blocks the program holds, with the bytes it asked for
  lowCleared  \* history: memory at address 0 was cleared

vars == <<heapWords, chunks, v0, held, lowCleared>>
-----------------------------------------------------------------------------
(* A header: the words the chunk owns and its lowest bit.                  *)
Header == [size : Nat, free : BOOLEAN]

Zero == [size |-> 0, free |-> FALSE]

Allocated(size) == [size |-> size, free |-> FALSE]

Free(size) == [size |-> size, free |-> TRUE]

Words(bytes) == (bytes + 3) \div 4

(* The scan stops at the first header that is 0.                           *)
Reached(c) == {h \in DOMAIN c : \A z \in DOMAIN c : c[z] = Zero => h <= z}

(* A run of free chunks ends at a chunk that is not free (or whose header  *)
(* is 0), or with the heap.                                                *)
RunEnds(c, h, e) ==
  /\ h < e
  /\ \/ e = heapWords
     \/ e \in Reached(c) /\ ~c[e].free
  /\ \A g \in Reached(c) : h < g /\ g < e => c[g].free

RunEnd(c, h) == CHOOSE e \in Reached(c) \cup {heapWords} : RunEnds(c, h, e)

(* The run is written back, as one free chunk: not if it ends at a 0.      *)
Merges(c, h) ==
  /\ c[h].free
  /\ RunEnd(c, h) = heapWords \/ c[RunEnd(c, h)] # Zero

Follows(c, h) == \E g \in DOMAIN c : c[g].free /\ g + c[g].size + 1 = h

(* Mutant: free chunks stay as they are.                                   *)
CollectedNot(c) ==
  [h \in Reached(c) |-> IF c[h] = Zero THEN Free(heapWords - h - 1) ELSE c[h]]

(* Mutant: a run is counted with its first header.                         *)
CollectedPastEnd(c) ==
  [h \in {g \in Reached(c) : ~(Merges(c, g) /\ Follows(c, g))} |->
     IF c[h] = Zero THEN Free(heapWords - h - 1)
     ELSE IF Merges(c, h) THEN Free(RunEnd(c, h) - h)
     ELSE c[h]]

(* The first loop of malloc: free chunks that follow each other become one.*)
Collected(c) ==
  [h \in {g \in Reached(c) : ~(Merges(c, g) /\ Follows(c, g))} |->
     IF c[h] = Zero THEN Free(heapWords - h - 1)
     ELSE IF Merges(c, h) THEN Free(RunEnd(c, h) - h - 1)
     ELSE c[h]]

(* The size of a chunk for a0 bytes.                                       *)
Rounded(a0) == ((a0 + 3) % Wrap) \div 4

Fits(c, h, size) == c[h].free /\ size <= c[h].size

FirstFit(c, h, size) ==
  Fits(c, h, size) /\ \A g \in DOMAIN c : Fits(c, g, size) => h <= g

(* A chunk is taken as a whole or split.                                   *)
Taken(c, h, size) ==
  IF c[h].size = size
  THEN [c EXCEPT ![h].free = FALSE]
  ELSE [g \in DOMAIN c \cup {h + size + 1} |->
          IF g = h THEN Allocated(size)
          ELSE IF g = h + size + 1 THEN Free(c[h].size - size - 1)
          ELSE c[g]]

Freed(c, h) == [c EXCEPT ![h].free = TRUE]

(* psxBios_malloc, on chunks c, with a0; bytes is what the caller thinks   *)
(* it asks for, others the blocks it holds besides.                        *)
malloc(c, a0, bytes, others) ==
  LET size == Rounded(a0)
      d == Collected(c)
  IN  \/ /\ a0 = 0 \/ heapWords = 0
         /\ chunks' = c /\ held' = others /\ v0' = Null
      \/ /\ a0 # 0 /\ heapWords # 0
         /\ \A h \in DOMAIN d : ~Fits(d, h, size)                \* out of memory
         /\ chunks' = d /\ held' = others /\ v0' = Null
      \/ /\ a0 # 0 /\ heapWords # 0
         /\ \E h \in DOMAIN d :
              /\ FirstFit(d, h, size)
              /\ chunks' = Taken(d, h, size)
              /\ held' = others \cup {[at |-> h, bytes |-> bytes]}
              /\ v0' = h
-----------------------------------------------------------------------------
Init ==
  /\ heapWords = 0 /\ chunks = [h \in {0} |-> Zero]
  /\ v0 = Null /\ held = {} /\ lowCleared = FALSE

(* The first header is cleared; the heap is laid out by the first malloc.  *)
InitHeap(n) ==
  LET size == IF (Base + n) % Wrap >= Top THEN Top - 4 - Base ELSE n
  IN  /\ heapWords' = size \div 4
      /\ chunks' = [h \in {0} |-> Zero]
      /\ held' = {}
      /\ UNCHANGED <<v0, lowCleared>>

Malloc(bytes) ==
  /\ malloc(chunks, bytes, bytes, held)
  /\ UNCHANGED <<heapWords, lowCleared>>

(* A program frees what it holds.  free(0) does nothing.                   *)
FreeBlock(b) ==
  /\ chunks' = Freed(chunks, b.at)
  /\ held' = held \ {b}
  /\ UNCHANGED <<heapWords, v0, lowCleared>>

(* The pointer calloc tests is never NULL: without memory it clears the    *)
(* bytes at address 0.                                                     *)
Calloc(count, bytes) ==
  LET a0 == (count * bytes) % Wrap
  IN  /\ malloc(chunks, a0, count * bytes, held)
      /\ CallocMayFail \/ v0' # Null \/ a0 = 0
      /\ lowCleared' = (lowCleared \/ (v0' = Null /\ a0 # 0))
      /\ UNCHANGED heapWords

(* Realloc of a block: free, then malloc.  With a size of 0 it is          *)
(* FreeBlock.                                                              *)
Realloc(b, bytes) ==
  /\ bytes # 0
  /\ malloc(Freed(chunks, b.at), bytes, bytes, held \ {b})
  /\ UNCHANGED <<heapWords, lowCleared>>

(* Realloc of no block hands malloc the null pointer for a size.           *)
ReallocNone(bytes) ==
  /\ malloc(chunks, 0, 0, held)
  /\ UNCHANGED <<heapWords, lowCleared>>
-----------------------------------------------------------------------------
Next ==
  \/ \E n \in HeapSizes : InitHeap(n)
  \/ \E bytes \in Requests :
       \/ Malloc(bytes)
       \/ ReallocNone(bytes)
       \/ \E count \in Counts : Calloc(count, bytes)
       \/ \E b \in held : Realloc(b, bytes)
  \/ \E b \in held : FreeBlock(b)

Spec == Init /\ [][Next]_vars
-----------------------------------------------------------------------------
(* Types.                                                                  *)
TypeOK ==
  /\ heapWords \in Nat
  /\ \A h \in DOMAIN chunks : h \in Nat /\ chunks[h] \in Header
  /\ v0 \in Nat \cup {Null}
  /\ \A b \in held : b \in [at : Nat, bytes : Nat]
  /\ lowCleared \in BOOLEAN

(* A block, its header included, ends where the heap does or before.       *)
BlocksWithin == \A b \in held : b.at + chunks[b.at].size < heapWords

(* "search an unused chunk that is big enough" (malloc): the block that is *)
(* returned has the bytes that were asked for.                             *)
BigEnough ==
  \A b \in held : b.at \in DOMAIN chunks /\ b.bytes <= 4 * chunks[b.at].size

(* "if (pv0)" (calloc): memory is cleared only if some was allocated.      *)
LowMemoryKept == ~lowCleared

(* "If old_buf is zero, executes malloc(new_size)" (realloc).              *)
ReallocNoneAllocates ==
  [][\A bytes \in Requests : ReallocNone(bytes) => malloc(chunks, bytes, bytes, held)]_vars

(* "Size must be clamped at 8MB" (InitHeap): the heap ends in the RAM.     *)
HeapInRam == Base + 4 * heapWords <= Top

(* What malloc returns lies in the heap, up to its last byte, and the heap *)
(* in the RAM; and it has the room that was asked for, after any sequence  *)
(* of calls.                                                               *)
BlocksInHeap == TypeOK /\ BigEnough /\ BlocksWithin /\ HeapInRam
=============================================================================
