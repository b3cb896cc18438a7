----------------------------- MODULE HeapProofs -----------------------------
(***************************************************************************)
(* Theorems about Heap, for heaps and requests of any size.                *)
(***************************************************************************)
EXTENDS HeapRefinement, FiniteSetTheorems, TLAPS

(* The inductive invariant: the heap is fresh, or its chunks tile it and   *)
(* the chunks that are not free are the blocks the program holds.          *)
Tiled(c) ==
  /\ c \in [DOMAIN c -> Header]
  /\ \A h \in DOMAIN c : h \in 0 .. heapWords - 1
  /\ 0 \in DOMAIN c
  /\ \A h \in DOMAIN c : c[h] # Zero
  /\ \A h \in DOMAIN c : h + c[h].size + 1 \in DOMAIN c \cup {heapWords}
  /\ \A h, g \in DOMAIN c : h < g => h + c[h].size + 1 <= g

Holds(c, blocks) ==
  /\ \A b \in blocks :
       /\ b \in [at : Nat, bytes : Asked] /\ b.bytes # 0
       /\ b.at \in DOMAIN c /\ ~c[b.at].free /\ c[b.at].size = Words(b.bytes)
  /\ \A a, b \in blocks : a.at = b.at => a = b
  /\ \A h \in DOMAIN c : ~c[h].free => \E b \in blocks : b.at = h

FreshHeap == [h \in {0} |-> Zero]

(* The chunks malloc may be called on.                                     *)
Sound(c, blocks) ==
  \/ c = FreshHeap /\ blocks = {}
  \/ heapWords > 0 /\ Tiled(c) /\ Holds(c, blocks)

IInv ==
  /\ heapWords \in Nat /\ Base + 4 * heapWords <= Top
  /\ Sound(chunks, held)
  /\ v0 \in Nat \cup {Null} /\ lowCleared \in BOOLEAN

(* No free chunk is followed by another one.                               *)
NoTwoFree(c) ==
  \A h, g \in DOMAIN c : c[h].free /\ g = h + c[h].size + 1 => ~c[g].free
-----------------------------------------------------------------------------
(* Lemmas on numbers.                                                      *)

LEMMA Least ==
  ASSUME NEW S \in SUBSET Nat, S # {}
  PROVE  \E m \in S : \A n \in S : m <= n
<1> DEFINE R == StrictSubsetOrdering(Nat)
           F == FiniteSubsetsOf(Nat)
           T == {0 .. n : n \in S}
<1>1. IsWellFoundedOn(R, F)
  BY FS_StrictSubsetOrderingWellFounded
<1>2. T \subseteq F
  <2>1. ASSUME NEW n \in S PROVE 0 .. n \subseteq Nat /\ IsFiniteSet(0 .. n)
    BY FS_Interval
  <2>2. QED
    BY <2>1 DEF FiniteSubsetsOf
<1>3. T # {}
  OBVIOUS
<1>4. PICK t \in T : \A u \in T : ~(<<u, t>> \in R)
  <2> HIDE DEF R, F, T
  <2>1. QED
    BY <1>1, <1>2, <1>3, WFMin
<1>5. PICK m \in S : t = 0 .. m
  OBVIOUS
<1>6. ASSUME NEW n \in S, n < m PROVE FALSE
  <2>1. 0 .. n \in SUBSET Nat /\ 0 .. m \in SUBSET Nat
    OBVIOUS
  <2>2. 0 .. n \subseteq 0 .. m /\ m \in 0 .. m /\ m \notin 0 .. n
    BY <1>6
  <2>3. <<0 .. n, 0 .. m>> \in R
    BY <2>1, <2>2 DEF StrictSubsetOrdering
  <2>4. QED
    BY <1>4, <1>5, <2>3
<1>7. QED
  BY <1>6

LEMMA Greatest ==
  ASSUME NEW S \in SUBSET Nat, S # {}, NEW top \in Nat, \A n \in S : n <= top
  PROVE  \E m \in S : \A n \in S : n <= m
<1> DEFINE T == {top - n : n \in S}
<1>1. ASSUME NEW n \in S PROVE top - n \in Nat /\ n \in Nat
  OBVIOUS
<1>2. T \in SUBSET Nat /\ T # {}
  BY <1>1
<1>3. PICK k \in T : \A j \in T : k <= j
  <2> HIDE DEF T
  <2>1. QED
    BY <1>2, Least
<1>4. PICK m \in S : k = top - m
  BY <1>3
<1>5. ASSUME NEW n \in S PROVE n <= m
  <2>1. k <= top - n
    BY <1>3
  <2>2. QED
    BY <1>1, <1>4, <2>1
<1>6. QED
  BY <1>5

LEMMA SmallRemainder ==
  ASSUME NEW a \in Nat, a < Wrap
  PROVE  a % Wrap = a
  BY HeapAssumption

LEMMA WordsType ==
  ASSUME NEW bytes \in Nat
  PROVE  Words(bytes) \in Nat /\ bytes <= 4 * Words(bytes) /\ (bytes # 0 => Words(bytes) > 0)
  BY DEF Words
-----------------------------------------------------------------------------
(* Lemmas on chunks that tile the heap.                                    *)

LEMMA RunEndExists ==
  ASSUME NEW c, heapWords \in Nat, Tiled(c), NEW h \in DOMAIN c
  PROVE  /\ RunEnd(c, h) \in DOMAIN c \cup {heapWords}
         /\ RunEnds(c, h, RunEnd(c, h))
         /\ Reached(c) = DOMAIN c
<1>1. Reached(c) = DOMAIN c
  BY DEF Reached, Tiled
<1> DEFINE Ends == {e \in DOMAIN c \cup {heapWords} :
                      h < e /\ (e = heapWords \/ ~c[e].free)}
<1>2. Ends \in SUBSET Nat /\ heapWords \in Ends
  BY DEF Tiled
<1>3. PICK e \in Ends : \A g \in Ends : e <= g
  <2> HIDE DEF Ends
  <2>1. QED
    BY <1>2, Least
<1>4. RunEnds(c, h, e)
  <2>1. h < e /\ (e = heapWords \/ (e \in DOMAIN c /\ ~c[e].free))
    BY <1>3
  <2>2. ASSUME NEW g \in DOMAIN c, h < g, g < e PROVE c[g].free
    <3>1. g \in Nat /\ e \in Nat
      BY <1>2 DEF Tiled
    <3>2. QED
      BY <1>3, <2>2, <3>1
  <2>3. QED
    BY <1>1, <2>1, <2>2 DEF RunEnds
<1>5. \E x \in Reached(c) \cup {heapWords} : RunEnds(c, h, x)
  BY <1>1, <1>4
<1>6. QED
  BY <1>1, <1>5 DEF RunEnd

LEMMA Previous ==
  ASSUME NEW c, heapWords \in Nat, Tiled(c), NEW g \in DOMAIN c, 0 < g
  PROVE  \E p \in DOMAIN c : p < g /\ p + c[p].size + 1 = g
<1> DEFINE Below == {p \in DOMAIN c : p < g}
<1>1. Below \in SUBSET Nat /\ Below # {} /\ g \in Nat /\ \A p \in Below : p <= g
  BY DEF Tiled
<1>2. PICK p \in Below : \A q \in Below : q <= p
  <2> HIDE DEF Below
  <2>1. QED
    BY <1>1, Greatest
<1>3. /\ p \in DOMAIN c /\ p < g /\ p \in Nat /\ c[p].size \in Nat
      /\ p + c[p].size + 1 <= g
      /\ p + c[p].size + 1 \in DOMAIN c \cup {heapWords}
      /\ g < heapWords
  BY <1>1 DEF Tiled, Header
<1> DEFINE q == p + c[p].size + 1
<1>4. ~(q < g)
  <2>1. ASSUME q < g PROVE q \in Below
    BY <1>1, <1>3, <2>1
  <2>2. p < q
    BY <1>3
  <2>3. q \in Nat
    BY <1>3
  <2>4. QED
    BY <1>2, <1>3, <2>1, <2>2, <2>3
<1>5. QED
  BY <1>1, <1>3, <1>4

(* Setting the lowest bit of a header changes nothing else of it.          *)
LEMMA SetBit ==
  ASSUME NEW B, NEW f \in B, NEW r \in [size : Nat, free : B]
  PROVE  LET a == [r EXCEPT !.free = f]
         IN  a \in [size : Nat, free : B] /\ a.size = r.size /\ a.free = f
  OBVIOUS

LEMMA SetFree ==
  ASSUME NEW r \in Header
  PROVE  /\ LET a == [r EXCEPT !.free = FALSE]
            IN  a \in Header /\ a.size = r.size /\ ~a.free
         /\ LET a == [r EXCEPT !.free = TRUE]
            IN  a \in Header /\ a.size = r.size /\ a.free
<1>1. FALSE \in BOOLEAN /\ TRUE \in BOOLEAN
  BY Zenon
<1>2. ASSUME NEW f \in BOOLEAN
      PROVE  LET a == [r EXCEPT !.free = f]
             IN  a \in Header /\ a.size = r.size /\ a.free = f
  BY SetBit DEF Header
<1>3. QED
  BY <1>1, <1>2, Zenon

(* What the first loop of malloc leaves: the chunks that are not free are  *)
(* untouched, and the free ones between them are one.                      *)
CollectedFrom(c, d) ==
  /\ Tiled(d) /\ NoTwoFree(d)
  /\ \A h \in DOMAIN d : ~d[h].free => h \in DOMAIN c /\ d[h] = c[h]
  /\ \A h \in DOMAIN c : ~c[h].free => h \in DOMAIN d /\ d[h] = c[h]

LEMMA CollectedTiled ==
  ASSUME NEW c, heapWords \in Nat, Tiled(c)
  PROVE  CollectedFrom(c, Collected(c))
<1> DEFINE Kept == {g \in Reached(c) : ~(Merges(c, g) /\ Follows(c, g))}
           d == Collected(c)
<1>1. /\ Reached(c) = DOMAIN c
      /\ \A h \in DOMAIN c : /\ RunEnd(c, h) \in DOMAIN c \cup {heapWords}
                             /\ RunEnds(c, h, RunEnd(c, h))
  <2>1. 0 \in DOMAIN c
    BY DEF Tiled
  <2>2. QED
    BY <2>1, RunEndExists
<1>2. ASSUME NEW h \in DOMAIN c
      PROVE  /\ h \in 0 .. heapWords - 1 /\ c[h] \in Header /\ c[h] # Zero
             /\ h + c[h].size + 1 \in DOMAIN c \cup {heapWords}
             /\ \A g \in DOMAIN c : h < g => h + c[h].size + 1 <= g
             /\ c[h].size \in Nat /\ c[h].free \in BOOLEAN
  BY DEF Tiled, Header
<1>3. ASSUME NEW h \in DOMAIN c PROVE Merges(c, h) = c[h].free
  BY <1>1, <1>2 DEF Merges
<1>4. DOMAIN d = Kept /\ Kept \subseteq DOMAIN c
  BY <1>1 DEF Collected
<1>5. ASSUME NEW h \in Kept, ~c[h].free PROVE d[h] = c[h]
  BY <1>2, <1>3, <1>4, <1>5 DEF Collected
<1>6. ASSUME NEW h \in Kept, c[h].free
      PROVE  /\ d[h].size = RunEnd(c, h) - h - 1 /\ d[h].free
             /\ d[h] \in Header /\ d[h] # Zero
             /\ RunEnd(c, h) \in Nat /\ h < RunEnd(c, h) /\ RunEnd(c, h) <= heapWords
  <2>1. d[h] = Free(RunEnd(c, h) - h - 1)
    BY <1>2, <1>3, <1>4, <1>6 DEF Collected
  <2>2. RunEnd(c, h) \in Nat /\ h < RunEnd(c, h) /\ RunEnd(c, h) <= heapWords
    BY <1>1, <1>2, <1>4 DEF RunEnds
  <2>3. RunEnd(c, h) - h - 1 \in Nat
    BY <1>2, <1>4, <2>2
  <2>4. QED
    BY <2>1, <2>2, <2>3 DEF Free, Header, Zero
<1>7. ASSUME NEW h \in DOMAIN c, ~c[h].free PROVE h \in Kept
  BY <1>1, <1>3, <1>7
<1> HIDE DEF Kept, d
<1>8. ASSUME NEW h \in Kept, NEW g \in DOMAIN c,
             ~c[h].free, g = h + c[h].size + 1
      PROVE  g \in Kept
  <2>1. ASSUME NEW p \in DOMAIN c, c[p].free, p + c[p].size + 1 = g PROVE FALSE
    <3>1. p # h /\ h \in DOMAIN c
      BY <1>4, <1>8, <2>1
    <3>2. CASE p < h
      BY <1>2, <1>4, <1>8, <2>1, <3>1, <3>2
    <3>3. CASE h < p
      BY <1>2, <1>4, <1>8, <2>1, <3>1, <3>3
    <3>4. p \in 0 .. heapWords - 1 /\ h \in 0 .. heapWords - 1
      BY <1>2, <3>1
    <3>5. QED
      BY <3>1, <3>2, <3>3, <3>4
  <2>2. ~Follows(c, g)
    BY <2>1 DEF Follows
  <2>3. QED
    BY <1>1, <2>2 DEF Kept
<1>9. ASSUME NEW h \in Kept
      PROVE  h + d[h].size + 1 \in Kept \cup {heapWords}
  <2>1. CASE ~c[h].free
    <3>1. d[h] = c[h] /\ h + c[h].size + 1 \in DOMAIN c \cup {heapWords}
      BY <1>2, <1>4, <1>5, <2>1
    <3>2. QED
      BY <1>8, <2>1, <3>1
  <2>2. CASE c[h].free
    <3>1. h + d[h].size + 1 = RunEnd(c, h)
      BY <1>2, <1>4, <1>6, <2>2
    <3>2. RunEnd(c, h) = heapWords \/ ~c[RunEnd(c, h)].free
      BY <1>1, <1>4 DEF RunEnds
    <3>3. QED
      BY <1>1, <1>4, <1>7, <3>1, <3>2
  <2>3. QED
    BY <2>1, <2>2
<1>10. ASSUME NEW h \in Kept, NEW g \in Kept, h < g
       PROVE  h + d[h].size + 1 <= g
  <2>1. CASE ~c[h].free
    BY <1>2, <1>4, <1>5, <1>10, <2>1
  <2>2. CASE c[h].free
    <3>1. h + d[h].size + 1 = RunEnd(c, h)
      BY <1>2, <1>4, <1>6, <2>2
    <3>2. ASSUME g < RunEnd(c, h) PROVE FALSE
      <4>1. c[g].free
        BY <1>1, <1>4, <1>10, <3>2 DEF RunEnds
      <4>2. PICK p \in DOMAIN c : p < g /\ p + c[p].size + 1 = g
        BY <1>2, <1>4, <1>10, Previous
      <4>3. h <= p
        <5>1. /\ h \in 0 .. heapWords - 1 /\ p \in 0 .. heapWords - 1 /\ h \in DOMAIN c
              /\ c[p].size \in Nat
          BY <1>2, <1>4
        <5>2. p < h => p + c[p].size + 1 <= h
          BY <1>2, <5>1
        <5>3. QED
          BY <1>10, <4>2, <5>1, <5>2
      <4>4. c[p].free
        <5>1. CASE p = h
          BY <2>2, <5>1
        <5>2. CASE p # h
          <6>1. h < p /\ p < RunEnd(c, h)
            BY <1>2, <1>4, <1>6, <2>2, <3>2, <4>2, <4>3, <5>2
          <6>2. QED
            BY <1>1, <1>4, <6>1 DEF RunEnds
        <5>3. QED
          BY <5>1, <5>2
      <4>5. Follows(c, g)
        BY <4>2, <4>4 DEF Follows
      <4>6. Merges(c, g)
        BY <1>3, <1>4, <4>1
      <4>7. QED
        BY <4>5, <4>6 DEF Kept
    <3>3. QED
      BY <1>2, <1>4, <1>6, <2>2, <3>1, <3>2
  <2>3. QED
    BY <2>1, <2>2
<1>11. 0 \in Kept
  <2>1. 0 \in DOMAIN c
    BY DEF Tiled
  <2>2. ~Follows(c, 0)
    BY <1>2 DEF Follows
  <2>3. QED
    BY <1>1, <2>1, <2>2 DEF Kept
<1>12. d \in [Kept -> Header]
  <2>1. ASSUME NEW h \in Kept PROVE d[h] \in Header
    BY <1>2, <1>4, <1>5, <1>6
  <2>2. d = [h \in Kept |-> d[h]]
    BY DEF d, Kept, Collected
  <2>3. QED
    BY <2>1, <2>2
<1>13. Tiled(d)
  <2>1. ASSUME NEW h \in Kept PROVE h \in 0 .. heapWords - 1 /\ d[h] # Zero
    BY <1>2, <1>4, <1>5, <1>6
  <2>2. QED
    BY <1>4, <1>9, <1>10, <1>11, <1>12, <2>1 DEF Tiled
<1>14. NoTwoFree(d)
  <2>1. ASSUME NEW h \in Kept, NEW g \in Kept, d[h].free, g = h + d[h].size + 1
        PROVE  ~d[g].free
    <3>1. c[h].free
      BY <1>5, <2>1
    <3>2. g = RunEnd(c, h)
      BY <1>2, <1>4, <1>6, <2>1, <3>1
    <3>3. g \in 0 .. heapWords - 1 /\ g # heapWords
      BY <1>2, <1>4
    <3>4. ~c[g].free
      BY <1>1, <1>4, <3>2, <3>3 DEF RunEnds
    <3>5. QED
      BY <1>5, <3>4
  <2>2. QED
    BY <1>4, <2>1 DEF NoTwoFree
<1>15. ASSUME NEW h \in Kept, ~d[h].free PROVE ~c[h].free
  BY <1>6, <1>15
<1>16. QED
  BY <1>4, <1>5, <1>7, <1>13, <1>14, <1>15 DEF CollectedFrom, d

(* The first malloc lays the heap out as one free chunk.                   *)
LEMMA CollectedFresh ==
  ASSUME heapWords \in Nat, heapWords > 0
  PROVE  LET d == Collected(FreshHeap)
         IN  Tiled(d) /\ NoTwoFree(d) /\ \A h \in DOMAIN d : d[h].free
<1> DEFINE c == FreshHeap
           d == Collected(c)
<1>1. DOMAIN c = {0} /\ c[0] = Zero
  BY DEF FreshHeap
<1>2. Reached(c) = {0} /\ ~Follows(c, 0)
  BY <1>1 DEF Reached, Follows, Zero
<1>3. d = [h \in {0} |-> Free(heapWords - h - 1)]
  BY <1>1, <1>2 DEF Collected
<1> HIDE DEF d
<1>4. DOMAIN d = {0} /\ d[0] = Free(heapWords - 1)
  BY <1>3
<1>5. /\ d[0] \in Header /\ d[0] # Zero /\ d[0].free /\ d[0].size \in Nat
      /\ 0 + d[0].size + 1 = heapWords
  <2>1. heapWords - 1 \in Nat /\ TRUE \in BOOLEAN
    OBVIOUS
  <2>2. QED
    BY <1>4, <2>1 DEF Free, Header, Zero
<1>6. d \in [DOMAIN d -> Header]
  BY <1>3, <1>4, <1>5
<1>7. Tiled(d)
  BY <1>4, <1>5, <1>6 DEF Tiled
<1>8. NoTwoFree(d)
  BY <1>4, <1>5 DEF NoTwoFree
<1>9. QED
  BY <1>4, <1>5, <1>7, <1>8 DEF d

LEMMA CollectedSound ==
  ASSUME NEW c, NEW blocks, heapWords \in Nat, heapWords > 0, Sound(c, blocks)
  PROVE  LET d == Collected(c)
         IN  Tiled(d) /\ NoTwoFree(d) /\ Holds(d, blocks)
<1> DEFINE d == Collected(c)
<1>1. CASE c = FreshHeap /\ blocks = {}
  <2>1. Tiled(d) /\ NoTwoFree(d) /\ \A h \in DOMAIN d : d[h].free
    BY <1>1, CollectedFresh
  <2> HIDE DEF d
  <2>2. Holds(d, blocks)
    BY <1>1, <2>1 DEF Holds
  <2>3. QED
    BY <2>1, <2>2 DEF d
<1>2. CASE Tiled(c) /\ Holds(c, blocks)
  <2>1. CollectedFrom(c, d)
    BY <1>2, CollectedTiled
  <2> HIDE DEF d
  <2>2. ASSUME NEW b \in blocks
        PROVE  b.at \in DOMAIN d /\ d[b.at] = c[b.at]
    BY <1>2, <2>1 DEF Holds, CollectedFrom
  <2>3. ASSUME NEW h \in DOMAIN d, ~d[h].free PROVE \E b \in blocks : b.at = h
    BY <1>2, <2>1, <2>3 DEF Holds, CollectedFrom
  <2>4. Holds(d, blocks)
    BY <1>2, <2>2, <2>3 DEF Holds
  <2>5. QED
    BY <2>1, <2>4 DEF CollectedFrom, d
<1>3. QED
  BY <1>1, <1>2 DEF Sound

(* A chunk is taken.                                                       *)
LEMMA TakenTiled ==
  ASSUME NEW c, heapWords \in Nat, Tiled(c), NEW h \in DOMAIN c,
         NEW size \in Nat, size > 0, Fits(c, h, size)
  PROVE  LET t == Taken(c, h, size)
         IN  /\ Tiled(t)
             /\ h \in DOMAIN t /\ ~t[h].free /\ t[h].size = size
             /\ \A g \in DOMAIN c : g # h => g \in DOMAIN t /\ t[g] = c[g]
             /\ \A g \in DOMAIN t : ~t[g].free => g = h \/ (g \in DOMAIN c /\ t[g] = c[g])
<1> DEFINE t == Taken(c, h, size)
           n == h + size + 1
<1>1. ASSUME NEW x \in DOMAIN c
      PROVE  /\ x \in 0 .. heapWords - 1 /\ c[x] \in Header /\ c[x] # Zero
             /\ x + c[x].size + 1 \in DOMAIN c \cup {heapWords}
             /\ \A g \in DOMAIN c : x < g => x + c[x].size + 1 <= g
             /\ c[x].size \in Nat /\ c[x].free \in BOOLEAN
  BY DEF Tiled, Header
<1>2. 0 \in DOMAIN c /\ c \in [DOMAIN c -> Header] /\ c[h].free /\ size <= c[h].size
  BY DEF Tiled, Fits
<1>3. CASE c[h].size = size
  <2>1. t = [c EXCEPT ![h].free = FALSE]
    BY <1>3 DEF Taken
  <2> DEFINE a == [c[h] EXCEPT !.free = FALSE]
  <2>2. a \in Header /\ a.size = size /\ ~a.free
    BY <1>1, <1>3, SetFree
  <2>3. t = [c EXCEPT ![h] = a]
    BY <2>1
  <2> HIDE DEF a, t
  <2>4. DOMAIN t = DOMAIN c /\ t[h] = a /\ \A g \in DOMAIN c : g # h => t[g] = c[g]
    BY <2>3, <1>2
  <2>5. \A g \in DOMAIN c : t[g] \in Header /\ t[g] # Zero /\ t[g].size = c[g].size
    <3>1. a # Zero
      BY <2>2 DEF Zero
    <3>2. QED
      BY <1>1, <1>3, <2>2, <2>4, <3>1
  <2>6. t \in [DOMAIN t -> Header]
    BY <2>3, <2>4, <2>5, <1>2
  <2>7. Tiled(t)
    BY <1>1, <1>2, <2>4, <2>5, <2>6 DEF Tiled
  <2>8. QED
    BY <2>2, <2>4, <2>7 DEF t
<1>4. CASE c[h].size # size
  <2>1. t = [g \in DOMAIN c \cup {n} |-> IF g = h THEN Allocated(size)
                                         ELSE IF g = n THEN Free(c[h].size - size - 1)
                                         ELSE c[g]]
    BY <1>4 DEF Taken
  <2>2. c[h].size - size - 1 \in Nat /\ n \in Nat /\ h < n /\ h \in Nat
    BY <1>1, <1>2, <1>4
  <2>3. n \notin DOMAIN c /\ n < heapWords
    <3>1. n < h + c[h].size + 1
      BY <1>1, <2>2
    <3>2. h + c[h].size + 1 <= heapWords
      <4>1. h + c[h].size + 1 \in DOMAIN c \cup {heapWords}
        BY <1>1
      <4>2. \A x \in DOMAIN c : x \in 0 .. heapWords - 1
        BY <1>1
      <4>3. \A x \in DOMAIN c \cup {heapWords} : x <= heapWords
        BY <4>2
      <4>4. QED
        BY <4>1, <4>3
    <3>3. ASSUME n \in DOMAIN c PROVE FALSE
      <4>1. h + c[h].size + 1 <= n
        BY <1>1, <2>2, <3>3
      <4>2. h + c[h].size + 1 \in Nat
        BY <1>1
      <4>3. QED
        BY <2>2, <3>1, <4>1, <4>2
    <3>4. QED
      BY <1>1, <2>2, <3>1, <3>2, <3>3
  <2> HIDE DEF t
  <2>4. /\ DOMAIN t = DOMAIN c \cup {n} /\ t[h] = Allocated(size)
        /\ t[n] = Free(c[h].size - size - 1)
        /\ \A g \in DOMAIN c : g # h => t[g] = c[g]
    BY <2>1, <2>2, <2>3
  <2>5. /\ t[h] \in Header /\ t[h] # Zero /\ ~t[h].free /\ t[h].size = size
        /\ t[n] \in Header /\ t[n] # Zero /\ t[n].free /\ t[n].size = c[h].size - size - 1
    <3>1. FALSE \in BOOLEAN /\ TRUE \in BOOLEAN
      BY Zenon
    <3>2. QED
      BY <2>2, <2>4, <3>1 DEF Allocated, Free, Header, Zero
  <2>6. \A g \in DOMAIN t : t[g] \in Header /\ t[g] # Zero
    BY <1>1, <2>4, <2>5
  <2>7. t \in [DOMAIN t -> Header]
    BY <2>1, <2>4, <2>6
  <2> HIDE DEF n
  <2>8. n = h + size + 1
    BY DEF n
  <2>9. ASSUME NEW g \in DOMAIN t
        PROVE  g \in 0 .. heapWords - 1 /\ g + t[g].size + 1 \in DOMAIN t \cup {heapWords}
    <3>1. CASE g = h
      BY <1>1, <2>4, <2>5, <2>8, <3>1
    <3>2. CASE g = n
      <4>1. n + t[n].size + 1 = h + c[h].size + 1
        BY <1>1, <2>2, <2>5, <2>8
      <4>2. QED
        BY <1>1, <2>2, <2>3, <2>4, <3>2, <4>1
    <3>3. CASE g \in DOMAIN c /\ g # h
      BY <1>1, <2>4, <3>3
    <3>4. QED
      BY <2>4, <3>1, <3>2, <3>3
  <2>10. ASSUME NEW x \in DOMAIN t, NEW g \in DOMAIN t, x < g
         PROVE  x + t[x].size + 1 <= g
    <3>1. CASE x = h /\ g = n
      BY <1>1, <2>2, <2>5, <2>8, <3>1
    <3>2. CASE x = h /\ g \in DOMAIN c
      <4>1. h + c[h].size + 1 <= g
        BY <1>1, <2>10, <3>2
      <4>2. QED
        BY <1>1, <1>2, <2>5, <3>2, <4>1
    <3>3. CASE x = n /\ g = n
      BY <2>2, <2>10, <3>3
    <3>4. CASE x = n /\ g \in DOMAIN c
      <4>1. n + t[n].size + 1 = h + c[h].size + 1
        BY <1>1, <2>2, <2>5, <2>8
      <4>2. h < g
        <5>1. g \in 0 .. heapWords - 1 /\ h < n /\ n < g /\ n \in Nat /\ h \in Nat
          BY <1>1, <2>2, <2>10, <3>4
        <5>2. QED
          BY <5>1
      <4>3. QED
        BY <1>1, <3>4, <4>1, <4>2
    <3>5. CASE x \in DOMAIN c /\ x # h /\ g = n
      <4>1. t[x] = c[x]
        BY <2>4, <3>5
      <4>2. CASE x < h
        <5>1. x + c[x].size + 1 <= h
          BY <1>1, <3>5, <4>2
        <5>2. QED
          BY <1>1, <2>2, <3>5, <4>1, <5>1
      <4>3. CASE h < x
        <5>1. h + c[h].size + 1 <= x
          BY <1>1, <3>5, <4>3
        <5>2. QED
          BY <1>1, <1>2, <2>2, <2>8, <2>10, <3>5, <5>1
      <4>4. x \in 0 .. heapWords - 1
        BY <1>1, <3>5
      <4>5. QED
        BY <2>2, <3>5, <4>2, <4>3, <4>4
    <3>6. CASE x \in DOMAIN c /\ x # h /\ g \in DOMAIN c
      BY <1>1, <2>4, <2>10, <3>6
    <3>7. QED
      BY <2>4, <3>1, <3>2, <3>3, <3>4, <3>5, <3>6
  <2>11. Tiled(t)
    BY <1>2, <2>4, <2>6, <2>7, <2>9, <2>10 DEF Tiled
  <2>12. QED
    BY <2>4, <2>5, <2>11 DEF t
<1>5. QED
  BY <1>3, <1>4

(* A chunk is freed.                                                       *)
LEMMA FreedTiled ==
  ASSUME NEW c, heapWords \in Nat, Tiled(c), NEW h \in DOMAIN c, ~c[h].free
  PROVE  LET t == Freed(c, h)
         IN  /\ Tiled(t) /\ DOMAIN t = DOMAIN c
             /\ t[h].free
             /\ \A g \in DOMAIN c : g # h => t[g] = c[g]
<1> DEFINE t == Freed(c, h)
<1>1. /\ c \in [DOMAIN c -> Header] /\ c[h] \in Header
      /\ \A g \in DOMAIN c : c[g] # Zero
  BY DEF Tiled
<1> DEFINE a == [c[h] EXCEPT !.free = TRUE]
<1>2. a \in Header /\ a.size = c[h].size /\ a.free
  BY <1>1, SetFree
<1>3. t = [c EXCEPT ![h] = a]
  BY DEF Freed
<1> HIDE DEF a
<1>4. a # Zero
  BY <1>2 DEF Zero
<1> HIDE DEF t
<1>5. DOMAIN t = DOMAIN c /\ t[h] = a /\ \A g \in DOMAIN c : g # h => t[g] = c[g]
  BY <1>1, <1>3
<1>6. \A g \in DOMAIN c : t[g] \in Header /\ t[g] # Zero /\ t[g].size = c[g].size
  BY <1>1, <1>2, <1>4, <1>5
<1>7. t \in [DOMAIN t -> Header]
  BY <1>1, <1>2, <1>3, <1>5
<1>8. Tiled(t)
  BY <1>5, <1>6, <1>7 DEF Tiled
<1>9. QED
  BY <1>2, <1>5, <1>8 DEF t

(* The program gives a block back.                                         *)
LEMMA FreedSound ==
  ASSUME NEW c, NEW blocks, heapWords \in Nat, Sound(c, blocks), NEW b \in blocks
  PROVE  Sound(Freed(c, b.at), blocks \ {b})
<1>1. heapWords > 0 /\ Tiled(c) /\ Holds(c, blocks)
  BY DEF Sound
<1>2. b.at \in DOMAIN c /\ ~c[b.at].free
  BY <1>1 DEF Holds
<1> DEFINE t == Freed(c, b.at)
<1>3. /\ Tiled(t) /\ DOMAIN t = DOMAIN c /\ t[b.at].free
      /\ \A g \in DOMAIN c : g # b.at => t[g] = c[g]
  BY <1>1, <1>2, FreedTiled
<1> HIDE DEF t
<1>4. Holds(t, blocks \ {b})
  <2>1. ASSUME NEW a \in blocks, a # b PROVE a.at # b.at
    BY <1>1, <2>1 DEF Holds
  <2>2. ASSUME NEW a \in blocks \ {b}
        PROVE  /\ a \in [at : Nat, bytes : Asked] /\ a.bytes # 0
               /\ a.at \in DOMAIN t /\ ~t[a.at].free /\ t[a.at].size = Words(a.bytes)
    <3>1. t[a.at] = c[a.at]
      BY <1>1, <1>3, <2>1 DEF Holds
    <3>2. QED
      BY <1>1, <1>3, <3>1 DEF Holds
  <2>3. ASSUME NEW h \in DOMAIN t, ~t[h].free PROVE \E a \in blocks \ {b} : a.at = h
    <3>1. h # b.at /\ ~c[h].free
      BY <1>3, <2>3
    <3>2. QED
      BY <1>1, <1>3, <2>3, <3>1 DEF Holds
  <2>4. QED
    BY <1>1, <2>2, <2>3 DEF Holds
<1>5. QED
  BY <1>1, <1>3, <1>4 DEF Sound, t

(* The program is given a block.                                           *)
LEMMA TakenSound ==
  ASSUME NEW c, NEW blocks, heapWords \in Nat, heapWords > 0, Tiled(c), Holds(c, blocks),
         NEW h \in DOMAIN c, NEW bytes \in Asked, bytes # 0, Words(bytes) \in Nat,
         Words(bytes) > 0, Fits(c, h, Words(bytes))
  PROVE  Sound(Taken(c, h, Words(bytes)), blocks \cup {[at |-> h, bytes |-> bytes]})
<1> DEFINE t == Taken(c, h, Words(bytes))
           n == [at |-> h, bytes |-> bytes]
<1>1. /\ Tiled(t)
      /\ h \in DOMAIN t /\ ~t[h].free /\ t[h].size = Words(bytes)
      /\ \A g \in DOMAIN c : g # h => g \in DOMAIN t /\ t[g] = c[g]
      /\ \A g \in DOMAIN t : ~t[g].free => g = h \/ (g \in DOMAIN c /\ t[g] = c[g])
  BY TakenTiled
<1>2. ASSUME NEW b \in blocks PROVE b.at # h
  BY DEF Holds, Fits
<1>3. n \in [at : Nat, bytes : Asked] /\ n.at = h /\ n.bytes = bytes
  <2>1. h \in Nat
    BY DEF Tiled
  <2>2. QED
    BY <2>1
<1> HIDE DEF t, n
<1>4. Holds(t, blocks \cup {n})
  <2>1. ASSUME NEW b \in blocks \cup {n}
        PROVE  /\ b \in [at : Nat, bytes : Asked] /\ b.bytes # 0
               /\ b.at \in DOMAIN t /\ ~t[b.at].free /\ t[b.at].size = Words(b.bytes)
    <3>1. CASE b = n
      BY <1>1, <1>3, <3>1
    <3>2. CASE b \in blocks
      BY <1>1, <1>2, <3>2 DEF Holds
    <3>3. QED
      BY <3>1, <3>2
  <2>2. \A a, b \in blocks \cup {n} : a.at = b.at => a = b
    BY <1>2, <1>3 DEF Holds
  <2>3. ASSUME NEW g \in DOMAIN t, ~t[g].free
        PROVE  \E b \in blocks \cup {n} : b.at = g
    BY <1>1, <1>3, <2>3 DEF Holds
  <2>4. QED
    BY <2>1, <2>2, <2>3 DEF Holds
<1>5. QED
  BY <1>1, <1>4 DEF Sound, t, n
-----------------------------------------------------------------------------
(* Lemmas on first fit.                                                    *)

Seen(blocks) == {[at |-> b.at, words |-> Words(b.bytes)] : b \in blocks}

LEMMA SeenBlocks ==
  ASSUME NEW c, NEW blocks, heapWords \in Nat, Tiled(c), Holds(c, blocks)
  PROVE  /\ \A s \in Seen(blocks) :
              /\ s.at \in DOMAIN c /\ s.at \in 0 .. heapWords - 1
              /\ ~c[s.at].free /\ c[s.at].size = s.words /\ s.words \in Nat
         /\ \A h \in DOMAIN c : ~c[h].free =>
              \E s \in Seen(blocks) : s.at = h /\ s.words = c[h].size
<1>1. ASSUME NEW s \in Seen(blocks)
      PROVE  /\ s.at \in DOMAIN c /\ s.at \in 0 .. heapWords - 1
             /\ ~c[s.at].free /\ c[s.at].size = s.words /\ s.words \in Nat
  <2>1. PICK b \in blocks : s = [at |-> b.at, words |-> Words(b.bytes)]
    BY DEF Seen
  <2>2. s.at = b.at /\ s.words = Words(b.bytes)
    BY <2>1
  <2>3. b.at \in DOMAIN c /\ ~c[b.at].free /\ c[b.at].size = Words(b.bytes)
    BY DEF Holds
  <2>4. c[b.at].size \in Nat /\ b.at \in 0 .. heapWords - 1
    BY <2>3 DEF Tiled, Header
  <2>5. QED
    BY <2>2, <2>3, <2>4
<1>2. ASSUME NEW h \in DOMAIN c, ~c[h].free
      PROVE  \E s \in Seen(blocks) : s.at = h /\ s.words = c[h].size
  <2>1. PICK b \in blocks : b.at = h
    BY <1>2 DEF Holds
  <2>2. c[h].size = Words(b.bytes)
    BY <2>1 DEF Holds
  <2>3. [at |-> b.at, words |-> Words(b.bytes)] \in Seen(blocks)
    BY DEF Seen
  <2>4. QED
    BY <2>1, <2>2, <2>3
<1>3. QED
  BY <1>1, <1>2

(* Where the program's blocks leave room, there is a free chunk.           *)
LEMMA Room ==
  ASSUME NEW c, NEW blocks, heapWords \in Nat, Tiled(c), NoTwoFree(c), Holds(c, blocks),
         NEW q \in 0 .. heapWords - 1, NEW n \in Nat, n > 0,
         Alloc!Place(Seen(blocks), q, n)
  PROVE  \E g \in DOMAIN c : g <= q /\ Fits(c, g, n)
<1> DEFINE Below == {g \in DOMAIN c : g <= q}
<1>1. ASSUME NEW x \in DOMAIN c
      PROVE  /\ x \in 0 .. heapWords - 1 /\ c[x].size \in Nat
             /\ x + c[x].size + 1 \in DOMAIN c \cup {heapWords}
  BY DEF Tiled, Header
<1>2. Below \in SUBSET Nat /\ Below # {} /\ q \in Nat /\ \A g \in Below : g <= q
  BY <1>1 DEF Tiled
<1>3. PICK g \in Below : \A x \in Below : x <= g
  <2> HIDE DEF Below
  <2>1. QED
    BY <1>2, Greatest
<1> DEFINE e == g + c[g].size + 1
<1>4. /\ g \in DOMAIN c /\ g <= q /\ g \in Nat /\ c[g].size \in Nat
      /\ e \in DOMAIN c \cup {heapWords} /\ e \in Nat /\ g < e
  BY <1>1, <1>3
<1>5. q < e
  <2>1. CASE e = heapWords
    BY <2>1
  <2>2. CASE e \in DOMAIN c
    <3>1. e <= q => e \in Below
      BY <2>2
    <3>2. QED
      BY <1>3, <1>4, <3>1
  <2>3. QED
    BY <1>4, <2>1, <2>2
<1>6. ASSUME NEW s \in Seen(blocks)
      PROVE  ~(q <= s.at + s.words /\ s.at <= q + n)
  BY <1>6 DEF Alloc!Place, Alloc!Overlap
<1>7. c[g].free
  <2>1. ASSUME ~c[g].free PROVE FALSE
    <3>1. PICK s \in Seen(blocks) : s.at = g /\ s.words = c[g].size
      BY <1>4, <2>1, SeenBlocks
    <3>2. q <= g + c[g].size /\ g <= q + n
      BY <1>4, <1>5
    <3>3. QED
      BY <1>6, <3>1, <3>2
  <2>2. QED
    BY <2>1
<1>8. q + n < e
  <2>1. ASSUME e <= q + n PROVE FALSE
    <3>1. q + n < heapWords
      BY DEF Alloc!Place
    <3>2. e \in DOMAIN c
      BY <1>4, <2>1, <3>1
    <3>3. ~c[e].free
      BY <1>4, <1>7, <3>2 DEF NoTwoFree
    <3>4. PICK s \in Seen(blocks) : s.at = e /\ s.words = c[e].size
      BY <3>2, <3>3, SeenBlocks
    <3>5. c[e].size \in Nat
      BY <1>1, <3>2
    <3>6. q <= e + c[e].size
      BY <1>4, <1>5, <3>5
    <3>7. QED
      BY <1>6, <2>1, <3>4, <3>6
  <2>2. QED
    BY <1>4, <2>1
<1>9. n <= c[g].size
  BY <1>4, <1>8
<1>10. QED
  BY <1>4, <1>7, <1>9 DEF Fits

(* A chunk that fits is a place.                                           *)
LEMMA FitIsPlace ==
  ASSUME NEW c, NEW blocks, heapWords \in Nat, Tiled(c), Holds(c, blocks),
         NEW h \in DOMAIN c, NEW n \in Nat, Fits(c, h, n)
  PROVE  Alloc!Place(Seen(blocks), h, n)
<1>1. ASSUME NEW x \in DOMAIN c
      PROVE  /\ x \in 0 .. heapWords - 1 /\ c[x].size \in Nat
             /\ x + c[x].size + 1 \in DOMAIN c \cup {heapWords}
             /\ \A g \in DOMAIN c : x < g => x + c[x].size + 1 <= g
  BY DEF Tiled, Header
<1>2. c[h].free /\ n <= c[h].size
  BY DEF Fits
<1>3. h + n < heapWords
  <2>1. \A x \in DOMAIN c \cup {heapWords} : x <= heapWords
    BY <1>1
  <2>2. h + c[h].size + 1 <= heapWords /\ h \in Nat /\ c[h].size \in Nat
    BY <1>1, <2>1
  <2>3. QED
    BY <1>2, <2>2
<1>4. ASSUME NEW s \in Seen(blocks) PROVE ~Alloc!Overlap(h, n, s.at, s.words)
  <2>1. /\ s.at \in DOMAIN c /\ ~c[s.at].free
        /\ c[s.at].size = s.words /\ s.words \in Nat
    BY SeenBlocks
  <2>2. s.at # h /\ s.at \in Nat /\ h \in Nat /\ c[h].size \in Nat
    BY <1>1, <1>2, <2>1
  <2>3. CASE s.at < h
    <3>1. s.at + s.words + 1 <= h
      BY <1>1, <2>1, <2>3
    <3>2. QED
      BY <2>1, <2>2, <3>1 DEF Alloc!Overlap
  <2>4. CASE h < s.at
    <3>1. h + c[h].size + 1 <= s.at
      BY <1>1, <2>1, <2>4
    <3>2. QED
      BY <1>2, <2>1, <2>2, <3>1 DEF Alloc!Overlap
  <2>5. QED
    BY <2>2, <2>3, <2>4
<1>5. QED
  BY <1>3, <1>4 DEF Alloc!Place

LEMMA AskedNumbers ==
  ASSUME NEW bytes \in Asked
  PROVE  /\ bytes \in Nat /\ bytes < Wrap
         /\ Rounded(bytes) = Words(bytes)
<1>1. bytes \in Nat /\ bytes + 3 < Wrap
  <2>1. CASE bytes \in Requests
    BY <2>1, HeapAssumption, SizesDoNotWrap
  <2>2. CASE bytes \in {p[1] * p[2] : p \in Counts \X Requests}
    <3>1. PICK p \in Counts \X Requests : bytes = p[1] * p[2]
      BY <2>2
    <3>2. p[1] \in Counts /\ p[2] \in Requests /\ p[1] \in Nat /\ p[2] \in Nat
      BY <3>1, HeapAssumption
    <3>3. p[1] * p[2] \in Nat
      BY <3>2
    <3>4. QED
      BY <3>1, <3>2, <3>3, SizesDoNotWrap
  <2>3. CASE bytes = 0
    BY <2>3, HeapAssumption
  <2>4. QED
    BY <2>1, <2>2, <2>3 DEF Asked
<1>2. (bytes + 3) % Wrap = bytes + 3
  BY <1>1, SmallRemainder
<1>3. Wrap \in Nat
  BY HeapAssumption
<1>4. QED
  BY <1>1, <1>2, <1>3 DEF Rounded, Words
-----------------------------------------------------------------------------
(* What malloc does with the chunks and, seen from outside, with blocks.   *)
LEMMA MallocStep ==
  ASSUME NEW c, NEW blocks, heapWords \in Nat, Sound(c, blocks),
         NEW bytes \in Asked, malloc(c, bytes, bytes, blocks)
  PROVE  /\ Sound(chunks', held')
         /\ v0' \in Nat \cup {Null}
         /\ Alloc!Allocate(Seen(blocks), Words(bytes))
<1> DEFINE d == Collected(c)
           n == Words(bytes)
<1>1. bytes \in Nat /\ Rounded(bytes) = n /\ n \in Nat /\ (bytes # 0 <=> n > 0)
  <2>1. bytes \in Nat /\ Rounded(bytes) = n
    BY AskedNumbers
  <2>2. QED
    BY <2>1, WordsType DEF Words
<1>2. held' = blocks => Seen(held') = Seen(blocks)
  OBVIOUS
<1>3. CASE /\ bytes = 0 \/ heapWords = 0
           /\ chunks' = c /\ held' = blocks /\ v0' = Null
  <2>1. n = 0 \/ 0 .. heapWords - 1 = {}
    BY <1>1, <1>3
  <2>2. Alloc!Allocate(Seen(blocks), n)
    BY <1>2, <1>3, <2>1 DEF Alloc!Allocate, Seen
  <2>3. QED
    BY <1>3, <2>2
<1>4. CASE bytes # 0 /\ heapWords # 0
  <2>1. Tiled(d) /\ NoTwoFree(d) /\ Holds(d, blocks) /\ heapWords > 0 /\ n > 0
    BY <1>1, <1>4, CollectedSound
  <2> HIDE DEF d, n
  <2>2. CASE /\ \A h \in DOMAIN d : ~Fits(d, h, n)
             /\ chunks' = d /\ held' = blocks /\ v0' = Null
    <3>1. Sound(chunks', held')
      BY <2>1, <2>2 DEF Sound
    <3>2. \A p \in 0 .. heapWords - 1 : ~Alloc!Place(Seen(blocks), p, n)
      BY <1>1, <2>1, <2>2, Room
    <3>3. Alloc!Allocate(Seen(blocks), n)
      BY <2>2, <3>2 DEF Alloc!Allocate, Seen
    <3>4. QED
      BY <2>2, <3>1, <3>3 DEF n
  <2>3. ASSUME NEW h \in DOMAIN d, FirstFit(d, h, n),
               chunks' = Taken(d, h, n),
               held' = blocks \cup {[at |-> h, bytes |-> bytes]}, v0' = h
        PROVE  /\ Sound(chunks', held')
               /\ v0' \in Nat \cup {Null}
               /\ Alloc!Allocate(Seen(blocks), n)
    <3>1. /\ Fits(d, h, n) /\ h \in 0 .. heapWords - 1
          /\ \A g \in DOMAIN d : g \in Nat /\ (Fits(d, g, n) => h <= g)
      BY <2>1, <2>3 DEF FirstFit, Tiled
    <3>2. Sound(chunks', held')
      BY <1>1, <1>4, <2>1, <2>3, <3>1, TakenSound DEF n
    <3>3. Alloc!Place(Seen(blocks), h, n)
      BY <1>1, <2>1, <3>1, FitIsPlace
    <3>4. ASSUME NEW q \in 0 .. h - 1, Alloc!Place(Seen(blocks), q, n) PROVE FALSE
      <4>1. q \in 0 .. heapWords - 1
        BY <3>1
      <4>2. PICK g \in DOMAIN d : g <= q /\ Fits(d, g, n)
        BY <1>1, <2>1, <3>4, <4>1, Room
      <4>3. QED
        BY <3>1, <4>2
    <3>5. Seen(held') = Seen(blocks) \cup {[at |-> h, words |-> n]}
      <4>1. ASSUME NEW b \in held'
            PROVE  \/ b \in blocks
                   \/ b.at = h /\ b.bytes = bytes
        BY <2>3
      <4>2. [at |-> h, bytes |-> bytes] \in held' /\ blocks \subseteq held'
        BY <2>3
      <4>3. Seen(held') \subseteq Seen(blocks) \cup {[at |-> h, words |-> n]}
        BY <4>1 DEF Seen, n
      <4>4. [at |-> h, words |-> n] \in Seen(held')
        <5>1. PICK b \in held' : b = [at |-> h, bytes |-> bytes]
          BY <4>2
        <5>2. b.at = h /\ b.bytes = bytes
          BY <5>1
        <5>3. QED
          BY <5>2 DEF Seen, n
      <4>5. Seen(blocks) \subseteq Seen(held')
        BY <4>2 DEF Seen
      <4>6. QED
        BY <4>3, <4>4, <4>5
    <3>6. Alloc!Allocate(Seen(blocks), n)
      BY <2>3, <3>1, <3>3, <3>4, <3>5 DEF Alloc!Allocate, Seen
    <3>7. QED
      BY <2>3, <3>1, <3>2, <3>6
  <2>4. Rounded(bytes) = n
    BY <1>1 DEF n
  <2>5. QED
    BY <1>4, <2>2, <2>3, <2>4 DEF malloc, d, n
<1>5. QED
  BY <1>3, <1>4 DEF malloc
-----------------------------------------------------------------------------
LEMMA NewHeap ==
  ASSUME IInv, NEW n \in HeapSizes, InitHeap(n)
  PROVE  IInv' /\ Alloc!NewHeap
<1> DEFINE size == IF (Base + n) % Wrap >= Top THEN Top - 4 - Base ELSE n
<1>1. n \in Nat /\ Base + n < Wrap /\ Base \in Nat /\ Top \in Nat /\ Base + 4 <= Top
  BY HeapAssumption, SizesDoNotWrap
<1>2. (Base + n) % Wrap = Base + n
  BY <1>1, SmallRemainder
<1>3. size \in Nat /\ Base + size <= Top
  BY <1>1, <1>2
<1> HIDE DEF size
<1>4. heapWords' = size \div 4
  BY DEF InitHeap, size
<1>5. heapWords' \in Nat /\ 4 * heapWords' <= size
  BY <1>3, <1>4
<1>6. Base + 4 * heapWords' <= Top /\ heapWords' \in 0 .. Top \div 4
  <2>1. PICK k \in Nat : k = heapWords'
    BY <1>5
  <2>2. 4 * k <= size
    BY <1>5, <2>1
  <2>3. Base + 4 * k <= Top
    BY <1>1, <1>3, <2>2
  <2>4. 4 * k <= Top
    BY <1>1, <2>3
  <2>5. k <= Top \div 4
    BY <1>1, <2>4
  <2>6. Top \div 4 \in Nat
    BY <1>1
  <2>7. k \in 0 .. Top \div 4
    BY <2>5, <2>6
  <2>8. QED
    BY <2>1, <2>3, <2>7
<1>7. chunks' = FreshHeap /\ held' = {} /\ v0' = v0 /\ lowCleared' = lowCleared
  BY DEF InitHeap, FreshHeap
<1>8. Sound(chunks, held)'
  BY <1>7 DEF Sound, FreshHeap
<1>9. IInv'
  BY <1>5, <1>6, <1>7, <1>8 DEF IInv
<1>10. Alloc!NewHeap
  BY <1>6, <1>7 DEF Alloc!NewHeap
<1>11. QED
  BY <1>9, <1>10

LEMMA SoundNext ==
  ASSUME Sound(chunks', held'), heapWords' = heapWords
  PROVE  Sound(chunks, held)'
  BY DEF Sound, Tiled, Holds, FreshHeap

LEMMA SeenWithout ==
  ASSUME NEW c, NEW blocks, Sound(c, blocks), NEW b \in blocks
  PROVE  \E s \in Seen(blocks) : Seen(blocks \ {b}) = Seen(blocks) \ {s}
<1> DEFINE f(a) == [at |-> a.at, words |-> Words(a.bytes)]
<1>1. \A a \in blocks : a # b => a.at # b.at
  BY DEF Sound, Holds
<1>2. ASSUME NEW a \in blocks, a # b PROVE f(a) # f(b)
  <2>1. f(a).at = a.at /\ f(b).at = b.at
    OBVIOUS
  <2>2. QED
    BY <1>1, <1>2, <2>1
<1> HIDE DEF f
<1>3. Seen(blocks) = {f(a) : a \in blocks} /\ Seen(blocks \ {b}) = {f(a) : a \in blocks \ {b}}
  BY DEF Seen, f
<1>4. f(b) \in Seen(blocks) /\ Seen(blocks \ {b}) = Seen(blocks) \ {f(b)}
  BY <1>2, <1>3
<1>5. QED
  BY <1>4

LEMMA New ==
  ASSUME IInv, NEW bytes \in Asked, malloc(chunks, bytes, bytes, held),
         UNCHANGED heapWords, lowCleared' \in BOOLEAN
  PROVE  IInv' /\ Alloc!Next
<1>1. /\ Sound(chunks', held') /\ v0' \in Nat \cup {Null}
      /\ Alloc!Allocate(Seen(held), Words(bytes))
  BY MallocStep DEF IInv
<1>2. IInv'
  BY <1>1, SoundNext DEF IInv
<1>3. Alloc!New(Words(bytes))
  BY <1>1 DEF Alloc!New, Seen
<1>4. QED
  BY <1>2, <1>3 DEF Alloc!Next

LEMMA Renewed ==
  ASSUME IInv, NEW bytes \in Asked, NEW b \in held,
         malloc(Freed(chunks, b.at), bytes, bytes, held \ {b}),
         UNCHANGED <<heapWords, lowCleared>>
  PROVE  IInv' /\ Alloc!Next
<1>1. heapWords \in Nat /\ Sound(Freed(chunks, b.at), held \ {b})
  BY FreedSound DEF IInv
<1>2. /\ Sound(chunks', held') /\ v0' \in Nat \cup {Null}
      /\ Alloc!Allocate(Seen(held \ {b}), Words(bytes))
  <2> DEFINE c == Freed(chunks, b.at)
             blocks == held \ {b}
  <2>1. Sound(c, blocks) /\ malloc(c, bytes, bytes, blocks)
    BY <1>1
  <2> HIDE DEF c, blocks
  <2>2. /\ Sound(chunks', held') /\ v0' \in Nat \cup {Null}
        /\ Alloc!Allocate(Seen(blocks), Words(bytes))
    BY <1>1, <2>1, MallocStep
  <2>3. QED
    BY <2>2 DEF blocks
<1>3. IInv'
  BY <1>2, SoundNext DEF IInv
<1>4. PICK s \in Seen(held) : Seen(held \ {b}) = Seen(held) \ {s}
  BY SeenWithout DEF IInv
<1>5. Alloc!Allocate(Seen(held) \ {s}, Words(bytes))
  BY <1>2, <1>4
<1>6. Alloc!Renew(s, Words(bytes))
  BY <1>5 DEF Alloc!Renew, Seen
<1>7. QED
  BY <1>3, <1>4, <1>6 DEF Alloc!Next, Seen

LEMMA GivenBack ==
  ASSUME IInv, NEW b \in held, FreeBlock(b)
  PROVE  IInv' /\ Alloc!Next
<1>1. Sound(chunks', held')
  BY FreedSound DEF IInv, FreeBlock
<1>2. IInv'
  BY <1>1, SoundNext DEF IInv, FreeBlock
<1>3. PICK s \in Seen(held) : Seen(held \ {b}) = Seen(held) \ {s}
  BY SeenWithout DEF IInv
<1>4. Alloc!Free(s)
  BY <1>3 DEF Alloc!Free, FreeBlock, Seen
<1>5. QED
  BY <1>2, <1>3, <1>4 DEF Alloc!Next, Seen

LEMMA InvInit ==
  ASSUME Init
  PROVE  IInv /\ Alloc!Init
<1>1. Base + 4 * 0 <= Top /\ FALSE \in BOOLEAN
  <2>1. Base + 4 * 0 <= Top
    BY HeapAssumption
  <2>2. QED
    BY <2>1, Zenon
<1>2. IInv
  BY <1>1 DEF Init, IInv, Sound, FreshHeap
<1>3. Alloc!Init
  BY DEF Init, Alloc!Init
<1>4. QED
  BY <1>2, <1>3

(* Every call keeps the invariant and is a step of the allocator.          *)
LEMMA InvNext ==
  ASSUME IInv, [Next]_vars
  PROVE  IInv' /\ (Alloc!Next \/ UNCHANGED Alloc!vars)
<1>1. ASSUME NEW n \in HeapSizes, InitHeap(n)
      PROVE  IInv' /\ Alloc!Next
  BY <1>1, NewHeap DEF Alloc!Next
<1>2. ASSUME NEW bytes \in Requests, Malloc(bytes)
      PROVE  IInv' /\ Alloc!Next
  <2>1. bytes \in Asked /\ lowCleared' \in BOOLEAN
    BY <1>2 DEF Asked, Malloc, IInv
  <2>2. QED
    BY <1>2, <2>1, New DEF Malloc
<1>3. ASSUME NEW bytes \in Requests, NEW count \in Counts, Calloc(count, bytes)
      PROVE  IInv' /\ Alloc!Next
  <2>1. <<count, bytes>> \in Counts \X Requests
    OBVIOUS
  <2>2. count * bytes \in {p[1] * p[2] : p \in Counts \X Requests}
    BY <2>1
  <2>3. count * bytes \in Asked
    BY <2>2 DEF Asked
  <2>4. (count * bytes) % Wrap = count * bytes
    BY <2>3, AskedNumbers, SmallRemainder
  <2>5. lowCleared' \in BOOLEAN
    BY <1>3 DEF Calloc
  <2>6. QED
    BY <1>3, <2>3, <2>4, <2>5, New DEF Calloc
<1>4. ASSUME NEW bytes \in Requests, NEW b \in held, Realloc(b, bytes)
      PROVE  IInv' /\ Alloc!Next
  BY <1>4, Renewed DEF Realloc, Asked
<1>5. ASSUME NEW b \in held, FreeBlock(b)
      PROVE  IInv' /\ Alloc!Next
  BY <1>5, GivenBack
<1>6. ASSUME NEW bytes \in Requests, ReallocNone(bytes)
      PROVE  IInv' /\ Alloc!Next
  <2>1. 0 \in Asked /\ lowCleared' \in BOOLEAN
    BY <1>6 DEF Asked, ReallocNone, IInv
  <2>2. QED
    BY <1>6, <2>1, New DEF ReallocNone
<1>7. CASE UNCHANGED vars
  <2>1. IInv'
    BY <1>7 DEF IInv, Sound, Tiled, Holds, FreshHeap, vars
  <2>2. UNCHANGED Alloc!vars
    BY <1>7 DEF Alloc!vars, vars
  <2>3. QED
    BY <2>1, <2>2
<1>8. QED
  BY <1>1, <1>2, <1>3, <1>4, <1>5, <1>6, <1>7 DEF Next

THEOREM Invariant == Spec => []IInv
<1>1. Init => IInv
  BY InvInit
<1>2. IInv /\ [Next]_vars => IInv'
  BY InvNext
<1>3. QED
  BY <1>1, <1>2, PTL DEF Spec

(* Types, for heaps of any size.                                           *)
THEOREM TypeCorrect == Spec => []TypeOK
<1>1. ASSUME IInv PROVE TypeOK
  <2>1. \A h \in DOMAIN chunks : h \in Nat /\ chunks[h] \in Header
    <3>1. CASE chunks = FreshHeap
      <4>1. FALSE \in BOOLEAN
        BY Zenon
      <4>2. QED
        BY <3>1, <4>1 DEF FreshHeap, Zero, Header
    <3>2. CASE Tiled(chunks)
      BY <3>2 DEF Tiled
    <3>3. QED
      BY <1>1, <3>1, <3>2 DEF IInv, Sound
  <2>2. \A b \in held : b \in [at : Nat, bytes : Nat]
    <3>1. Asked \subseteq Nat
      BY AskedNumbers
    <3>2. QED
      BY <1>1, <3>1 DEF IInv, Sound, Holds
  <2>3. QED
    BY <1>1, <2>1, <2>2 DEF IInv, TypeOK
<1>2. QED
  BY <1>1, Invariant, PTL

(* Blocks are as large as was asked for, if no request is so large that    *)
(* its size wraps around.                                                  *)
THEOREM BlocksBigEnough == Spec => []BigEnough
<1>1. ASSUME IInv, NEW b \in held
      PROVE  b.at \in DOMAIN chunks /\ b.bytes <= 4 * chunks[b.at].size
  <2>1. /\ b.bytes \in Asked
        /\ b.at \in DOMAIN chunks /\ chunks[b.at].size = Words(b.bytes)
    BY <1>1 DEF IInv, Sound, Holds
  <2>2. QED
    BY <2>1, AskedNumbers, WordsType
<1>2. IInv => BigEnough
  BY <1>1 DEF BigEnough
<1>3. QED
  BY <1>2, Invariant, PTL

(* The heap ends in the RAM, if no address wraps around.                   *)
THEOREM HeapStaysInRam == Spec => []HeapInRam
<1>1. IInv => HeapInRam
  BY DEF IInv, HeapInRam
<1>2. QED
  BY <1>1, Invariant, PTL

(* No block reaches behind the end of the heap: its chunk ends where the   *)
(* next one begins, or the heap ends.                                      *)
THEOREM BlocksStayWithin == Spec => []BlocksWithin
<1>1. ASSUME IInv, NEW b \in held
      PROVE  b.at + chunks[b.at].size < heapWords
  <2>1. heapWords \in Nat /\ Tiled(chunks) /\ b.at \in DOMAIN chunks
    BY <1>1 DEF IInv, Sound, Holds
  <2>2. /\ b.at \in 0 .. heapWords - 1 /\ chunks[b.at] \in Header
        /\ b.at + chunks[b.at].size + 1 \in DOMAIN chunks \cup {heapWords}
        /\ \A h \in DOMAIN chunks : h \in 0 .. heapWords - 1
    BY <2>1 DEF Tiled
  <2>3. QED
    BY <2>1, <2>2 DEF Header
<1>2. IInv => BlocksWithin
  BY <1>1 DEF BlocksWithin
<1>3. QED
  BY <1>2, Invariant, PTL

(* Blocks lie in the heap up to their last byte and the heap in the RAM,   *)
(* and they are as large as was asked for.                                 *)
THEOREM BlocksStayInHeap == Spec => []BlocksInHeap
BY TypeCorrect, BlocksBigEnough, BlocksStayWithin, HeapStaysInRam, PTL DEF BlocksInHeap

(* Chunks split, freed and merged later implement blocks that do not       *)
(* overlap, each at the lowest place with room for it.                     *)
THEOREM HeapIsAllocator == Spec => AllocatorSpec
<1>1. Init => Alloc!Init
  BY InvInit
<1>2. IInv /\ [Next]_vars => [Alloc!Next]_Alloc!vars
  BY InvNext
<1>3. QED
  BY <1>1, <1>2, Invariant, PTL DEF Spec, AllocatorSpec, Alloc!Spec
=============================================================================
