------------------------------ MODULE Allocator ------------------------------
(***************************************************************************)
(* What the user heap promises: blocks that do not overlap, each preceded  *)
(* by a word the program must leave alone.  A block is put at the lowest   *)
(* place where there is room, and refused only if there is none.           *)
(***************************************************************************)
EXTENDS Integers

CONSTANTS
  Sizes,      \* sizes a heap may be given, in words
  Requests,   \* sizes a block may be asked for, in words
  Null

VARIABLES
  size,    \* words of the heap
  blocks,  \* [at, words]: the word in front and the number of words behind it
  result   \* where the last block was put, or Null

vars == <<size, blocks, result>>

Overlap(p, m, q, n) == p <= q + n /\ q <= p + m

Place(set, p, n) ==
  /\ p + n < size
  /\ \A b \in set : ~Overlap(p, n, b.at, b.words)

Init == size = 0 /\ blocks = {} /\ result = Null

NewHeap ==
  /\ size' \in Sizes /\ blocks' = {}
  /\ UNCHANGED result

(* A block of n words next to the blocks of set.                           *)
Allocate(set, n) ==
  \/ \E p \in 0 .. size - 1 :
       /\ Place(set, p, n) /\ \A q \in 0 .. p - 1 : ~Place(set, q, n)
       /\ blocks' = set \cup {[at |-> p, words |-> n]}
       /\ result' = p
  \/ /\ n = 0 \/ \A p \in 0 .. size - 1 : ~Place(set, p, n)
     /\ blocks' = set /\ result' = Null

New(n) == Allocate(blocks, n) /\ UNCHANGED size

Free(b) == blocks' = blocks \ {b} /\ UNCHANGED <<size, result>>

(* The contents of the old block are given up, even if the new one is      *)
(* refused.                                                                *)
Renew(b, n) == Allocate(blocks \ {b}, n) /\ UNCHANGED size

Next ==
  \/ NewHeap
  \/ \E n \in Requests : New(n) \/ \E b \in blocks : Renew(b, n)
  \/ \E b \in blocks : Free(b)

Spec == Init /\ [][Next]_vars
=============================================================================
