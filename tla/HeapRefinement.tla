--------------------------- MODULE HeapRefinement ---------------------------
(***************************************************************************)
(* Heap implements Allocator, for programs whose sizes do not wrap around. *)
(***************************************************************************)
EXTENDS Heap

ASSUME SizesDoNotWrap ==
  /\ \A bytes \in Requests :
       /\ bytes + 3 < Wrap
       /\ \A count \in Counts : count * bytes + 3 < Wrap
  /\ \A n \in HeapSizes : Base + n < Wrap

(* What malloc is called with.                                             *)
Asked == Requests \cup {p[1] * p[2] : p \in Counts \X Requests} \cup {0}

Alloc == INSTANCE Allocator
  WITH Sizes <- 0 .. Top \div 4,
       Requests <- {Words(bytes) : bytes \in Asked},
       size <- heapWords,
       blocks <- {[at |-> b.at, words |-> Words(b.bytes)] : b \in held},
       result <- v0

(* Blocks never overlap, lie in the heap, are put at the lowest place with *)
(* room, and malloc gives up only when no place has room, however chunks   *)
(* were split, freed and not yet merged before.                            *)
AllocatorSpec == Alloc!Spec
=============================================================================
