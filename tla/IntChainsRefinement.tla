------------------------- MODULE IntChainsRefinement -------------------------
(***************************************************************************)
(* The linked elements of IntChains implement the lists of HandlerLists.   *)
(***************************************************************************)
EXTENDS IntChains, Sequences, FiniteSets

(* The elements of a path in their order.                                  *)
InOrder(nx, h) ==
  LET S == Path(nx, h)
      n == Cardinality(S)
  IN  CHOOSE s \in [1 .. n -> S] :
        /\ n > 0 => s[1] = h
        /\ \A k \in 1 .. n - 1 : nx[s[k]] = s[k + 1]

Lists == INSTANCE HandlerLists
  WITH NumLists <- NumChains,
       lists <- [p \in Chains |-> InOrder(next, heads[p])],
       turn <- IF runs = "program" THEN NumChains ELSE chain,
       todo <- InOrder(next, head)

(* Handlers are served newest first, list by list, each list as it is when *)
(* its turn comes; what handlers enqueue waits for the next interrupt, and *)
(* what they dequeue only leaves.                                          *)
HandlerListsSpec == Lists!Spec
=============================================================================
