---------------------------- MODULE HandlerLists ----------------------------
(***************************************************************************)
(* What the interrupt chains promise: lists of handlers, the newest first, *)
(* and an interrupt that serves in turn what each list holds when its turn *)
(* comes.                                                                  *)
(***************************************************************************)
EXTENDS Integers, Sequences

CONSTANTS
  Elements,
  NumLists

VARIABLES
  lists,   \* the elements of each list
  turn,    \* the list whose turn it is, or NumLists between interrupts
  todo     \* what is left to serve in this turn

vars == <<lists, turn, todo>>

Listed(e, list) == \E k \in DOMAIN list : list[k] = e

(* Lists hold no element twice.                                            *)
Without(list, e) ==
  IF Listed(e, list)
  THEN LET k == CHOOSE k \in DOMAIN list : list[k] = e
       IN  SubSeq(list, 1, k - 1) \o SubSeq(list, k + 1, Len(list))
  ELSE list

Init ==
  /\ lists = [p \in 0 .. NumLists - 1 |-> <<>>]
  /\ turn = NumLists /\ todo = <<>>

Add(p, e) ==
  /\ \A q \in DOMAIN lists : ~Listed(e, lists[q])
  /\ lists' = [lists EXCEPT ![p] = <<e>> \o @]
  /\ UNCHANGED <<turn, todo>>

(* An element that was removed may still be served in this turn.           *)
Remove(p, e) ==
  /\ lists' = [lists EXCEPT ![p] = Without(@, e)]
  /\ todo' \in {todo} \cup IF Listed(e, lists[p]) THEN {Without(todo, e)} ELSE {}
  /\ UNCHANGED turn

Clear ==
  /\ turn = NumLists
  /\ lists' = [p \in DOMAIN lists |-> <<>>]
  /\ UNCHANGED <<turn, todo>>

Serve ==
  /\ todo # <<>>
  /\ todo' = Tail(todo)
  /\ UNCHANGED <<lists, turn>>

NextTurn ==
  /\ todo = <<>>
  /\ turn' = IF turn = NumLists THEN 0 ELSE turn + 1
  /\ todo' = IF turn + 1 = NumLists THEN <<>> ELSE lists[turn']
  /\ UNCHANGED lists

Next ==
  \/ \E p \in DOMAIN lists, e \in Elements : Add(p, e) \/ Remove(p, e)
  \/ Clear \/ Serve \/ NextTurn

Spec == Init /\ [][Next]_vars
=============================================================================
