------------------------------- MODULE Qsort --------------------------------
(***************************************************************************)
(* qsort of the PSX kernel (psxbios.cpp): a quicksort that partitions from *)
(* both ends around a growing middle of equal elements, calls the guest's  *)
(* comparison function through softCall, recurses on the smaller part and  *)
(* goes round again with the larger one.                                   *)
(*                                                                         *)
(* Pointers are indices of elements.  An element is its place when qsort   *)
(* was called; what it compares by is its key.  A step is what runs from   *)
(* one comparison to the next.                                             *)
(***************************************************************************)
EXTENDS Integers, Sequences

CONSTANTS
  N,        \* elements of the array
  Keys      \* what honest comparison functions compare

ASSUME SizeAssumption == N \in Nat /\ Keys \subseteq Int /\ 0 \in Keys

VARIABLES
  arr,            \* the array
  key, honest,    \* the comparison function: by key, or with any answer at all
  a, l,           \* the range qsort_main works on, l excluded
  i, lp, hp, j,   \* lp .. hp equal the pivot; a .. i-1 and j+1 .. l-1 are placed
  pc,             \* where qsort_main is
  stack,          \* the ranges the callers of this qsort_main go on with
  sr, word,       \* interrupts enabled; CP0 status saved at KERNEL_CP0_STATUS
  before,         \* history: the status when the sort was called
  nested          \* history: a comparison function has sorted

range == <<a, l>>
pointers == <<i, lp, hp, j>>
compare == <<key, honest, nested>>
status == <<sr, word, before>>
vars == <<arr, compare, range, pointers, pc, stack, status>>

Places == 0 .. N - 1
-----------------------------------------------------------------------------
(* What a comparison function compares that gives any answer.              *)
NoKeys == [e \in Places |-> 0]

(* "idle": the program runs.  "start", "left", "right": the labels start   *)
(* and loop, and the head of the while loop, of qsort_main.                *)
Labels == {"idle", "start", "left", "right"}

Init ==
  /\ arr = [p \in Places |-> p]
  /\ key = NoKeys /\ honest = TRUE /\ nested = FALSE
  /\ a = 0 /\ l = 0 /\ i = 0 /\ lp = 0 /\ hp = 0 /\ j = 0
  /\ pc = "idle" /\ stack = <<>>
  /\ sr = TRUE /\ word = TRUE /\ before = TRUE

(* The answers the comparison function may give.  One that sorts leaves    *)
(* its own function and width behind in qscmpfunc and qswidth.             *)
qscmp(x, y) ==
  IF honest /\ ~nested
  THEN {c \in {-1, 0, 1} : (c < 0 <=> key[x] < key[y]) /\ (c > 0 <=> key[x] > key[y])}
  ELSE {-1, 0, 1}

qexchange(p, q) == [arr EXCEPT ![p] = arr[q], ![q] = arr[p]]

(* In the order of the code, as two of the places may be one.              *)
q3exchange(p, q, r) ==
  LET first == [arr EXCEPT ![p] = arr[r]]
      second == [first EXCEPT ![r] = first[q]]
  IN [second EXCEPT ![q] = arr[p]]
-----------------------------------------------------------------------------
(* The call, and its critical section.                                     *)

Qsort(k, h) ==
  /\ pc = "idle"
  /\ arr' = [p \in Places |-> p]
  /\ key' = k /\ honest' = h /\ nested' = FALSE
  /\ a' = 0 /\ l' = N /\ pc' = "start"
  /\ word' = sr /\ before' = sr /\ sr' = FALSE
  /\ UNCHANGED <<pointers, stack>>

(* A range of one element is sorted; qsort_main returns.                   *)
Return ==
  /\ pc = "start" /\ l - a <= 1
  /\ IF stack = <<>>
     THEN pc' = "idle" /\ sr' = word /\ UNCHANGED <<range, stack>>
     ELSE /\ a' = Head(stack).a /\ l' = Head(stack).l /\ stack' = Tail(stack)
          /\ UNCHANGED <<pc, sr>>
  /\ UNCHANGED <<arr, compare, pointers, word, before>>

(* The pivot is the element in the middle.                                 *)
Split ==
  /\ pc = "start" /\ l - a > 1
  /\ lp' = a + (l - a) \div 2 /\ hp' = lp'
  /\ i' = a /\ j' = l - 1
  /\ pc' = "left"
  /\ UNCHANGED <<arr, compare, range, stack, status>>
-----------------------------------------------------------------------------
(* The elements left of the middle, from the left.                         *)

AtLeft == pc = "left" /\ i < lp

(* Mutant: the middle does not grow.                                       *)
LeftEqualStays ==
  /\ AtLeft /\ 0 \in qscmp(arr[i], arr[lp])
  /\ arr' = qexchange(i, lp)
  /\ UNCHANGED <<compare, range, pointers, pc, stack, status>>

LeftEqual ==
  /\ AtLeft /\ 0 \in qscmp(arr[i], arr[lp])
  /\ lp' = lp - 1 /\ arr' = qexchange(i, lp')
  /\ UNCHANGED <<compare, range, i, hp, j, pc, stack, status>>

LeftLess ==
  /\ AtLeft /\ -1 \in qscmp(arr[i], arr[lp])
  /\ i' = i + 1
  /\ UNCHANGED <<arr, compare, range, lp, hp, j, pc, stack, status>>

LeftGreater ==
  /\ AtLeft /\ 1 \in qscmp(arr[i], arr[lp])
  /\ pc' = "right"
  /\ UNCHANGED <<arr, compare, range, pointers, stack, status>>
-----------------------------------------------------------------------------
(* The elements right of the middle, from the right; arr[i] belongs there, *)
(* or the left side is placed (i = lp).                                    *)

AtRight == pc = "right" \/ (pc = "left" /\ i >= lp)

RightEqual ==
  /\ AtRight /\ j > hp /\ 0 \in qscmp(arr[hp], arr[j])
  /\ hp' = hp + 1 /\ arr' = qexchange(hp', j)
  /\ pc' = "right"
  /\ UNCHANGED <<compare, range, i, lp, j, stack, status>>

RightGreater ==
  /\ AtRight /\ j > hp /\ -1 \in qscmp(arr[hp], arr[j])
  /\ j' = j - 1
  /\ pc' = "right"
  /\ UNCHANGED <<arr, compare, range, i, lp, hp, stack, status>>

(* arr[j] belongs to the left: the middle moves up to make room.           *)
RightLessShift ==
  /\ AtRight /\ j > hp /\ 1 \in qscmp(arr[hp], arr[j]) /\ i = lp
  /\ hp' = hp + 1 /\ arr' = q3exchange(i, hp', j)
  /\ lp' = lp + 1 /\ i' = lp'
  /\ pc' = "right"
  /\ UNCHANGED <<compare, range, j, stack, status>>

(* Or it changes places with arr[i].                                       *)
RightLessSwap ==
  /\ AtRight /\ j > hp /\ 1 \in qscmp(arr[hp], arr[j]) /\ i # lp
  /\ arr' = qexchange(i, j)
  /\ j' = j - 1 /\ i' = i + 1
  /\ pc' = "left"
  /\ UNCHANGED <<compare, range, lp, hp, stack, status>>

(* The right side is placed and arr[i] belongs there: the middle moves down. *)
Shift ==
  /\ AtRight /\ j <= hp /\ i # lp
  /\ lp' = lp - 1 /\ arr' = q3exchange(j, lp', i)
  /\ hp' = hp - 1 /\ j' = hp'
  /\ pc' = "left"
  /\ UNCHANGED <<compare, range, i, stack, status>>

(* Mutant: the larger part is the one that is recursed on.                 *)
PartLarger ==
  /\ AtRight /\ j <= hp /\ i = lp
  /\ IF lp - a < l - hp
     THEN a' = hp + 1 /\ l' = l /\ stack' = <<[a |-> a, l |-> lp]>> \o stack
     ELSE a' = a /\ l' = lp /\ stack' = <<[a |-> hp + 1, l |-> l]>> \o stack
  /\ pc' = "start"
  /\ UNCHANGED <<arr, compare, pointers, status>>

(* Mutant: the upper part begins one too far.                              *)
PartSkips ==
  /\ AtRight /\ j <= hp /\ i = lp
  /\ IF lp - a >= l - hp
     THEN a' = hp + 1 /\ l' = l /\ stack' = <<[a |-> a, l |-> lp]>> \o stack
     ELSE a' = a /\ l' = lp /\ stack' = <<[a |-> hp + 2, l |-> l]>> \o stack
  /\ pc' = "start"
  /\ UNCHANGED <<arr, compare, pointers, status>>

(* Both sides are placed: recursion on one of them, the other one later.   *)
Part ==
  /\ AtRight /\ j <= hp /\ i = lp
  /\ IF lp - a >= l - hp
     THEN a' = hp + 1 /\ l' = l /\ stack' = <<[a |-> a, l |-> lp]>> \o stack
     ELSE a' = a /\ l' = lp /\ stack' = <<[a |-> hp + 1, l |-> l]>> \o stack
  /\ pc' = "start"
  /\ UNCHANGED <<arr, compare, pointers, status>>
-----------------------------------------------------------------------------
(* A comparison function that sorts an array of its own, with elements of  *)
(* the same size: its critical section uses the same word.                 *)
NestedSort ==
  /\ pc \in {"left", "right"} /\ ~nested
  /\ nested' = TRUE
  /\ word' = sr /\ sr' = sr
  /\ UNCHANGED <<arr, key, honest, range, pointers, pc, stack, before>>

(* The program enables and disables interrupts.                            *)
SetStatus(on) ==
  /\ pc = "idle" /\ sr' = on
  /\ UNCHANGED <<arr, compare, range, pointers, pc, stack, word, before>>

Sort ==
  \/ Return \/ Split \/ LeftEqual \/ LeftLess \/ LeftGreater
  \/ RightEqual \/ RightGreater \/ RightLessShift \/ RightLessSwap
  \/ Shift \/ Part

Next ==
  \/ Sort \/ NestedSort
  \/ \E k \in [Places -> Keys] : Qsort(k, TRUE)
  \/ Qsort(NoKeys, FALSE)
  \/ \E on \in BOOLEAN : SetStatus(on)

Spec == Init /\ [][Next]_vars

(* The comparison function returns.                                        *)
FairSpec == Spec /\ WF_vars(Sort)
-----------------------------------------------------------------------------
(* Types; the pointers of a partition in progress lie in its range, in     *)
(* order, so that no comparison and no exchange leaves the array, whatever *)
(* the comparison function answers.                                        *)
TypeOK ==
  /\ arr \in [Places -> Places] /\ key \in [Places -> Keys]
  /\ honest \in BOOLEAN /\ nested \in BOOLEAN
  /\ pc \in Labels
  /\ stack \in Seq([a : 0 .. N, l : 0 .. N])
  /\ sr \in BOOLEAN /\ word \in BOOLEAN /\ before \in BOOLEAN
  /\ 0 <= a /\ a <= l /\ l <= N
  /\ pc \in {"left", "right"} =>
       a <= i /\ i <= lp /\ lp <= hp /\ hp <= j /\ j < l

(* No element is lost or doubled, even half way through an exchange of     *)
(* three, and for comparison functions that contradict themselves or sort. *)
Permutation == \A p, q \in Places : arr[p] = arr[q] => p = q

(* When qsort returns, the array is sorted, if the comparison function is  *)
(* one that compares keys and does nothing else.                           *)
Sorted ==
  pc = "idle" /\ honest /\ ~nested =>
    \A p, q \in Places : p <= q => key[arr[p]] <= key[arr[q]]

(* As it recurses on the smaller part, qsort takes a logarithmic depth of  *)
(* the stack, for any answers.                                             *)
DepthBounded == 2 ^ Len(stack) <= N + 1

(* The comparison function runs with interrupts disabled, and qsort leaves *)
(* them as the program had them, unless a comparison function has sorted.  *)
StatusRestored ==
  /\ pc # "idle" => ~sr
  /\ pc # "idle" /\ ~nested => word = before

(* qsort sorts what can be sorted, keeps every element and gives back the  *)
(* interrupt enable it found.                                              *)
SortsInPlace == TypeOK /\ Permutation /\ Sorted /\ StatusRestored

(* qsort returns, even if the comparison function contradicts itself.      *)
SortEnds == pc # "idle" ~> pc = "idle"
=============================================================================
