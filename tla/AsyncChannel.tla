---------------------------- MODULE AsyncChannel ----------------------------
(***************************************************************************)
(* What the kernel promises about events raised "later": a channel of      *)
(* event occurrences, those of one kind that were raised together kept as  *)
(* a kind and a number.  A BIOS call adds some at the end; an interrupt    *)
(* takes on exactly those present when it starts and hands them over one   *)
(* occurrence at a time, in order; what is added meanwhile waits for the   *)
(* next interrupt; a reset forgets what no interrupt has taken on.         *)
(* Capacity is not promised: an addition may come to nothing, which is a   *)
(* stuttering step here.                                                   *)
(***************************************************************************)
EXTENDS Naturals, Sequences

VARIABLES
  owed,      \* what is not yet handed over, oldest first: [what, times]
  taken      \* how many of them the interrupt in progress has taken on

vars == <<owed, taken>>

Init == owed = <<>> /\ taken = 0

Add ==
  /\ Len(owed') > Len(owed)
  /\ SubSeq(owed', 1, Len(owed)) = owed
  /\ UNCHANGED taken

TakeOn ==
  /\ taken = 0
  /\ taken' = Len(owed)
  /\ UNCHANGED owed

(* One occurrence; the last one of its kind is done with.                  *)
HandOver ==
  /\ taken > 0
  /\ IF owed[1].times > 1
     THEN owed' = [owed EXCEPT ![1].times = @ - 1] /\ UNCHANGED taken
     ELSE owed' = Tail(owed) /\ taken' = taken - 1

Reset ==
  /\ owed' = SubSeq(owed, 1, taken)
  /\ UNCHANGED taken

Next == Add \/ TakeOn \/ HandOver \/ Reset

Spec == Init /\ [][Next]_vars

(* Every occurrence is handed over or forgotten.                           *)
FairSpec == Spec /\ WF_vars(HandOver) /\ WF_vars(TakeOn)
=============================================================================
