------------------------------ MODULE CallStack ------------------------------
(***************************************************************************)
(* What Exec, the return of a program, setjmp and longjmp promise: the     *)
(* activations of programs form a stack.  A call suspends the one on top   *)
(* and starts a fresh one, a return resumes the caller where it called,    *)
(* a jump unwinds to the activation that set the mark, at the mark.        *)
(***************************************************************************)
EXTENDS Integers, Sequences

CONSTANTS
  Buffers,   \* where marks are set
  NoMark     \* no mark was set

VARIABLES
  stack,     \* the activations, oldest first: which one, and where it is
  marks,     \* the marks set in the buffers
  fresh      \* activations from this one on have not been used

vars == <<stack, marks, fresh>>

Top == stack[Len(stack)]

Init ==
  /\ stack = <<[frame |-> 1, at |-> 0]>> /\ fresh = 2
  /\ marks = [b \in Buffers |-> NoMark]

(* The activation on top goes on.                                          *)
Work ==
  /\ DOMAIN stack' = DOMAIN stack
  /\ \A k \in 1 .. Len(stack) - 1 : stack'[k] = stack[k]
  /\ stack'[Len(stack)].frame = Top.frame
  /\ UNCHANGED <<marks, fresh>>

Call ==
  /\ stack' = Append(stack, [frame |-> fresh, at |-> 0])
  /\ fresh' = fresh + 1 /\ UNCHANGED marks

Return ==
  /\ Len(stack) > 1
  /\ stack' = SubSeq(stack, 1, Len(stack) - 1)
  /\ UNCHANGED <<marks, fresh>>

Mark(b) == marks' = [marks EXCEPT ![b] = Top] /\ UNCHANGED <<stack, fresh>>

Jump(b) ==
  /\ marks[b] # NoMark
  /\ \E k \in 1 .. Len(stack) :
       /\ stack[k].frame = marks[b].frame
       /\ stack' = Append(SubSeq(stack, 1, k - 1), marks[b])
  /\ UNCHANGED <<marks, fresh>>

Restart ==
  /\ stack' = <<[frame |-> fresh, at |-> 0]>>
  /\ fresh' = fresh + 1 /\ marks' = [b \in Buffers |-> NoMark]

Next == Work \/ Call \/ Return \/ (\E b \in Buffers : Mark(b) \/ Jump(b)) \/ Restart

Spec == Init /\ [][Next]_vars
=============================================================================
