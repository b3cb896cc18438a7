-------------------------- MODULE ProgramsRefinement --------------------------
(***************************************************************************)
(* Programs implements CallStack: the contexts that Exec, setjmp and the   *)
(* programs themselves leave in descriptors, buffers and registers come to *)
(* a stack of activations.                                                 *)
(***************************************************************************)
EXTENDS Programs

Activation(c) == [frame |-> c.frame, at |-> c.at]

Marked(c) == IF c = NoContext THEN NoContext ELSE Activation(c)

Shown == [i \in 1 .. Len(calls) + 1 |-> Activation(Stack[i])]

Marks == [b \in Buffers |-> Marked(jmpbuf[b])]

Calls == INSTANCE CallStack
  WITH NoMark <- NoContext, stack <- Shown, marks <- Marks, fresh <- frames + 1

(* A program that returns gives its caller back the registers it called    *)
(* with, and a jump leaves every activation below able to return, however  *)
(* programs call each other, reuse descriptors, jump and are reset.        *)
CallStackSpec == Calls!Spec
=============================================================================
