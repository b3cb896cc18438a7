----------------------------- MODULE Coroutines -----------------------------
(***************************************************************************)
(* What the kernel promises about threads: coroutines.  One thread runs;   *)
(* only the running thread changes its context (registers, position,       *)
(* whether interrupts may come in), and a thread that runs again finds its *)
(* context as it left it.  Interrupts, exceptions and the code that serves *)
(* them are invisible.                                                     *)
(***************************************************************************)
EXTENDS Naturals

CONSTANTS
  Threads,   \* thread numbers, 0 .. n
  Period     \* marks of progress are counted modulo Period

VARIABLES
  running,   \* the thread that runs
  ctx,       \* the context of every thread
  open       \* the threads that are open

vars == <<running, ctx, open>>

Start(t) == [of |-> t, at |-> 0]

Following(m) == [m EXCEPT !.at = (@ + 1) % Period]

Fresh(t, c) == c.regs = Start(t) /\ c.pc = Start(t)

Init ==
  /\ running = 0 /\ open = {0}
  /\ \A t \in Threads : Fresh(t, ctx[t]) /\ ~ctx[t].irq

(* A context after one more instruction or kernel call: the position moves *)
(* on, the registers may, the interrupts may be switched.                  *)
Later(c, d) ==
  /\ d.pc = Following(c.pc)
  /\ d.regs \in {c.regs, Following(c.regs)}

(* Only the running thread moves, it may open and close threads, and hand  *)
(* over to another one.                                                    *)
Advance ==
  /\ Later(ctx[running], ctx'[running])
  /\ \A t \in Threads \ {running} :
       ctx'[t] = ctx[t] \/ (t \in open' \ open /\ Fresh(t, ctx'[t]))

(* An interrupt closes threads, opens others in their place, or hands over *)
(* to another one; the contexts of the threads that stay are untouched.    *)
Preempt ==
  \A t \in Threads : ctx'[t] = ctx[t] \/ (t \in open' \ open /\ Fresh(t, ctx'[t]))

(* The running thread restarts the thread table and becomes thread 0.      *)
Reset ==
  /\ running' = 0 /\ open' = {0}
  /\ Later(ctx[running], ctx'[0])
  /\ \A t \in Threads \ {0} : Fresh(t, ctx'[t]) /\ ~ctx'[t].irq

Next == Advance \/ Preempt \/ Reset

Spec == Init /\ [][Next]_vars
=============================================================================
