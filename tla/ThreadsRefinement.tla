-------------------------- MODULE ThreadsRefinement --------------------------
(***************************************************************************)
(* Threads implements Coroutines, for programs that keep to two rules: a   *)
(* program running on in the thread it has closed opens no other one (nor  *)
(* do its syscalls), and the callbacks of syscalls do not switch threads.  *)
(* Interrupts come in with an entry hook installed, as the library's       *)
(* interrupt dispatcher always is.  The context of the thread that runs is *)
(* in the CPU, every other one in its TCB, as an exception would have left *)
(* it.                                                                     *)
(***************************************************************************)
EXTENDS Threads

ASSUME ProgramRules == ~ReuseOwnSlot /\ "syscall" \notin SwitchIn

Context(t) ==
  IF mode = "thread" /\ t = cur
  THEN [regs |-> cpu.regs, pc |-> cpu.pc, irq |-> cpu.sr.c /\ cpu.sr.im]
  ELSE [regs |-> tcb[t].regs, pc |-> tcb[t].pc, irq |-> tcb[t].sr.p /\ tcb[t].sr.im]

Thread == INSTANCE Coroutines
  WITH Threads <- Slots,
       running <- cur,
       ctx <- [t \in Slots |-> Context(t)],
       open <- {t \in Slots : tcb[t].status = "RESERVED"}

(* A thread finds its registers, its program counter and its interrupt     *)
(* enable as it left them, whatever interrupts, syscalls and switches      *)
(* happened meanwhile, and no exception is visible to it.                  *)
CoroutineSpec == Thread!Spec
=============================================================================
