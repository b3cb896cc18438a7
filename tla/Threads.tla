------------------------------- MODULE Threads -------------------------------
(***************************************************************************)
(* Threads and exceptions of the PSX kernel (psxbios.cpp).                 *)
(*                                                                         *)
(* A thread is a slot of the TCB table; the process control block points   *)
(* to the current one.  ChangeTh saves the context of the current thread   *)
(* in its TCB and loads that of another.  An exception saves the context   *)
(* the same way; psxBiosException80 then runs guest handlers (softCall)    *)
(* and leaves either to the hook of HookEntryInt, guest code that ends in  *)
(* ReturnFromException, or back to CP0_EPC.  A handler may switch threads  *)
(* by writing the process control block.                                   *)
(*                                                                         *)
(* A context is abstracted to two marks of how far a thread has come: the  *)
(* one its registers date from and the one its program counter is at.      *)
(***************************************************************************)
EXTENDS Naturals, FiniteSets

CONSTANTS
  MaxThreads,    \* entries of the largest TCB table
  ConfSizes,     \* the TCB_MAX a SetConf call may ask for
  Period,        \* the marks of progress are counted modulo Period
  SwitchIn,      \* the modes in which handlers write the process control block
  ReuseOwnSlot,  \* a program (or a syscall of it) whose thread is closed opens threads
  Handler        \* registers and program counter of code that is no thread's

Slots == 0 .. MaxThreads - 1

ASSUME SizesAssumption ==
  /\ MaxThreads \in Nat \ {0} /\ ConfSizes \subseteq 1 .. MaxThreads
  /\ Period \in Nat \ {0} /\ SwitchIn \subseteq {"int", "hook", "syscall"}
  /\ ReuseOwnSlot \in BOOLEAN

VARIABLES
  tcb,       \* the TCB table: status and saved context of each thread
  tcbMax,    \* TCB_MAX, kept equal to G_THREADS_SIZE / SIZEOF_TCB
  cur,       \* the thread the process control block points to
  cpu,       \* registers, program counter, CP0 status, EPC, cause.BD
  mode,      \* whose guest code runs, see Modes
  jmpInt     \* g_hle->jmp_int is set

vars == <<tcb, tcbMax, cur, cpu, mode, jmpInt>>
-----------------------------------------------------------------------------
(* "thread": the current thread.  "int", "syscall": a handler called by    *)
(* psxBiosException80.  "hook": the code installed by HookEntryInt.        *)
Modes == {"thread", "int", "syscall", "hook"}

Marks == [of : Slots, at : 0 .. Period - 1]

Start(t) == [of |-> t, at |-> 0]

Following(m) == [m EXCEPT !.at = (@ + 1) % Period]

(* CP0 status: the interrupt enable bits of the current, previous and old  *)
(* mode (the KU bits move with them) and the interrupt mask bit 0x400.     *)
Status == [c : BOOLEAN, p : BOOLEAN, o : BOOLEAN, im : BOOLEAN]

ZeroStatus == [c |-> FALSE, p |-> FALSE, o |-> FALSE, im |-> FALSE]

(* Mutant: the status is left alone.                                       *)
EnterForgotten(sr) == sr

(* CP0_ENTER_EXCEPTION, and what the CPU itself does on an exception.      *)
Enter(sr) == [c |-> FALSE, p |-> sr.c, o |-> sr.p, im |-> sr.im]

(* CP0_RFE: the old bits stay.                                             *)
Rfe(sr) == [c |-> sr.p, p |-> sr.o, o |-> sr.o, im |-> sr.im]

Tcb == [status : {"FREE", "RESERVED"}, regs : Marks \cup {Handler}, pc : Marks, sr : Status]

Cpu == [regs : Marks \cup {Handler}, pc : Marks \cup {Handler},
        sr : Status, epc : Marks]

(* initProcessAndThread.                                                   *)
InitTcb ==
  [t \in Slots |-> [status |-> IF t = 0 THEN "RESERVED" ELSE "FREE",
                    regs |-> Start(t), pc |-> Start(t), sr |-> ZeroStatus]]

FreeSlots == {t \in Slots : t < tcbMax /\ tcb[t].status = "FREE"}

(* Saving a context at pc: saveContextException, saveContextChangeThread.  *)
Saved(t, pc) ==
  [tcb EXCEPT ![t] = [@ EXCEPT !.regs = cpu.regs, !.pc = pc, !.sr = Enter(cpu.sr)]]

(* Loading a context and leaving the exception it was saved in.            *)
Loaded(table, t) ==
  [cpu EXCEPT !.regs = table[t].regs, !.pc = table[t].pc, !.sr = Rfe(table[t].sr)]

Init ==
  /\ tcbMax \in ConfSizes
  /\ tcb = InitTcb /\ cur = 0 /\ mode = "thread" /\ jmpInt = FALSE
  /\ cpu = [regs |-> Start(0), pc |-> Start(0), sr |-> ZeroStatus,
            epc |-> Start(0)]
-----------------------------------------------------------------------------
(* The running thread: an instruction of its own, a BIOS call that returns *)
(* to ra.                                                                  *)

ThreadRuns == mode = "thread"

Work ==
  /\ ThreadRuns /\ cpu.regs # Handler
  /\ cpu' = [cpu EXCEPT !.regs = Following(@), !.pc = Following(@)]
  /\ UNCHANGED <<tcb, tcbMax, cur, mode, jmpInt>>

(* The call is made by the thread or by a handler.                         *)
CallReturns ==
  \/ ThreadRuns /\ cpu' = [cpu EXCEPT !.pc = Following(@)]
  \/ mode # "thread" /\ UNCHANGED cpu

(* OpenTh leaves the status register of the slot as it was.                *)
OpenTh ==
  /\ CallReturns
  /\ (mode \in {"thread", "syscall"} /\ tcb[cur].status = "FREE") => ReuseOwnSlot
  /\ \/ FreeSlots = {} /\ UNCHANGED tcb                      \* returns -1
     \/ \E t \in FreeSlots :
          /\ \A u \in FreeSlots : t <= u
          /\ tcb' = [tcb EXCEPT ![t].status = "RESERVED",
                                ![t].regs = Start(t), ![t].pc = Start(t)]
  /\ UNCHANGED <<tcbMax, cur, mode, jmpInt>>

CloseTh(t) ==
  /\ CallReturns
  /\ t < tcbMax
  /\ tcb' = [tcb EXCEPT ![t].status = "FREE"]
  /\ UNCHANGED <<tcbMax, cur, mode, jmpInt>>

(* ChangeTh keeps to the rule that a saved status is one shifted by an     *)
(* exception, so that a thread suspended by either may be resumed by both. *)
ChangeTh(t) ==
  /\ ThreadRuns /\ t < tcbMax
  /\ tcb' = Saved(cur, Following(cpu.pc))
  /\ cpu' = Loaded(tcb', t)
  /\ cur' = t
  /\ UNCHANGED <<tcbMax, mode, jmpInt>>

(* HookEntryInt and ResetEntryInt.                                         *)
HookEntryInt(on) ==
  /\ ThreadRuns
  /\ jmpInt' = on
  /\ cpu' = [cpu EXCEPT !.pc = Following(@)]
  /\ UNCHANGED <<tcb, tcbMax, cur, mode>>

(* SetConf: the running program becomes thread 0 of a new table.           *)
SetConf(n) ==
  /\ ThreadRuns
  /\ tcbMax' = n /\ tcb' = InitTcb /\ cur' = 0
  /\ cpu' = [cpu EXCEPT !.pc = Following(@)]
  /\ UNCHANGED <<mode, jmpInt>>
-----------------------------------------------------------------------------
(* Exceptions.                                                             *)

(* Where an interrupted thread goes on: a COP2 instruction has been        *)
(* executed although the exception came in on it.                          *)
ResumePoint(at) == IF at = "cop2" THEN Following(cpu.pc) ELSE cpu.pc

(* An interrupt: the context is saved, the handlers get a stack of their   *)
(* own.  It is let in with an entry hook installed: without one the thread *)
(* resumes with the registers of the handlers (Interrupts has that way).   *)
(* at tells an instruction of the coprocessor from the others.             *)
Interrupt(at) ==
  /\ cpu.sr.c /\ cpu.sr.im
  /\ jmpInt
  /\ at = "cop2" => ThreadRuns
  /\ tcb' = Saved(cur, ResumePoint(at))
  /\ cpu' = [regs |-> Handler, pc |-> Handler, sr |-> Enter(cpu.sr),
             epc |-> ResumePoint(at)]
  /\ mode' = "int"
  /\ UNCHANGED <<tcbMax, cur, jmpInt>>

(* psxBiosException80 is done with the handlers and jumps to the hook.     *)
InterruptToHook ==
  /\ mode = "int" /\ jmpInt
  /\ mode' = "hook"
  /\ UNCHANGED <<tcb, tcbMax, cur, cpu, jmpInt>>

(* Mutant: the thread the exception came in on is resumed, by EPC.         *)
ReturnFromExceptionToEpc ==
  /\ mode = "hook"
  /\ cpu' = [Loaded(tcb, cur) EXCEPT !.pc = cpu.epc]
  /\ mode' = "thread"
  /\ UNCHANGED <<tcb, tcbMax, cur, jmpInt>>

ReturnFromException ==
  /\ mode = "hook"
  /\ cpu' = Loaded(tcb, cur)
  /\ mode' = "thread"
  /\ UNCHANGED <<tcb, tcbMax, cur, jmpInt>>

(* Guest code of a handler writes the process control block.               *)
SwitchThread(t) ==
  /\ mode \in SwitchIn /\ t < tcbMax
  /\ cur' = t
  /\ UNCHANGED <<tcb, tcbMax, cpu, mode, jmpInt>>

(* EnterCriticalSection (on = FALSE) and ExitCriticalSection (on = TRUE)   *)
(* switch the previous enable bit and the mask bit.                        *)
CriticalSection(on) ==
  /\ ThreadRuns
  /\ tcb' = Saved(cur, cpu.pc)
  /\ cpu' = [cpu EXCEPT !.pc = Following(@), !.epc = cpu.pc,
                        !.sr = Rfe([Enter(@) EXCEPT !.p = on, !.im = on])]
  /\ UNCHANGED <<tcbMax, cur, mode, jmpInt>>

(* Another syscall delivers an event, whose callbacks run in this mode.    *)
Syscall ==
  /\ ThreadRuns
  /\ tcb' = Saved(cur, cpu.pc)
  /\ cpu' = [regs |-> Handler, pc |-> Handler, sr |-> Enter(cpu.sr),
             epc |-> cpu.pc]
  /\ mode' = "syscall"
  /\ UNCHANGED <<tcbMax, cur, jmpInt>>

(* The registers come from the TCB, the program counter from EPC.          *)
SyscallReturns ==
  /\ mode = "syscall"
  /\ cpu' = [Loaded(tcb, cur) EXCEPT !.pc = Following(cpu.epc)]
  /\ mode' = "thread"
  /\ UNCHANGED <<tcb, tcbMax, cur, jmpInt>>

Breakpoint ==
  /\ ThreadRuns
  /\ tcb' = Saved(cur, cpu.pc)
  /\ cpu' = [cpu EXCEPT !.pc = Following(@), !.epc = cpu.pc,
                        !.sr = Rfe(Enter(@))]
  /\ UNCHANGED <<tcbMax, cur, mode, jmpInt>>
-----------------------------------------------------------------------------
Next ==
  \/ Work \/ OpenTh
  \/ \E t \in Slots : CloseTh(t) \/ ChangeTh(t) \/ SwitchThread(t)
  \/ \E on \in BOOLEAN : HookEntryInt(on) \/ CriticalSection(on)
  \/ \E n \in ConfSizes : SetConf(n)
  \/ \E at \in {"plain", "cop2"} : Interrupt(at)
  \/ InterruptToHook \/ ReturnFromException
  \/ Syscall \/ SyscallReturns \/ Breakpoint

Spec == Init /\ [][Next]_vars
-----------------------------------------------------------------------------
(* Types; the current thread is one of the table's.                        *)
TypeOK ==
  /\ tcb \in [Slots -> Tcb]
  /\ tcbMax \in ConfSizes
  /\ cur \in Slots /\ cur < tcbMax
  /\ cpu \in Cpu
  /\ mode \in Modes
  /\ jmpInt \in BOOLEAN

(* Code that serves an exception is not interrupted: the TCB of the thread *)
(* it came in on, and EPC, are not overwritten under it.                   *)
ExceptionMasked == mode # "thread" => ~cpu.sr.c
=============================================================================
