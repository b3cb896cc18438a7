---------------------------- MODULE ThreadsProofs ----------------------------
(***************************************************************************)
(* Theorems about Threads, for every number of threads and every period.   *)
(***************************************************************************)
EXTENDS ThreadsRefinement, TLAPS

(* The inductive invariant: a running thread runs code of a thread; the    *)
(* syscall being served returns behind the instruction its thread was      *)
(* saved at.                                                               *)
ThreadCode == mode = "thread" => cpu.pc \in Marks /\ cpu.regs \in Marks

SavedRegs == \A t \in Slots : tcb[t].regs \in Marks

SyscallSaved == mode = "syscall" => cpu.epc = tcb[cur].pc

IInv ==
  /\ TypeOK /\ ExceptionMasked
  /\ ThreadCode /\ SavedRegs /\ SyscallSaved
-----------------------------------------------------------------------------
(* Lemmas on marks and on the status register.                             *)

LEMMA StartType == ASSUME NEW t \in Slots PROVE Start(t) \in Marks
  BY SizesAssumption DEF Start, Marks

LEMMA FollowingType == ASSUME NEW m \in Marks PROVE Following(m) \in Marks
<1>1. (m.at + 1) % Period \in 0 .. Period - 1
  BY SizesAssumption DEF Marks
<1>2. QED
  BY <1>1 DEF Following, Marks

LEMMA ZeroStatusType == ZeroStatus \in Status
<1>1. FALSE \in BOOLEAN
  BY Zenon
<1>2. QED
  BY <1>1 DEF ZeroStatus, Status

LEMMA EnterType ==
  ASSUME NEW sr \in Status
  PROVE  Enter(sr) \in Status /\ Rfe(sr) \in Status /\ ~Enter(sr).c
<1>1. FALSE \in BOOLEAN
  BY Zenon
<1>2. sr.c \in BOOLEAN /\ sr.p \in BOOLEAN /\ sr.o \in BOOLEAN /\ sr.im \in BOOLEAN
  BY DEF Status
<1>3. QED
  BY <1>1, <1>2 DEF Enter, Rfe, Status

(* An exception and its return keep the current and the previous enable    *)
(* bits and the mask; the oldest bit is lost.                              *)
LEMMA RfeUndoesEnter ==
  ASSUME NEW sr \in Status
  PROVE  /\ Rfe(Enter(sr)).c = sr.c
         /\ Rfe(Enter(sr)).p = sr.p
         /\ Rfe(Enter(sr)).im = sr.im
  BY DEF Rfe, Enter
-----------------------------------------------------------------------------
(* Lemmas on contexts.                                                     *)

LEMMA SavedContext ==
  ASSUME TypeOK, NEW t \in Slots, NEW pc \in Marks
  PROVE  /\ Saved(t, pc) \in [Slots -> Tcb]
         /\ Saved(t, pc)[t].regs = cpu.regs
         /\ Saved(t, pc)[t].pc = pc
         /\ Saved(t, pc)[t].sr = Enter(cpu.sr)
         /\ \A u \in Slots : Saved(t, pc)[u].status = tcb[u].status
         /\ \A u \in Slots : u # t => Saved(t, pc)[u] = tcb[u]
<1>1. tcb[t] \in Tcb /\ cpu.regs \in Marks \cup {Handler} /\ Enter(cpu.sr) \in Status
  BY EnterType DEF TypeOK, Cpu
<1> DEFINE c == [tcb[t] EXCEPT !.regs = cpu.regs, !.pc = pc, !.sr = Enter(cpu.sr)]
<1>2. /\ c \in Tcb /\ c.regs = cpu.regs /\ c.pc = pc /\ c.sr = Enter(cpu.sr)
      /\ c.status = tcb[t].status
  BY <1>1 DEF Tcb
<1>3. Saved(t, pc) = [tcb EXCEPT ![t] = c]
  BY DEF Saved
<1> HIDE DEF c
<1>4. QED
  BY <1>2, <1>3 DEF TypeOK

LEMMA LoadedContext ==
  ASSUME TypeOK, NEW table \in [Slots -> Tcb], NEW t \in Slots
  PROVE  /\ Loaded(table, t) \in Cpu
         /\ Loaded(table, t).regs = table[t].regs
         /\ Loaded(table, t).pc = table[t].pc
         /\ Loaded(table, t).sr = Rfe(table[t].sr)
         /\ Loaded(table, t).epc = cpu.epc
<1>1. table[t] \in Tcb
  OBVIOUS
<1>2. table[t].sr \in Status /\ table[t].regs \in Marks \cup {Handler} /\ table[t].pc \in Marks
  BY <1>1 DEF Tcb
<1>3. Rfe(table[t].sr) \in Status
  BY <1>2, EnterType
<1>4. QED
  BY <1>2, <1>3 DEF Loaded, TypeOK, Cpu

LEMMA InitTcbType ==
  /\ InitTcb \in [Slots -> Tcb]
  /\ \A t \in Slots : InitTcb[t].regs \in Marks
<1>1. ASSUME NEW t \in Slots PROVE Start(t) \in Marks
  BY StartType
<1>2. QED
  BY <1>1, ZeroStatusType DEF InitTcb, Tcb

(* A status the guest leaves in a critical section, or out of one.         *)
LEMMA CriticalStatus ==
  ASSUME NEW sr \in Status, NEW on \in BOOLEAN
  PROVE  Rfe([Enter(sr) EXCEPT !.p = on, !.im = on]) \in Status
<1>1. Enter(sr) \in Status
  BY EnterType
<1>2. [Enter(sr) EXCEPT !.p = on, !.im = on] \in Status
  BY <1>1 DEF Status
<1>3. QED
  BY <1>2, EnterType
-----------------------------------------------------------------------------
(* The invariant is inductive.                                             *)

LEMMA InvInit == Init => IInv
<1> SUFFICES ASSUME Init PROVE IInv
  OBVIOUS
<1>1. 0 \in Slots /\ \A n \in ConfSizes : 0 < n
  BY SizesAssumption DEF Slots
<1>2. Start(0) \in Marks
  BY <1>1, StartType
<1>3. FALSE \in BOOLEAN
  BY Zenon
<1>4. cpu \in Cpu
  BY <1>2, <1>3, ZeroStatusType DEF Init, Cpu
<1>5. TypeOK
  BY <1>1, <1>3, <1>4, InitTcbType DEF Init, TypeOK, Modes
<1>6. ExceptionMasked /\ ThreadCode /\ SavedRegs /\ SyscallSaved
  BY <1>2, InitTcbType
  DEF Init, ExceptionMasked, ThreadCode, SavedRegs, SyscallSaved
<1>7. QED
  BY <1>5, <1>6 DEF IInv

(* The thread goes on: its registers and its program counter may move.     *)
LEMMA InvThreadStep ==
  ASSUME IInv, ThreadRuns, mode' = mode, tcbMax' \in ConfSizes,
         tcb' \in [Slots -> Tcb], SavedRegs', cur' \in Slots, cur' < tcbMax',
         jmpInt' \in BOOLEAN, cpu' \in Cpu,
         cpu'.regs \in Marks, cpu'.pc \in Marks
  PROVE  IInv'
  BY DEF IInv, TypeOK, ThreadRuns, ExceptionMasked, ThreadCode, SyscallSaved, Modes

(* One exception step: the table of a saved context is well formed.        *)
LEMMA InvSaved ==
  ASSUME IInv, ThreadRuns, NEW pc \in Marks
  PROVE  /\ Saved(cur, pc) \in [Slots -> Tcb]
         /\ \A t \in Slots : Saved(cur, pc)[t].regs \in Marks
<1>1. cpu.regs \in Marks /\ cur \in Slots
  BY DEF IInv, ThreadRuns, ThreadCode, TypeOK
<1> DEFINE table == Saved(cur, pc)
<1>2. /\ table \in [Slots -> Tcb] /\ table[cur].regs = cpu.regs
      /\ \A t \in Slots : t # cur => table[t] = tcb[t]
  BY <1>1, SavedContext DEF IInv
<1> HIDE DEF table
<1>3. \A t \in Slots : table[t].regs \in Marks
  BY <1>1, <1>2 DEF IInv, SavedRegs
<1>4. QED
  BY <1>2, <1>3 DEF table

LEMMA MovedOn ==
  ASSUME IInv, ThreadRuns
  PROVE  /\ [cpu EXCEPT !.pc = Following(@)] \in Cpu
         /\ [cpu EXCEPT !.pc = Following(@)].regs = cpu.regs
         /\ [cpu EXCEPT !.pc = Following(@)].pc = Following(cpu.pc)
         /\ [cpu EXCEPT !.pc = Following(@)].sr = cpu.sr
         /\ cpu.regs \in Marks /\ cpu.pc \in Marks /\ Following(cpu.pc) \in Marks
<1>1. cpu \in Cpu /\ cpu.pc \in Marks /\ cpu.regs \in Marks
  BY DEF IInv, TypeOK, ThreadRuns, ThreadCode
<1>2. Following(cpu.pc) \in Marks
  BY <1>1, FollowingType
<1>3. QED
  BY <1>1, <1>2 DEF Cpu

(* OpenTh and CloseTh, made by a thread or by a handler.                   *)
LEMMA InvCall ==
  ASSUME IInv, CallReturns, UNCHANGED <<tcbMax, cur, mode, jmpInt>>,
         tcb' \in [Slots -> Tcb], SavedRegs',
         mode = "syscall" => tcb'[cur].pc = tcb[cur].pc
  PROVE  IInv'
<1>1. CASE ThreadRuns /\ cpu' = [cpu EXCEPT !.pc = Following(@)]
  BY <1>1, MovedOn, InvThreadStep DEF IInv, TypeOK
<1>2. CASE mode # "thread" /\ UNCHANGED cpu
  BY <1>2 DEF IInv, TypeOK, ExceptionMasked, ThreadCode, SyscallSaved
<1>3. QED
  BY <1>1, <1>2 DEF CallReturns

LEMMA OpenThTable ==
  ASSUME IInv, NEW t \in Slots
  PROVE  LET new == [tcb EXCEPT ![t].status = "RESERVED",
                                ![t].regs = Start(t), ![t].pc = Start(t)]
         IN  /\ new \in [Slots -> Tcb]
             /\ new[t].status = "RESERVED"
             /\ new[t].regs = Start(t) /\ new[t].pc = Start(t)
             /\ \A u \in Slots : u # t => new[u] = tcb[u]
<1>1. tcb[t] \in Tcb /\ Start(t) \in Marks
  BY StartType DEF IInv, TypeOK
<1> DEFINE c == [tcb[t] EXCEPT !.status = "RESERVED", !.regs = Start(t), !.pc = Start(t)]
<1>2. c \in Tcb /\ c.status = "RESERVED" /\ c.regs = Start(t) /\ c.pc = Start(t)
  BY <1>1 DEF Tcb
<1>3. [tcb EXCEPT ![t].status = "RESERVED", ![t].regs = Start(t), ![t].pc = Start(t)]
        = [tcb EXCEPT ![t] = c]
  BY DEF IInv, TypeOK
<1> HIDE DEF c
<1>4. QED
  BY <1>2, <1>3 DEF IInv, TypeOK

LEMMA CloseThTable ==
  ASSUME IInv, NEW t \in Slots
  PROVE  LET new == [tcb EXCEPT ![t].status = "FREE"]
         IN  /\ new \in [Slots -> Tcb]
             /\ new[t].status = "FREE"
             /\ \A u \in Slots : /\ new[u].regs = tcb[u].regs /\ new[u].pc = tcb[u].pc
                                 /\ new[u].sr = tcb[u].sr
                                 /\ u # t => new[u] = tcb[u]
<1>1. tcb[t] \in Tcb
  BY DEF IInv, TypeOK
<1>2. QED
  BY <1>1 DEF IInv, TypeOK, Tcb

(* A slot OpenTh takes is not the one of a thread in a syscall.            *)
LEMMA OpenThElsewhere ==
  ASSUME IInv, OpenTh, mode \in {"thread", "syscall"}
  PROVE  cur \notin FreeSlots
  BY ProgramRules DEF OpenTh, FreeSlots

LEMMA InvOpenTh == IInv /\ OpenTh => IInv'
<1> SUFFICES ASSUME IInv, OpenTh PROVE IInv'
  OBVIOUS
<1>1. CASE UNCHANGED tcb
  BY <1>1, InvCall DEF OpenTh, IInv, TypeOK, SavedRegs
<1>2. ASSUME NEW t \in FreeSlots,
             tcb' = [tcb EXCEPT ![t].status = "RESERVED",
                                ![t].regs = Start(t), ![t].pc = Start(t)]
      PROVE  IInv'
  <2>1. t \in Slots /\ Start(t) \in Marks
    BY StartType DEF FreeSlots
  <2>2. /\ tcb' \in [Slots -> Tcb]
        /\ tcb'[t].regs = Start(t)
        /\ \A u \in Slots : u # t => tcb'[u] = tcb[u]
    BY <1>2, <2>1, OpenThTable
  <2>3. SavedRegs'
    BY <2>1, <2>2 DEF SavedRegs, IInv
  <2>4. mode = "syscall" => tcb'[cur].pc = tcb[cur].pc
    BY <2>2, OpenThElsewhere DEF IInv, TypeOK
  <2>5. QED
    BY <2>2, <2>3, <2>4, InvCall DEF OpenTh
<1>3. QED
  BY <1>1, <1>2 DEF OpenTh

LEMMA InvCloseTh == ASSUME NEW t \in Slots PROVE IInv /\ CloseTh(t) => IInv'
<1> SUFFICES ASSUME IInv, CloseTh(t) PROVE IInv'
  OBVIOUS
<1>1. /\ tcb' \in [Slots -> Tcb]
      /\ \A u \in Slots : tcb'[u].regs = tcb[u].regs /\ tcb'[u].pc = tcb[u].pc
  BY CloseThTable DEF CloseTh
<1>2. SavedRegs' /\ tcb'[cur].pc = tcb[cur].pc
  BY <1>1 DEF SavedRegs, IInv, TypeOK
<1>3. QED
  BY <1>1, <1>2, InvCall DEF CloseTh

LEMMA InvChangeTh == ASSUME NEW t \in Slots PROVE IInv /\ ChangeTh(t) => IInv'
<1> SUFFICES ASSUME IInv, ChangeTh(t) PROVE IInv'
  OBVIOUS
<1>1. ThreadRuns /\ tcb' = Saved(cur, Following(cpu.pc)) /\ Following(cpu.pc) \in Marks
  BY MovedOn DEF ChangeTh
<1>2. tcb' \in [Slots -> Tcb] /\ \A u \in Slots : tcb'[u].regs \in Marks
  BY <1>1, InvSaved
<1>3. SavedRegs' /\ tcb'[t].pc \in Marks
  BY <1>2 DEF SavedRegs, Tcb
<1>4. cpu' = Loaded(tcb', t)
  BY DEF ChangeTh
<1>5. cpu' \in Cpu /\ cpu'.regs \in Marks /\ cpu'.pc \in Marks
  BY <1>2, <1>3, <1>4, LoadedContext DEF IInv
<1>6. mode' = mode /\ tcbMax' = tcbMax /\ jmpInt' = jmpInt /\ cur' = t /\ t < tcbMax
  BY DEF ChangeTh
<1>7. QED
  BY <1>1, <1>2, <1>3, <1>5, <1>6, InvThreadStep DEF IInv, TypeOK

(* The kernel gets hold of the CPU.                                        *)
LEMMA KernelCpu ==
  ASSUME NEW sr \in Status, NEW pc \in Marks
  PROVE  LET c == [regs |-> Handler, pc |-> Handler, sr |-> Enter(sr), epc |-> pc]
         IN  c \in Cpu /\ ~c.sr.c
  BY EnterType DEF Cpu

LEMMA InvInterrupt ==
  ASSUME NEW at \in {"plain", "cop2"}
  PROVE  IInv /\ Interrupt(at) => IInv'
<1> SUFFICES ASSUME IInv, Interrupt(at) PROVE IInv'
  OBVIOUS
<1>1. ThreadRuns /\ jmpInt
  BY ProgramRules DEF Interrupt, IInv, ExceptionMasked, ThreadRuns
<1>2. ResumePoint(at) \in Marks
  BY <1>1, MovedOn DEF ResumePoint
<1>3. cpu.sr \in Status
  BY DEF IInv, TypeOK, Cpu
<1>4. cpu' \in Cpu /\ ~cpu'.sr.c
  BY <1>2, <1>3, KernelCpu DEF Interrupt
<1>5. tcb' \in [Slots -> Tcb] /\ \A t \in Slots : tcb'[t].regs \in Marks
  BY <1>1, <1>2, InvSaved DEF Interrupt
<1>6. mode' = "int" /\ tcbMax' = tcbMax /\ cur' = cur /\ jmpInt' = jmpInt
  BY DEF Interrupt
<1>7. QED
  BY <1>1, <1>4, <1>5, <1>6
  DEF IInv, TypeOK, ExceptionMasked, ThreadCode, SavedRegs, SyscallSaved, Modes

LEMMA InvSyscall == IInv /\ Syscall => IInv'
<1> SUFFICES ASSUME IInv, Syscall PROVE IInv'
  OBVIOUS
<1>1. ThreadRuns /\ cpu.pc \in Marks
  BY MovedOn DEF Syscall
<1>2. cpu.sr \in Status /\ FALSE \in BOOLEAN
  BY DEF IInv, TypeOK, Cpu
<1>3. cpu' \in Cpu /\ ~cpu'.sr.c /\ cpu'.epc = cpu.pc
  BY <1>1, <1>2, KernelCpu DEF Syscall
<1>4. tcb' \in [Slots -> Tcb] /\ \A t \in Slots : tcb'[t].regs \in Marks
  BY <1>1, InvSaved DEF Syscall
<1>5. tcb'[cur].pc = cpu.pc
  BY <1>1, SavedContext DEF Syscall, IInv, TypeOK
<1>6. mode' = "syscall" /\ tcbMax' = tcbMax /\ cur' = cur /\ jmpInt' = jmpInt
  BY DEF Syscall
<1>7. QED
  BY <1>3, <1>4, <1>5, <1>6
  DEF IInv, TypeOK, ExceptionMasked, ThreadCode, SavedRegs, SyscallSaved, Modes

(* A thread is resumed from its TCB.                                       *)
LEMMA InvResume ==
  ASSUME IInv, mode' = "thread", UNCHANGED <<tcb, tcbMax, cur, jmpInt>>,
         NEW pc \in Marks, cpu' = [Loaded(tcb, cur) EXCEPT !.pc = pc]
  PROVE  IInv'
<1>1. cur \in Slots /\ tcb \in [Slots -> Tcb] /\ tcb[cur].regs \in Marks
  BY DEF IInv, TypeOK, SavedRegs
<1>2. Loaded(tcb, cur) \in Cpu /\ Loaded(tcb, cur).regs \in Marks
  BY <1>1, LoadedContext DEF IInv
<1>3. cpu' \in Cpu /\ cpu'.regs \in Marks /\ cpu'.pc \in Marks
  BY <1>2 DEF Cpu
<1>4. QED
  BY <1>3
  DEF IInv, TypeOK, ExceptionMasked, ThreadCode, SavedRegs, SyscallSaved, Modes

LEMMA InvReturnFromException == IInv /\ ReturnFromException => IInv'
<1> SUFFICES ASSUME IInv, ReturnFromException PROVE IInv'
  OBVIOUS
<1>1. cur \in Slots /\ tcb \in [Slots -> Tcb] /\ tcb[cur].pc \in Marks
  BY DEF IInv, TypeOK, Tcb
<1>2. Loaded(tcb, cur) \in Cpu /\ Loaded(tcb, cur).pc = tcb[cur].pc
  BY <1>1, LoadedContext DEF IInv
<1>3. cpu' = [Loaded(tcb, cur) EXCEPT !.pc = tcb[cur].pc]
  BY <1>2 DEF ReturnFromException, Cpu
<1>4. QED
  BY <1>1, <1>3, InvResume DEF ReturnFromException

LEMMA InvSyscallReturns == IInv /\ SyscallReturns => IInv'
<1> SUFFICES ASSUME IInv, SyscallReturns PROVE IInv'
  OBVIOUS
<1>1. Following(cpu.epc) \in Marks
  BY FollowingType DEF IInv, TypeOK, Cpu
<1>2. QED
  BY <1>1, InvResume DEF SyscallReturns

(* Syscalls and breakpoints that come straight back to the thread.         *)
LEMMA InvShortException ==
  ASSUME IInv, ThreadRuns, tcb' = Saved(cur, cpu.pc), NEW sr \in Status,
         cpu' = [cpu EXCEPT !.pc = Following(@), !.epc = cpu.pc, !.sr = sr],
         UNCHANGED <<tcbMax, cur, mode, jmpInt>>
  PROVE  IInv'
<1>1. cpu.pc \in Marks /\ Following(cpu.pc) \in Marks /\ cpu.regs \in Marks
  BY MovedOn
<1>2. tcb' \in [Slots -> Tcb] /\ \A t \in Slots : tcb'[t].regs \in Marks
  BY <1>1, InvSaved
<1>3. cpu \in Cpu /\ FALSE \in BOOLEAN
  BY DEF IInv, TypeOK
<1>4. cpu' \in Cpu /\ cpu'.regs \in Marks /\ cpu'.pc \in Marks
  BY <1>1, <1>3 DEF Cpu
<1>5. QED
  BY <1>2, <1>4, InvThreadStep DEF IInv, TypeOK, SavedRegs

LEMMA InvThread ==
  IInv /\ (Work \/ Breakpoint \/ \E on \in BOOLEAN : HookEntryInt(on) \/ CriticalSection(on)
           \/ \E n \in ConfSizes : SetConf(n)) => IInv'
<1>1. ASSUME IInv, Work PROVE IInv'
  <2>1. cpu.regs \in Marks /\ cpu.pc \in Marks /\ cpu \in Cpu
    BY <1>1, MovedOn DEF Work, IInv, TypeOK
  <2>2. Following(cpu.regs) \in Marks /\ Following(cpu.pc) \in Marks
    BY <2>1, FollowingType
  <2>3. cpu' \in Cpu /\ cpu'.regs \in Marks /\ cpu'.pc \in Marks
    BY <1>1, <2>1, <2>2 DEF Work, Cpu
  <2>4. QED
    BY <1>1, <2>3, InvThreadStep DEF Work, IInv, TypeOK, SavedRegs
<1>2. ASSUME IInv, Breakpoint PROVE IInv'
  <2>1. Rfe(Enter(cpu.sr)) \in Status
    BY <1>2, EnterType DEF IInv, TypeOK, Cpu
  <2>2. QED
    BY <1>2, <2>1, InvShortException DEF Breakpoint
<1>3. ASSUME IInv, NEW on \in BOOLEAN, CriticalSection(on) PROVE IInv'
  <2>1. Rfe([Enter(cpu.sr) EXCEPT !.p = on, !.im = on]) \in Status
    BY <1>3, CriticalStatus DEF IInv, TypeOK, Cpu
  <2>2. QED
    BY <1>3, <2>1, InvShortException DEF CriticalSection
<1>4. ASSUME IInv, NEW on \in BOOLEAN, HookEntryInt(on) PROVE IInv'
  BY <1>4, MovedOn, InvThreadStep DEF HookEntryInt, IInv, TypeOK, SavedRegs
<1>5. ASSUME IInv, NEW n \in ConfSizes, SetConf(n) PROVE IInv'
  <2>1. 0 \in Slots /\ 0 < n
    BY SizesAssumption DEF Slots
  <2>2. SavedRegs'
    BY <1>5, InitTcbType DEF SetConf, SavedRegs
  <2>3. QED
    BY <1>5, <2>1, <2>2, MovedOn, InitTcbType, InvThreadStep DEF SetConf, IInv, TypeOK
<1>6. QED
  BY <1>1, <1>2, <1>3, <1>4, <1>5

LEMMA InvNext == IInv /\ [Next]_vars => IInv'
<1> SUFFICES ASSUME IInv, [Next]_vars PROVE IInv'
  OBVIOUS
<1>1. ASSUME NEW t \in Slots, SwitchThread(t) PROVE IInv'
  BY <1>1, ProgramRules
  DEF SwitchThread, IInv, TypeOK, ExceptionMasked, ThreadCode, SavedRegs, SyscallSaved
<1>2. CASE InterruptToHook
  BY <1>2 DEF InterruptToHook, IInv, TypeOK, ExceptionMasked, ThreadCode, SavedRegs,
              SyscallSaved, Modes
<1>3. CASE UNCHANGED vars
  BY <1>3 DEF vars, IInv, TypeOK, ExceptionMasked, ThreadCode, SavedRegs, SyscallSaved
<1>4. QED
  BY <1>1, <1>2, <1>3, InvThread, InvOpenTh, InvCloseTh, InvChangeTh, InvInterrupt,
     InvReturnFromException, InvSyscall, InvSyscallReturns
  DEF Next

(* The kernel's tables and registers keep their types, and the current     *)
(* thread is one of the table's (SetConf, ChangeTh, switching handlers).   *)
THEOREM TypeCorrect == Spec => []TypeOK
<1>1. IInv => TypeOK
  BY DEF IInv
<1>2. QED
  BY <1>1, InvInit, InvNext, PTL DEF Spec

(* While an exception is served, by the kernel, its handlers or the hook,  *)
(* no other interrupt overwrites the TCB and the EPC it returns by.        *)
THEOREM ExceptionsMasked == Spec => []ExceptionMasked
<1>1. IInv => ExceptionMasked
  BY DEF IInv
<1>2. QED
  BY <1>1, InvInit, InvNext, PTL DEF Spec
-----------------------------------------------------------------------------
(* Threads are coroutines.  What a step does to a thread that does not     *)
(* run: its context is kept, or it is a new thread.                        *)
Kept(t) == Context(t)' = Context(t)

Opened(t) ==
  /\ tcb[t].status # "RESERVED" /\ tcb'[t].status = "RESERVED"
  /\ Context(t)'.regs = Start(t) /\ Context(t)'.pc = Start(t)

(* What it does to the one that does.                                      *)
Moved(t) ==
  /\ Context(t)'.pc = Following(Context(t).pc)
  /\ Context(t)'.regs \in {Context(t).regs, Following(Context(t).regs)}

LEMMA PreemptStep ==
  ASSUME \A t \in Slots : Kept(t) \/ Opened(t)
  PROVE  Thread!Preempt
  BY DEF Kept, Opened, Thread!Preempt, Thread!Fresh, Thread!Start, Start

LEMMA AdvanceStep ==
  ASSUME NEW c \in Slots, cur = c, Moved(c),
         \A t \in Slots \ {c} : Kept(t) \/ Opened(t)
  PROVE  Thread!Advance
<1>1. Thread!Later(Context(c), Context(c)')
  BY DEF Moved, Thread!Later, Thread!Following, Following
<1>2. QED
  BY <1>1 DEF Kept, Opened, Thread!Advance, Thread!Fresh, Thread!Start, Start

(* The context of the thread that runs.                                    *)
LEMMA ContextInCpu ==
  ASSUME NEW t, mode = "thread", t = cur
  PROVE  /\ Context(t) = [regs |-> cpu.regs, pc |-> cpu.pc, irq |-> cpu.sr.c /\ cpu.sr.im]
         /\ Context(t).regs = cpu.regs /\ Context(t).pc = cpu.pc
  BY DEF Context

(* Steps in which no context moves between the CPU and a TCB.              *)
LEMMA KeptInTcb ==
  ASSUME NEW t, UNCHANGED <<mode, cur>>, ~(mode = "thread" /\ t = cur),
         tcb'[t].regs = tcb[t].regs, tcb'[t].pc = tcb[t].pc, tcb'[t].sr = tcb[t].sr
  PROVE  Kept(t)
  BY DEF Kept, Context

(* The running thread goes on in the CPU.                                  *)
LEMMA MovedInCpu ==
  ASSUME NEW c, c = cur, mode = "thread", mode' = "thread", cur' = cur,
         cpu'.pc = Following(cpu.pc), cpu'.regs \in {cpu.regs, Following(cpu.regs)}
  PROVE  Moved(c)
  BY DEF Moved, Context

LEMMA SimWork == IInv /\ Work => Thread!Next
<1> SUFFICES ASSUME IInv, Work PROVE Thread!Next
  OBVIOUS
<1>0. PICK c \in Slots : c = cur
  BY DEF IInv, TypeOK
<1>1. c \in Slots /\ c = cur /\ cpu \in Cpu
  BY <1>0 DEF IInv, TypeOK
<1>2. cpu'.pc = Following(cpu.pc) /\ cpu'.regs = Following(cpu.regs)
  BY <1>1 DEF Work, Cpu
<1>3. Moved(c)
  BY <1>1, <1>2, MovedInCpu DEF Work, ThreadRuns
<1>4. ASSUME NEW t \in Slots \ {c} PROVE Kept(t)
  BY <1>1, KeptInTcb DEF Work
<1>5. QED
  BY <1>1, <1>3, <1>4, AdvanceStep DEF Thread!Next

(* A call that returns, whether made by the thread or by a handler.        *)
LEMMA SimCall ==
  ASSUME IInv, CallReturns, UNCHANGED <<cur, mode>>,
         \A t \in Slots : ~(mode = "thread" /\ t = cur) => Kept(t) \/ Opened(t)
  PROVE  Thread!Next
<1>0. PICK c \in Slots : c = cur
  BY DEF IInv, TypeOK
<1>1. c \in Slots /\ c = cur /\ cpu \in Cpu
  BY <1>0 DEF IInv, TypeOK
<1>2. CASE ThreadRuns /\ cpu' = [cpu EXCEPT !.pc = Following(@)]
  <2>1. cpu'.pc = Following(cpu.pc) /\ cpu'.regs = cpu.regs
    BY <1>1, <1>2 DEF Cpu
  <2>2. Moved(c)
    BY <1>1, <1>2, <2>1, MovedInCpu DEF ThreadRuns
  <2>3. QED
    BY <1>1, <2>2, AdvanceStep DEF Thread!Next
<1>3. CASE mode # "thread" /\ UNCHANGED cpu
  BY <1>3, PreemptStep DEF Thread!Next
<1>4. QED
  BY <1>2, <1>3 DEF CallReturns

LEMMA SimOpenTh == IInv /\ OpenTh => Thread!Next
<1> SUFFICES ASSUME IInv, OpenTh PROVE Thread!Next
  OBVIOUS
<1>1. CASE UNCHANGED tcb
  <2>1. ASSUME NEW t \in Slots, ~(mode = "thread" /\ t = cur) PROVE Kept(t)
    BY <1>1, <2>1, KeptInTcb DEF OpenTh
  <2>2. QED
    BY <2>1, SimCall DEF OpenTh
<1>2. ASSUME NEW n \in FreeSlots,
             tcb' = [tcb EXCEPT ![n].status = "RESERVED",
                                ![n].regs = Start(n), ![n].pc = Start(n)]
      PROVE  Thread!Next
  <2>1. n \in Slots /\ tcb[n].status = "FREE"
    BY DEF FreeSlots
  <2>2. /\ tcb'[n].status = "RESERVED" /\ tcb'[n].regs = Start(n) /\ tcb'[n].pc = Start(n)
        /\ \A u \in Slots : u # n => tcb'[u] = tcb[u]
    BY <1>2, <2>1, OpenThTable
  <2>3. ASSUME NEW t \in Slots, ~(mode = "thread" /\ t = cur), t # n PROVE Kept(t)
    BY <2>2, <2>3, KeptInTcb DEF OpenTh
  <2>4. ASSUME ~(mode = "thread" /\ n = cur) PROVE Opened(n)
    BY <2>1, <2>2, <2>4 DEF Opened, Context, OpenTh
  <2>5. QED
    BY <2>3, <2>4, SimCall DEF OpenTh
<1>3. QED
  BY <1>1, <1>2 DEF OpenTh

LEMMA SimCloseTh == ASSUME NEW n \in Slots PROVE IInv /\ CloseTh(n) => Thread!Next
<1> SUFFICES ASSUME IInv, CloseTh(n) PROVE Thread!Next
  OBVIOUS
<1>1. \A u \in Slots : /\ tcb'[u].regs = tcb[u].regs /\ tcb'[u].pc = tcb[u].pc
                       /\ tcb'[u].sr = tcb[u].sr
  BY CloseThTable DEF CloseTh
<1>2. ASSUME NEW t \in Slots, ~(mode = "thread" /\ t = cur) PROVE Kept(t)
  BY <1>1, <1>2, KeptInTcb DEF CloseTh
<1>3. QED
  BY <1>2, SimCall DEF CloseTh

(* Two equal contexts.                                                     *)
LEMMA SameIrq ==
  ASSUME NEW sr \in Status
  PROVE  /\ (Enter(sr).p /\ Enter(sr).im) = (sr.c /\ sr.im)
         /\ (Rfe(sr).c /\ Rfe(sr).im) = (sr.p /\ sr.im)
  BY DEF Enter, Rfe

LEMMA SimChangeTh == ASSUME NEW n \in Slots PROVE IInv /\ ChangeTh(n) => Thread!Next
<1> SUFFICES ASSUME IInv, ChangeTh(n) PROVE Thread!Next
  OBVIOUS
<1>0. PICK c \in Slots : c = cur
  BY DEF IInv, TypeOK
<1>1. /\ c \in Slots /\ c = cur /\ mode = "thread" /\ mode' = "thread" /\ cur' = n
      /\ Following(cpu.pc) \in Marks
  BY <1>0, MovedOn DEF IInv, TypeOK, ChangeTh, ThreadRuns
<1>2. /\ tcb' \in [Slots -> Tcb]
      /\ tcb'[c].regs = cpu.regs /\ tcb'[c].pc = Following(cpu.pc)
      /\ \A u \in Slots : u # c => tcb'[u] = tcb[u]
  BY <1>1, SavedContext DEF ChangeTh, IInv
<1>3. /\ cpu'.regs = tcb'[n].regs /\ cpu'.pc = tcb'[n].pc /\ cpu'.sr = Rfe(tcb'[n].sr)
  BY <1>2, LoadedContext DEF ChangeTh, IInv
<1>4. Moved(c)
  <2>1. Context(c).regs = cpu.regs /\ Context(c).pc = cpu.pc
    BY <1>1, ContextInCpu
  <2>2. Context(c)'.regs = tcb'[c].regs /\ Context(c)'.pc = tcb'[c].pc
    BY <1>1, <1>3 DEF Context
  <2>3. QED
    BY <1>2, <2>1, <2>2 DEF Moved
<1>5. ASSUME NEW t \in Slots \ {c} PROVE Kept(t)
  <2>1. CASE t = n
    <3>1. tcb[t].sr \in Status /\ tcb'[t] = tcb[t]
      BY <1>2 DEF IInv, TypeOK, Tcb
    <3>2. (cpu'.sr.c /\ cpu'.sr.im) = (tcb[t].sr.p /\ tcb[t].sr.im)
      BY <1>3, <2>1, <3>1, SameIrq
    <3>3. QED
      BY <1>1, <1>3, <2>1, <3>1, <3>2 DEF Kept, Context
  <2>2. CASE t # n
    BY <1>1, <1>2, <2>2 DEF Kept, Context
  <2>3. QED
    BY <2>1, <2>2
<1>6. QED
  BY <1>1, <1>4, <1>5, AdvanceStep DEF Thread!Next

LEMMA SimInterrupt ==
  ASSUME NEW at \in {"plain", "cop2"}
  PROVE  IInv /\ Interrupt(at) => Thread!Next
<1> SUFFICES ASSUME IInv, Interrupt(at) PROVE Thread!Next
  OBVIOUS
<1>0. PICK c \in Slots : c = cur
  BY DEF IInv, TypeOK
<1>1. /\ c \in Slots /\ c = cur /\ mode = "thread" /\ mode' = "int" /\ cur' = c
      /\ cpu.sr \in Status /\ ThreadRuns
  BY <1>0 DEF Interrupt, IInv, TypeOK, ExceptionMasked, Cpu, ThreadRuns
<1>2. ResumePoint(at) \in Marks
  BY <1>1, MovedOn DEF ResumePoint
<1>3. /\ tcb'[c].regs = cpu.regs /\ tcb'[c].pc = ResumePoint(at) /\ tcb'[c].sr = Enter(cpu.sr)
      /\ \A u \in Slots : u # c => tcb'[u] = tcb[u]
  BY <1>1, <1>2, SavedContext DEF Interrupt, IInv
<1>4. ASSUME NEW t \in Slots \ {c} PROVE Kept(t)
  BY <1>1, <1>3 DEF Kept, Context
<1> DEFINE after == Context(c)'
<1>5. /\ after.regs = cpu.regs /\ after.pc = ResumePoint(at)
      /\ after = [regs |-> cpu.regs, pc |-> ResumePoint(at),
                  irq |-> Enter(cpu.sr).p /\ Enter(cpu.sr).im]
  BY <1>1, <1>3 DEF Context
<1>6. /\ Context(c).regs = cpu.regs /\ Context(c).pc = cpu.pc
      /\ Context(c) = [regs |-> cpu.regs, pc |-> cpu.pc, irq |-> cpu.sr.c /\ cpu.sr.im]
  BY <1>1, ContextInCpu
<1>7. CASE at = "cop2"
  <2>1. Moved(c)
    BY <1>7, <1>5, <1>6 DEF Moved, ResumePoint
  <2>2. QED
    BY <1>1, <1>4, <2>1, AdvanceStep DEF Thread!Next
<1>8. CASE at # "cop2"
  <2>1. (Enter(cpu.sr).p /\ Enter(cpu.sr).im) = (cpu.sr.c /\ cpu.sr.im)
    BY <1>1, SameIrq
  <2>2. ResumePoint(at) = cpu.pc
    BY <1>8 DEF ResumePoint
  <2>3. Kept(c)
    BY <1>5, <1>6, <2>1, <2>2 DEF Kept
  <2>4. QED
    BY <1>4, <2>3, PreemptStep DEF Thread!Next
<1>9. QED
  BY <1>7, <1>8

LEMMA SimHookEntryInt ==
  ASSUME NEW on \in BOOLEAN PROVE IInv /\ HookEntryInt(on) => Thread!Next
<1> SUFFICES ASSUME IInv, HookEntryInt(on) PROVE Thread!Next
  OBVIOUS
<1>1. CallReturns /\ UNCHANGED <<cur, mode>>
  BY DEF HookEntryInt, CallReturns
<1>2. ASSUME NEW t \in Slots, ~(mode = "thread" /\ t = cur) PROVE Kept(t)
  BY <1>2, KeptInTcb DEF HookEntryInt
<1>3. QED
  BY <1>1, <1>2, SimCall

LEMMA SimSetConf == ASSUME NEW n \in ConfSizes PROVE IInv /\ SetConf(n) => Thread!Reset
<1> SUFFICES ASSUME IInv, SetConf(n) PROVE Thread!Reset
  OBVIOUS
<1>0. PICK c \in Slots : c = cur
  BY DEF IInv, TypeOK
<1>1. 0 \in Slots /\ mode = "thread" /\ mode' = "thread" /\ cur' = 0 /\ tcb' = InitTcb
  BY SizesAssumption DEF Slots, SetConf, ThreadRuns
<1>2. cpu'.pc = Following(cpu.pc) /\ cpu'.regs = cpu.regs
  BY MovedOn DEF SetConf
<1>3. Thread!Later(Context(c), Context(0)')
  <2>1. Context(c).regs = cpu.regs /\ Context(c).pc = cpu.pc
    BY <1>0, <1>1, ContextInCpu
  <2>2. Context(0)'.regs = cpu'.regs /\ Context(0)'.pc = cpu'.pc
    BY <1>1 DEF Context
  <2>3. QED
    BY <1>2, <2>1, <2>2 DEF Thread!Later, Thread!Following, Following
<1>4. ASSUME NEW t \in Slots \ {0}
      PROVE  Thread!Fresh(t, Context(t)') /\ ~Context(t)'.irq
  <2>1. tcb'[t].regs = Start(t) /\ tcb'[t].pc = Start(t) /\ tcb'[t].sr = ZeroStatus
    BY <1>1 DEF InitTcb
  <2>2. ~ZeroStatus.p
    BY DEF ZeroStatus
  <2>3. /\ Context(t)'.regs = tcb'[t].regs /\ Context(t)'.pc = tcb'[t].pc
        /\ Context(t)'.irq = (tcb'[t].sr.p /\ tcb'[t].sr.im)
    BY <1>1 DEF Context
  <2>4. QED
    BY <2>1, <2>2, <2>3 DEF Thread!Fresh, Thread!Start, Start
<1>5. {t \in Slots : tcb'[t].status = "RESERVED"} = {0}
  BY <1>1 DEF InitTcb
<1>6. QED
  BY <1>0, <1>1, <1>3, <1>4, <1>5 DEF Thread!Reset

(* Syscalls and breakpoints that come straight back to the thread.         *)
LEMMA SimShortException ==
  ASSUME IInv, ThreadRuns, tcb' = Saved(cur, cpu.pc),
         cpu'.pc = Following(cpu.pc), cpu'.regs = cpu.regs, UNCHANGED <<cur, mode>>
  PROVE  Thread!Next
<1>0. PICK c \in Slots : c = cur
  BY DEF IInv, TypeOK
<1>1. \A u \in Slots : u # c => tcb'[u] = tcb[u]
  BY <1>0, MovedOn, SavedContext DEF IInv
<1>2. Moved(c)
  BY <1>0, MovedInCpu DEF ThreadRuns
<1>3. ASSUME NEW t \in Slots \ {c} PROVE Kept(t)
  BY <1>0, <1>1, KeptInTcb
<1>4. QED
  BY <1>0, <1>2, <1>3, AdvanceStep DEF Thread!Next

LEMMA SimCriticalSection ==
  ASSUME NEW on \in BOOLEAN PROVE IInv /\ CriticalSection(on) => Thread!Next
<1> SUFFICES ASSUME IInv, CriticalSection(on) PROVE Thread!Next
  OBVIOUS
<1>1. cpu \in Cpu
  BY DEF IInv, TypeOK
<1>2. cpu'.pc = Following(cpu.pc) /\ cpu'.regs = cpu.regs
  BY <1>1 DEF CriticalSection, Cpu
<1>3. QED
  BY <1>2, SimShortException DEF CriticalSection

LEMMA SimBreakpoint == IInv /\ Breakpoint => Thread!Next
<1> SUFFICES ASSUME IInv, Breakpoint PROVE Thread!Next
  OBVIOUS
<1>1. cpu \in Cpu
  BY DEF IInv, TypeOK
<1>2. cpu'.pc = Following(cpu.pc) /\ cpu'.regs = cpu.regs
  BY <1>1 DEF Breakpoint, Cpu
<1>3. QED
  BY <1>2, SimShortException DEF Breakpoint

LEMMA SimSyscall == IInv /\ Syscall => Thread!Next
<1> SUFFICES ASSUME IInv, Syscall PROVE Thread!Next
  OBVIOUS
<1>0. PICK c \in Slots : c = cur
  BY DEF IInv, TypeOK
<1>1. mode = "thread" /\ mode' = "syscall" /\ cur' = c /\ cpu.sr \in Status
  BY <1>0 DEF Syscall, ThreadRuns, IInv, TypeOK, Cpu
<1>2. /\ tcb'[c].regs = cpu.regs /\ tcb'[c].pc = cpu.pc /\ tcb'[c].sr = Enter(cpu.sr)
      /\ \A u \in Slots : u # c => tcb'[u] = tcb[u]
  BY <1>0, MovedOn, SavedContext DEF Syscall, IInv
<1>3. ASSUME NEW t \in Slots PROVE Kept(t)
  <2>1. CASE t = c
    <3>1. (Enter(cpu.sr).p /\ Enter(cpu.sr).im) = (cpu.sr.c /\ cpu.sr.im)
      BY <1>1, SameIrq
    <3>2. QED
      BY <1>0, <1>1, <1>2, <2>1, <3>1 DEF Kept, Context
  <2>2. CASE t # c
    BY <1>0, <1>1, <1>2, <2>2 DEF Kept, Context
  <2>3. QED
    BY <2>1, <2>2
<1>4. QED
  BY <1>3, PreemptStep DEF Thread!Next

(* The context of a thread that is resumed from its TCB.                   *)
LEMMA LoadedCurrent ==
  ASSUME IInv, NEW c \in Slots, c = cur
  PROVE  /\ Loaded(tcb, c) \in Cpu
         /\ Loaded(tcb, c).regs = tcb[c].regs /\ Loaded(tcb, c).pc = tcb[c].pc
         /\ (Loaded(tcb, c).sr.c /\ Loaded(tcb, c).sr.im) = (tcb[c].sr.p /\ tcb[c].sr.im)
<1>1. tcb \in [Slots -> Tcb] /\ tcb[c].sr \in Status
  BY DEF IInv, TypeOK, Tcb
<1>2. Loaded(tcb, c).sr = Rfe(tcb[c].sr)
  BY <1>1, LoadedContext DEF IInv
<1>3. (Loaded(tcb, c).sr.c /\ Loaded(tcb, c).sr.im) = (tcb[c].sr.p /\ tcb[c].sr.im)
  BY <1>1, <1>2, SameIrq
<1>4. QED
  BY <1>1, <1>3, LoadedContext DEF IInv

LEMMA SimReturnFromException == IInv /\ ReturnFromException => Thread!Next
<1> SUFFICES ASSUME IInv, ReturnFromException PROVE Thread!Next
  OBVIOUS
<1>0. PICK c \in Slots : c = cur
  BY DEF IInv, TypeOK
<1>1. /\ mode = "hook" /\ mode' = "thread" /\ cur' = c /\ tcb' = tcb
      /\ cpu' = Loaded(tcb, c)
  BY <1>0 DEF ReturnFromException
<1>2. ASSUME NEW t \in Slots PROVE Kept(t)
  BY <1>0, <1>1, LoadedCurrent DEF Kept, Context
<1>3. QED
  BY <1>2, PreemptStep DEF Thread!Next

LEMMA SimSyscallReturns == IInv /\ SyscallReturns => Thread!Next
<1> SUFFICES ASSUME IInv, SyscallReturns PROVE Thread!Next
  OBVIOUS
<1>0. PICK c \in Slots : c = cur
  BY DEF IInv, TypeOK
<1>1. /\ mode = "syscall" /\ mode' = "thread" /\ cur' = c /\ tcb' = tcb
      /\ cpu.epc = tcb[c].pc /\ cpu' = [Loaded(tcb, c) EXCEPT !.pc = Following(cpu.epc)]
  BY <1>0 DEF SyscallReturns, IInv, SyscallSaved
<1>2. cpu'.pc = Following(tcb[c].pc) /\ cpu'.regs = tcb[c].regs
  BY <1>0, <1>1, LoadedCurrent DEF Cpu
<1>3. Moved(c)
  <2>1. Context(c).regs = tcb[c].regs /\ Context(c).pc = tcb[c].pc
    BY <1>1 DEF Context
  <2>2. Context(c)'.regs = cpu'.regs /\ Context(c)'.pc = cpu'.pc
    BY <1>1 DEF Context
  <2>3. QED
    BY <1>2, <2>1, <2>2 DEF Moved
<1>4. ASSUME NEW t \in Slots \ {c} PROVE Kept(t)
  BY <1>0, <1>1 DEF Kept, Context
<1>5. QED
  BY <1>0, <1>3, <1>4, AdvanceStep DEF Thread!Next

(* Exceptions are served without touching a context.                       *)
LEMMA SimServed ==
  ASSUME mode # "thread", mode' # "thread", UNCHANGED tcb
  PROVE  Thread!Next
<1>1. ASSUME NEW t \in Slots PROVE Kept(t)
  BY DEF Kept, Context
<1>2. QED
  BY <1>1, PreemptStep DEF Thread!Next

LEMMA SimInit == Init => Thread!Init
<1> SUFFICES ASSUME Init PROVE Thread!Init
  OBVIOUS
<1>1. 0 \in Slots /\ mode = "thread" /\ cur = 0 /\ tcb = InitTcb
  BY SizesAssumption DEF Slots, Init
<1>2. ASSUME NEW t \in Slots PROVE Thread!Fresh(t, Context(t)) /\ ~Context(t).irq
  <2>1. tcb[t].regs = Start(t) /\ tcb[t].pc = Start(t) /\ tcb[t].sr = ZeroStatus
    BY <1>1 DEF InitTcb
  <2>2. ~ZeroStatus.p /\ ~ZeroStatus.c
    BY DEF ZeroStatus
  <2>3. cpu.regs = Start(0) /\ cpu.pc = Start(0) /\ cpu.sr = ZeroStatus
    BY DEF Init
  <2>4. CASE t = 0
    <3>1. /\ Context(t).regs = cpu.regs /\ Context(t).pc = cpu.pc
          /\ Context(t).irq = (cpu.sr.c /\ cpu.sr.im)
      BY <1>1, <2>4 DEF Context
    <3>2. QED
      BY <2>2, <2>3, <2>4, <3>1 DEF Thread!Fresh, Thread!Start, Start
  <2>5. CASE t # 0
    <3>1. /\ Context(t).regs = tcb[t].regs /\ Context(t).pc = tcb[t].pc
          /\ Context(t).irq = (tcb[t].sr.p /\ tcb[t].sr.im)
      BY <1>1, <2>5 DEF Context
    <3>2. QED
      BY <2>1, <2>2, <3>1 DEF Thread!Fresh, Thread!Start, Start
  <2>6. QED
    BY <2>4, <2>5
<1>3. {t \in Slots : tcb[t].status = "RESERVED"} = {0}
  BY <1>1 DEF InitTcb
<1>4. QED
  BY <1>1, <1>2, <1>3 DEF Thread!Init

LEMMA SimNext == IInv /\ [Next]_vars => [Thread!Next]_(Thread!vars)
<1> SUFFICES ASSUME IInv, [Next]_vars PROVE Thread!Next \/ UNCHANGED Thread!vars
  OBVIOUS
<1>1. ASSUME NEW t \in Slots, SwitchThread(t) PROVE Thread!Next
  <2>1. mode # "thread"
    BY <1>1, SizesAssumption DEF SwitchThread
  <2>2. QED
    BY <1>1, <2>1, SimServed DEF SwitchThread
<1>2. CASE InterruptToHook
  BY <1>2, SimServed DEF InterruptToHook
<1>3. CASE UNCHANGED vars
  BY <1>3 DEF vars, Thread!vars, Context
<1>4. ASSUME NEW n \in ConfSizes, SetConf(n) PROVE Thread!Next
  BY <1>4, SimSetConf DEF Thread!Next
<1>5. QED
  BY <1>1, <1>2, <1>3, <1>4, SimWork, SimOpenTh, SimCloseTh, SimChangeTh,
     SimHookEntryInt, SimCriticalSection, SimInterrupt, SimReturnFromException,
     SimSyscall, SimSyscallReturns, SimBreakpoint
  DEF Next

(* Threads are coroutines: a thread that runs again, after interrupts,     *)
(* syscalls and switches in handlers, finds its registers, its program     *)
(* counter and its interrupt enable as it left them.                       *)
THEOREM ThreadsAreCoroutines == Spec => CoroutineSpec
  BY InvInit, InvNext, SimInit, SimNext, PTL DEF Spec, CoroutineSpec, Thread!Spec
=============================================================================
