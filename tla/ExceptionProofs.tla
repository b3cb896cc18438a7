--------------------------- MODULE ExceptionProofs ---------------------------
(***************************************************************************)
(* Theorems about what psxBiosException80 does: about Interrupts, for any  *)
(* sources, buffers and pads, and about IntChains, for any number of       *)
(* chains and elements.                                                    *)
(***************************************************************************)
EXTENDS Interrupts, IntChainsRefinement, FunctionTheorems, FiniteSetTheorems,
        SequenceTheorems, TLAPS

(* The buffers the pads are polled into are those that were named last.    *)
PadsNamed == asked = {pads.buf, pads.buf1, pads.buf2} \ {0}

(* While an exception is served, the status below it, in the CPU and in    *)
(* the TCB, has the interrupts enabled: the program had them.              *)
EnabledBelow == stage # "program" => sr.p /\ sr.im /\ tcbSr.p /\ tcbSr.im

IInv == TypeOK /\ ServedInOrder /\ TickPending /\ PadsNamed /\ EnabledBelow
-----------------------------------------------------------------------------
(* Root counters and their bits.                                           *)
LEMMA Counters ==
  /\ \A k \in 0 .. 3 : Source(k) \in Sources
  /\ \A k, m \in 0 .. 3 : Source(k) = Source(m) => k = m
  /\ \A m \in 1 .. 4 : Order[m] \in 0 .. 3
  /\ \A m, n \in 1 .. 4 : Order[m] = Order[n] => m = n
BY DEF Source, Sources, Order

(* What Serve leaves.                                                      *)
LEMMA ServeInOrder ==
  ASSUME NEW k \in 0 .. 4, NEW d \in SUBSET Sources, NEW s \in Seq(0 .. 3),
         ServedUpTo(k, d, s), Serve(k, d, s)
  PROVE  /\ stage' \in {"event", "chains"} /\ at' \in 0 .. 4
         /\ stage' = "event" <=> at' # 0
         /\ served' \in Seq(0 .. 3)
         /\ stage' = "event" => ServedUpTo(at', d, served')
         /\ stage' = "chains" => ServedUpTo(4, d, served')
         /\ \A n \in 1 .. Len(served') : Source(served'[n]) \in d
<1> DEFINE ahead == {m \in k + 1 .. 4 : Source(Order[m]) \in d}
<1>1. CASE ahead = {} /\ stage' = "chains" /\ at' = 0 /\ served' = s
  <2>1. ServedUpTo(4, d, s)
    <3>1. \A m \in 1 .. 4 : Source(Order[m]) \in d => m \in 1 .. k
      BY <1>1
    <3>2. \A m \in 1 .. k : m \in 1 .. 4
      OBVIOUS
    <3>3. ASSUME NEW m \in 1 .. 4
          PROVE  Source(Order[m]) \in d <=> \E n \in 1 .. Len(s) : s[n] = Order[m]
      <4>1. CASE m \in 1 .. k
        BY <4>1 DEF ServedUpTo
      <4>2. CASE m \notin 1 .. k
        BY <3>1, <3>2, <4>2, Counters DEF ServedUpTo
      <4> QED BY <4>1, <4>2
    <3>4. \A n \in 1 .. Len(s) : \E m \in 1 .. 4 : s[n] = Order[m]
      BY <3>2 DEF ServedUpTo
    <3>5. \A n, o \in 1 .. Len(s) : n < o =>
            \E m, p \in 1 .. 4 : m < p /\ s[n] = Order[m] /\ s[o] = Order[p]
      BY <3>2 DEF ServedUpTo
    <3> QED BY <3>3, <3>4, <3>5 DEF ServedUpTo
  <2>2. \A n \in 1 .. Len(s) : Source(s[n]) \in d
    BY DEF ServedUpTo
  <2> QED BY <1>1, <2>1, <2>2
<1>2. CASE \E m \in ahead : /\ \A l \in ahead : m <= l
                            /\ stage' = "event" /\ at' = m /\ served' = Append(s, Order[m])
  <2>1. PICK m \in ahead : /\ \A o \in ahead : m <= o
                           /\ stage' = "event" /\ at' = m /\ served' = Append(s, Order[m])
    BY <1>2
  <2>2. m \in 1 .. 4 /\ k < m /\ Source(Order[m]) \in d /\ Order[m] \in 0 .. 3
    BY <2>1, Counters
  <2> DEFINE t == Append(s, Order[m])
  <2>3. /\ t \in Seq(0 .. 3) /\ Len(t) = Len(s) + 1 /\ t[Len(s) + 1] = Order[m]
        /\ \A n \in 1 .. Len(s) : t[n] = s[n]
    BY <2>2
  <2>4. Len(s) \in Nat
    OBVIOUS
  <2> HIDE DEF t
  <2>5. ASSUME NEW o \in 1 .. m
        PROVE  Source(Order[o]) \in d <=> \E n \in 1 .. Len(t) : t[n] = Order[o]
    <3>1. CASE o <= k
      <4>1. o \in 1 .. k /\ o # m /\ Order[o] # Order[m]
        BY <2>2, <3>1, Counters
      <4>2. (\E n \in 1 .. Len(t) : t[n] = Order[o]) <=> \E n \in 1 .. Len(s) : s[n] = Order[o]
        BY <2>3, <2>4, <4>1
      <4> QED BY <4>1, <4>2 DEF ServedUpTo
    <3>2. CASE k < o /\ o < m
      <4>1. o \in 1 .. 4 /\ Source(Order[o]) \notin d
        BY <2>1, <2>2, <3>2
      <4>2. \A n \in 1 .. Len(s) : s[n] # Order[o]
        <5>1. \A n \in 1 .. Len(s) : \E p \in 1 .. k : s[n] = Order[p]
          BY DEF ServedUpTo
        <5>2. \A p \in 1 .. k : Order[p] # Order[o]
          BY <3>2, <4>1, Counters
        <5> QED BY <5>1, <5>2
      <4>3. Order[o] # Order[m]
        BY <2>2, <3>2, <4>1, Counters
      <4> QED BY <2>3, <2>4, <4>1, <4>2, <4>3
    <3>3. CASE o = m
      BY <2>2, <2>3, <2>4, <3>3
    <3> QED BY <2>2, <3>1, <3>2, <3>3
  <2>6. ASSUME NEW n \in 1 .. Len(t)
        PROVE  \/ n \in 1 .. Len(s) /\ t[n] = s[n] /\ \E p \in 1 .. k : s[n] = Order[p]
               \/ n = Len(s) + 1 /\ t[n] = Order[m]
    BY <2>3, <2>4 DEF ServedUpTo
  <2>7. \A p \in 1 .. k : p \in 1 .. m /\ p < m
    BY <2>2
  <2>8. \A n \in 1 .. Len(t) : \E p \in 1 .. m : t[n] = Order[p]
    BY <2>2, <2>6, <2>7
  <2>9. ASSUME NEW n \in 1 .. Len(t), NEW o \in 1 .. Len(t), n < o
        PROVE  \E p, q \in 1 .. m : p < q /\ t[n] = Order[p] /\ t[o] = Order[q]
    <3>1. n \in 1 .. Len(s) /\ t[n] = s[n]
      BY <2>3, <2>4, <2>9
    <3>2. CASE o = Len(s) + 1
      BY <2>2, <2>6, <2>7, <3>1, <3>2
    <3>3. CASE o \in 1 .. Len(s)
      <4>1. t[o] = s[o]
        BY <2>3, <3>3
      <4>2. PICK p \in 1 .. k, q \in 1 .. k : p < q /\ s[n] = Order[p] /\ s[o] = Order[q]
        BY <2>9, <3>1, <3>3 DEF ServedUpTo
      <4> QED BY <2>7, <3>1, <4>1, <4>2
    <3>4. o = Len(s) + 1 \/ o \in 1 .. Len(s)
      <4>1. Len(t) = Len(s) + 1
        BY <2>3
      <4> QED BY <2>4, <4>1
    <3> QED BY <3>2, <3>3, <3>4
  <2>10. ServedUpTo(m, d, t)
    BY <2>5, <2>8, <2>9 DEF ServedUpTo
  <2>11. \A n \in 1 .. Len(t) : Source(t[n]) \in d
    BY <2>2, <2>6 DEF ServedUpTo
  <2> QED BY <2>1, <2>2, <2>3, <2>10, <2>11 DEF t
<1> QED BY <1>1, <1>2 DEF Serve

-----------------------------------------------------------------------------
LEMMA InitInv == Init => IInv
BY DEF Init, IInv, TypeOK, ServedInOrder, TickPending, PadsNamed, EnabledBelow,
       Stages, Status, Ticks, NoPads, Sources

(* Guest code calls, registers change: nothing of the exception does.      *)
LEMMA RegisterSteps ==
  ASSUME IInv, NEW s \in Sources, Rise(s) \/ Acknowledge(s)
  PROVE  IInv'
<1>1. /\ UNCHANGED <<imask, calls, sr, exception>>
      /\ istat' \subseteq Sources /\ tick' \in [Sources -> Ticks]
      /\ \A t \in Sources : t \in istat' <=> tick'[t] \in {"new", "left"}
  BY DEF IInv, TypeOK, TickPending, Rise, Acknowledge, Ticks
<1>2. TypeOK' /\ TickPending'
  BY <1>1 DEF IInv, TypeOK, TickPending, calls, exception
<1>3. ServedInOrder' /\ PadsNamed' /\ EnabledBelow'
  BY <1>1 DEF IInv, ServedInOrder, ServedUpTo, PadsNamed, EnabledBelow, calls, exception
<1> QED BY <1>2, <1>3 DEF IInv

LEMMA CallSteps ==
  ASSUME IInv,
         UNCHANGED <<istat, tick, stage, at, due, served>>,
         imask' \subseteq Sources, autoAck' \in [0 .. 3 -> BOOLEAN],
         jmpInt' \in BOOLEAN, sr' \in Status, tcbSr' \in Status,
         pads' \in [started : BOOLEAN, buf : Nat, buf1 : Nat, buf2 : Nat],
         PadsNamed', stage # "program" => UNCHANGED <<sr, tcbSr>>
  PROVE  IInv'
<1>1. TypeOK'
  BY DEF IInv, TypeOK, PadsNamed
<1>2. ServedInOrder' /\ TickPending' /\ EnabledBelow'
  BY DEF IInv, ServedInOrder, ServedUpTo, TickPending, EnabledBelow
<1> QED BY <1>1, <1>2 DEF IInv

LEMMA CallsInv == ASSUME IInv, Calls PROVE IInv'
<1> USE DEF calls, registers, exception, PadCall
<1>1. ASSUME NEW n \in Timers, StartRCnt(n) \/ StopRCnt(n) PROVE IInv'
  <2>1. Source(n) \in Sources
    BY Counters, ArgumentsAssumption
  <2> QED BY <1>1, <2>1, CallSteps DEF StartRCnt, StopRCnt, IInv, TypeOK, PadsNamed
<1>2. ASSUME NEW n \in Timers, NEW on \in BOOLEAN, ChangeClearRCnt(n, on) PROVE IInv'
  BY <1>2, CallSteps DEF ChangeClearRCnt, IInv, TypeOK, PadsNamed
<1>3. ASSUME NEW on \in BOOLEAN, CriticalSection(on) PROVE IInv'
  <2>1. sr' \in Status /\ tcbSr' \in Status
    BY <1>3 DEF CriticalSection, Enter, Rfe, Status, IInv, TypeOK
  <2> QED BY <1>3, <2>1, CallSteps DEF CriticalSection, IInv, TypeOK, PadsNamed
<1>4. ASSUME NEW on \in BOOLEAN, InitCARD(on) PROVE IInv'
  BY <1>4, CallSteps DEF InitCARD, IInv, TypeOK, PadsNamed
<1>5. ASSUME NEW on \in BOOLEAN, HookEntryInt(on) PROVE IInv'
  BY <1>5, CallSteps DEF HookEntryInt, IInv, TypeOK, PadsNamed
<1>6. ASSUME NEW b1 \in PortBuffers, NEW b2 \in PortBuffers, InitPAD(b1, b2) PROVE IInv'
  <2>1. b1 \in Nat /\ b2 \in Nat
    BY ArgumentsAssumption
  <2> QED BY <1>6, <2>1, CallSteps DEF InitPAD, IInv, TypeOK, PadsNamed
<1>7. ASSUME NEW b \in WordBuffers, PAD_init(b) PROVE IInv'
  <2>1. b \in Nat /\ b # 0
    BY ArgumentsAssumption
  <2>2. sr' \in Status /\ "vsync" \in Sources
    BY <1>7 DEF PAD_init, Status, Sources, IInv, TypeOK
  <2> QED BY <1>7, <2>1, <2>2, CallSteps DEF PAD_init, IInv, TypeOK, PadsNamed
<1>8. CASE InitRCnt
  BY <1>8, CallSteps DEF InitRCnt, IInv, TypeOK, PadsNamed
<1>9. CASE StartPAD
  <2>1. sr' \in Status /\ "vsync" \in Sources
    BY <1>9 DEF StartPAD, Status, Sources, IInv, TypeOK
  <2> QED BY <1>9, <2>1, CallSteps DEF StartPAD, IInv, TypeOK, PadsNamed
<1>10. CASE StopPAD
  BY <1>10, CallSteps DEF StopPAD, IInv, TypeOK, PadsNamed
<1> QED BY <1>1, <1>2, <1>3, <1>4, <1>5, <1>6, <1>7, <1>8, <1>9, <1>10 DEF Calls
-----------------------------------------------------------------------------
(* The steps of the kernel.                                                *)
LEMMA InterruptInv == ASSUME IInv, Interrupt PROVE IInv'
<1> USE DEF registers
<1>1. sr' \in Status /\ sr'.p /\ sr'.im /\ tcbSr' = sr'
  BY DEF Interrupt, Enter, Status, IInv, TypeOK
<1>2. TypeOK' /\ EnabledBelow'
  BY <1>1 DEF Interrupt, IInv, TypeOK, EnabledBelow, Stages
<1>3. ServedInOrder' /\ TickPending' /\ PadsNamed'
  BY DEF Interrupt, IInv, ServedInOrder, TickPending, PadsNamed
<1> QED BY <1>2, <1>3 DEF IInv

(* What Seen leaves of a tick.                                             *)
LEMMA SeenPending ==
  ASSUME NEW t \in [Sources -> Ticks], NEW bits,
         \A s \in Sources : s \in bits <=> t[s] \in {"new", "left"}
  PROVE  /\ Seen(t) \in [Sources -> Ticks]
         /\ \A s \in Sources : s \in bits <=> Seen(t)[s] \in {"new", "left"}
BY DEF Seen, Ticks

LEMMA biosInterruptInv == ASSUME IInv, biosInterrupt PROVE IInv'
<1> USE DEF registers
<1>1. due' \in SUBSET Sources
  BY DEF biosInterrupt, Pending, IInv, TypeOK
<1>2. ServedUpTo(0, due', <<>>)
  BY DEF ServedUpTo
<1>3. /\ stage' \in {"event", "chains"} /\ at' \in 0 .. 4
      /\ stage' = "event" <=> at' # 0
      /\ served' \in Seq(0 .. 3)
      /\ stage' = "event" => ServedUpTo(at', due', served')
      /\ stage' = "chains" => ServedUpTo(4, due', served')
      /\ \A n \in 1 .. Len(served') : Source(served'[n]) \in due'
  <2> DEFINE none == <<>>
  <2>1. Serve(0, due', none) /\ none \in Seq(0 .. 3) /\ 0 \in 0 .. 4
    BY DEF biosInterrupt
  <2>2. ServedUpTo(0, due', none)
    BY <1>2
  <2> HIDE DEF none
  <2> QED BY <1>1, <2>1, <2>2, ServeInOrder
<1>4. tick' \in [Sources -> Ticks] /\ TickPending'
  BY SeenPending DEF biosInterrupt, IInv, TypeOK, TickPending
<1>5. TypeOK' /\ ServedInOrder'
  BY <1>1, <1>3, <1>4 DEF biosInterrupt, IInv, TypeOK, ServedInOrder, Stages
<1>6. PadsNamed' /\ EnabledBelow'
  BY <1>3 DEF biosInterrupt, IInv, PadsNamed, EnabledBelow
<1> QED BY <1>4, <1>5, <1>6 DEF IInv

LEMMA EventReturnsInv == ASSUME IInv, EventReturns PROVE IInv'
<1> USE DEF registers, calls
<1>1. at \in 1 .. 4 /\ Order[at] \in 0 .. 3 /\ Source(Order[at]) \in Sources
  BY Counters DEF EventReturns, IInv, TypeOK
<1>2. /\ stage' \in {"event", "chains"} /\ at' \in 0 .. 4
      /\ stage' = "event" <=> at' # 0
      /\ served' \in Seq(0 .. 3)
      /\ stage' = "event" => ServedUpTo(at', due, served')
      /\ stage' = "chains" => ServedUpTo(4, due, served')
      /\ \A n \in 1 .. Len(served') : Source(served'[n]) \in due
  <2>1. /\ Serve(at, due, served) /\ served \in Seq(0 .. 3) /\ due \in SUBSET Sources
        /\ ServedUpTo(at, due, served) /\ at \in 0 .. 4
    BY DEF EventReturns, IInv, TypeOK, ServedInOrder
  <2> QED BY <2>1, ServeInOrder
<1>3. tick' \in [Sources -> Ticks] /\ TickPending' /\ istat' \subseteq Sources
  <2>1. /\ Settled(Order[at]) \in [Sources -> Ticks]
        /\ \A s \in Sources :
             s \in istat' <=> Settled(Order[at])[s] \in {"new", "left"}
    BY <1>1 DEF EventReturns, AutoAcked, Settled, IInv, TypeOK, TickPending, Ticks
  <2> QED BY <2>1, SeenPending, SMTT(30) DEF EventReturns, IInv, TypeOK, TickPending
<1>4. TypeOK' /\ ServedInOrder'
  BY <1>2, <1>3 DEF EventReturns, IInv, TypeOK, ServedInOrder, Stages
<1>5. PadsNamed' /\ EnabledBelow'
  BY <1>2 DEF EventReturns, IInv, PadsNamed, EnabledBelow
<1> QED BY <1>3, <1>4, <1>5 DEF IInv

LEMMA WaysBackInv ==
  ASSUME IInv, ToHook \/ ReturnFromException \/ ReturnToEpc
  PROVE  IInv'
<1> USE DEF registers, calls
<1>1. <<>> \in Seq(0 .. 3) /\ Len(<<>>) = 0
  OBVIOUS
<1>2. CASE ToHook
  BY <1>1, <1>2 DEF ToHook, IInv, TypeOK, ServedInOrder, TickPending, PadsNamed,
                    EnabledBelow, Stages
<1>3. CASE ReturnFromException
  <2>1. sr' \in Status
    BY <1>3 DEF ReturnFromException, Rfe, Status, IInv, TypeOK
  <2> QED BY <1>3, <2>1 DEF ReturnFromException, IInv, TypeOK, ServedInOrder,
                            TickPending, PadsNamed, EnabledBelow, Stages
<1>4. CASE ReturnToEpc
  <2>1. sr' \in Status
    BY <1>4 DEF ReturnToEpc, Rfe, Status, IInv, TypeOK
  <2>2. tick' \in [Sources -> Ticks] /\ TickPending'
    BY <1>4 DEF ReturnToEpc, IInv, TypeOK, TickPending, Ticks
  <2> QED BY <1>1, <1>4, <2>1, <2>2 DEF ReturnToEpc, IInv, TypeOK, ServedInOrder,
                                        PadsNamed, EnabledBelow, Stages
<1> QED BY <1>2, <1>3, <1>4

LEMMA NextInv == IInv /\ [Next]_vars => IInv'
<1> SUFFICES ASSUME IInv, [Next]_vars PROVE IInv'
  OBVIOUS
<1>1. CASE Kernel
  BY <1>1, InterruptInv, biosInterruptInv, EventReturnsInv, WaysBackInv DEF Kernel
<1>2. CASE Calls
  BY <1>2, CallsInv
<1>3. ASSUME NEW s \in Rising, Rise(s) \/ Acknowledge(s) PROVE IInv'
  BY <1>3, RegisterSteps, ArgumentsAssumption
<1>4. CASE UNCHANGED vars
  <2> USE <1>4 DEF vars, registers, exception
  <2>1. TypeOK'
    BY DEF IInv, TypeOK
  <2>2. ServedInOrder'
    BY DEF IInv, ServedInOrder, ServedUpTo
  <2>3. TickPending' /\ PadsNamed' /\ EnabledBelow'
    BY DEF IInv, TickPending, PadsNamed, EnabledBelow
  <2> QED BY <2>1, <2>2, <2>3 DEF IInv
<1> QED BY <1>1, <1>2, <1>3, <1>4 DEF Next

LEMMA Inductive == Spec => []IInv
BY InitInv, NextInv, PTL DEF Spec
-----------------------------------------------------------------------------
(* An interrupt delivers the events of exactly the root counters that were *)
(* due when it began, each once and in their order, whatever callbacks     *)
(* acknowledge, mask or start in between; every variable keeps its type.   *)
THEOREM EventsServedAsDue == Spec => []EventsAsDue
<1>1. IInv => EventsAsDue
  BY DEF IInv, EventsAsDue
<1> QED BY <1>1, Inductive, PTL

(* A bit of I_STAT is set exactly until its last tick is acknowledged: the *)
(* kernel takes no tick away but by auto-acknowledge and on the way back   *)
(* without a hook.                                                         *)
THEOREM TicksStayPending == Spec => []TickPending
<1>1. IInv => TickPending
  BY DEF IInv
<1> QED BY <1>1, Inductive, PTL

(* Pads are polled exactly into the buffers the last InitPAD or PAD_init   *)
(* named, and never beyond 34 bytes, whatever they identify themselves as. *)
THEOREM PadsWrittenWhereAsked == Spec => []PadsWrittenAsAsked
<1>1. ASSUME IInv PROVE PadsWrittenAsAsked
  <2> SUFFICES ASSUME NEW id1 \in PadIds, NEW id2 \in PadIds
               PROVE  LET writes == Poll(<<id1, id2>>) IN
                        /\ {w.buf : w \in writes} = (IF pads.started THEN asked ELSE {})
                        /\ \A w \in writes : w.len <= 34
    BY DEF PadsWrittenAsAsked
  <2>1. ASSUME NEW b, NEW port, NEW id \in 0 .. 255
        PROVE  PADpoll(b, port, id).buf = b /\ PADpoll(b, port, id).len <= 34
    BY DEF PADpoll, Write
  <2>2. Write(pads.buf, {0, 1}, 4).buf = pads.buf /\ Write(pads.buf, {0, 1}, 4).len <= 34
    BY DEF Write
  <2>3. id1 \in 0 .. 255 /\ id2 \in 0 .. 255
    BY ArgumentsAssumption
  <2> DEFINE word == Write(pads.buf, {0, 1}, 4)
             port1 == PADpoll(pads.buf1, 0, id1)
             port2 == PADpoll(pads.buf2, 1, id2)
             writes == {w \in {word, port1, port2} : w.buf # 0}
  <2>4. /\ word.buf = pads.buf /\ port1.buf = pads.buf1 /\ port2.buf = pads.buf2
        /\ word.len <= 34 /\ port1.len <= 34 /\ port2.len <= 34
    BY <2>1, <2>2, <2>3, ZenonT(60)
  <2>5. Poll(<<id1, id2>>) = IF pads.started THEN writes ELSE {}
    BY DEF Poll
  <2> HIDE DEF word, port1, port2
  <2>6. {w.buf : w \in writes} = {pads.buf, pads.buf1, pads.buf2} \ {0}
    BY <2>4
  <2>7. \A w \in writes : w.len <= 34
    BY <2>4
  <2> QED BY <1>1, <2>5, <2>6, <2>7 DEF IInv, PadsNamed
<1> QED BY <1>1, Inductive, PTL

(* An interrupt gives the program back with interrupts enabled, through    *)
(* the hook and without one, after any calls of the guest code it ran.     *)
THEOREM InterruptsLeaveEnabled == Spec => InterruptsStayEnabled
<1>1. ASSUME IInv, [Next]_vars
      PROVE  [stage' = "program" /\ stage # "program" => sr'.c /\ sr'.im]_vars
  <2> USE DEF registers, calls, exception, PadCall
  <2> SUFFICES ASSUME Next, stage' = "program", stage # "program" PROVE sr'.c /\ sr'.im
    BY <1>1 DEF vars
  <2>1. sr.p /\ sr.im /\ tcbSr.p /\ tcbSr.im
    BY <1>1 DEF IInv, EnabledBelow
  <2>2. CASE Kernel
    BY <2>1, <2>2 DEF Kernel, Interrupt, biosInterrupt, EventReturns, Serve, ToHook,
                      ReturnFromException, ReturnToEpc, Rfe
  <2>3. CASE Calls
    BY <2>3 DEF Calls, StartRCnt, StopRCnt, ChangeClearRCnt, CriticalSection, InitCARD,
                HookEntryInt, InitPAD, PAD_init, InitRCnt, StartPAD, StopPAD
  <2>4. ASSUME NEW s \in Rising, Rise(s) \/ Acknowledge(s) PROVE FALSE
    BY <2>4 DEF Rise, Acknowledge
  <2> QED BY <2>2, <2>3, <2>4 DEF Next
<1> QED BY <1>1, Inductive, PTL DEF Spec, InterruptsStayEnabled
-----------------------------------------------------------------------------
(* What the walk owes is still ahead of it, and still in its chain; what   *)
(* it served is behind.                                                    *)
Walk ==
  /\ owed \subseteq Ahead /\ owed \subseteq Path(next, heads[chain])
  /\ visited \cap Ahead = {}

ChainsInv == ChainsTypeOK /\ ChainsEnd /\ Walk
-----------------------------------------------------------------------------
(* Lemmas on paths.                                                        *)

LEMMA PathLeast ==
  ASSUME NEW nx, NEW h, NEW S \in SUBSET Elements, h \in S \cup {Nil}, Closed(nx, S)
  PROVE  Path(nx, h) \subseteq S
  BY DEF Path

LEMMA PathClosed ==
  ASSUME NEW nx \in [Elements -> Links], NEW h \in Links
  PROVE  /\ Path(nx, h) \subseteq Elements
         /\ Closed(nx, Path(nx, h))
         /\ h \in Path(nx, h) \cup {Nil}
<1>1. ASSUME NEW x \in Path(nx, h) PROVE nx[x] \in Path(nx, h) \cup {Nil}
  <2>1. x \in Elements /\ nx[x] \in Links
    BY DEF Path
  <2>2. ASSUME nx[x] # Nil, NEW S \in SUBSET Elements, h \in S \cup {Nil}, Closed(nx, S)
        PROVE  nx[x] \in S
    <3>1. x \in S
      BY <2>2, PathLeast
    <3>2. QED
      BY <2>2, <3>1 DEF Closed
  <2>3. QED
    BY <2>1, <2>2 DEF Path, Links
<1>2. h \in Path(nx, h) \cup {Nil}
  BY DEF Path, Links
<1>3. QED
  BY <1>1, <1>2 DEF Closed, Path

LEMMA PathNil ==
  ASSUME NEW nx
  PROVE  Path(nx, Nil) = {}
<1>1. Closed(nx, {})
  BY DEF Closed
<1>2. QED
  BY <1>1, PathLeast

(* A path from inside another one is part of it.                           *)
LEMMA PathInner ==
  ASSUME NEW nx \in [Elements -> Links], NEW h \in Links,
         NEW x \in Path(nx, h) \cup {Nil}
  PROVE  Path(nx, x) \subseteq Path(nx, h)
  BY PathClosed, PathLeast

LEMMA PathStep ==
  ASSUME NEW nx \in [Elements -> Links], NEW h \in Elements
  PROVE  Path(nx, h) = {h} \cup Path(nx, nx[h])
<1> DEFINE S == {h} \cup Path(nx, nx[h])
<1>1. h \in Links /\ nx[h] \in Links /\ h # Nil
  BY ChainsAssumption DEF Links
<1>2. /\ Path(nx, nx[h]) \subseteq Elements
      /\ Closed(nx, Path(nx, nx[h]))
      /\ nx[h] \in Path(nx, nx[h]) \cup {Nil}
  BY <1>1, PathClosed
<1>3. Closed(nx, S)
  BY <1>2 DEF Closed
<1>4. Path(nx, h) \subseteq S
  <2>1. S \in SUBSET Elements /\ h \in S \cup {Nil}
    BY <1>2
  <2> HIDE DEF S
  <2>2. QED
    BY <1>3, <2>1, PathLeast
<1>5. h \in Path(nx, h) /\ nx[h] \in Path(nx, h) \cup {Nil}
  <2>1. h \in Path(nx, h) /\ Closed(nx, Path(nx, h))
    BY <1>1, PathClosed
  <2>2. QED
    BY <2>1 DEF Closed
<1>6. Path(nx, nx[h]) \subseteq Path(nx, h)
  BY <1>1, <1>5, PathInner
<1>7. QED
  BY <1>4, <1>5, <1>6

(* A path depends on the links of its own elements only.                   *)
LEMMA PathSame ==
  ASSUME NEW nx \in [Elements -> Links], NEW new \in [Elements -> Links], NEW h \in Links,
         \A x \in Path(nx, h) : new[x] = nx[x]
  PROVE  Path(new, h) = Path(nx, h)
<1> DEFINE P == Path(nx, h)
           Q == Path(new, h)
<1>1. P \subseteq Elements /\ Closed(nx, P) /\ h \in P \cup {Nil}
  BY PathClosed
<1>2. Q \subseteq Elements /\ Closed(new, Q) /\ h \in Q \cup {Nil}
  BY PathClosed
<1>3. Closed(new, P)
  BY <1>1 DEF Closed
<1>4. Q \subseteq P
  BY <1>1, <1>3, PathLeast
<1>5. Closed(nx, Q)
  BY <1>2, <1>4 DEF Closed
<1>6. P \subseteq Q
  BY <1>2, <1>5, PathLeast
<1>7. QED
  BY <1>4, <1>6

(* Linking an element that is on no path changes no path.                  *)
LEMMA PathLink ==
  ASSUME NEW nx \in [Elements -> Links], NEW e \in Elements, NEW l \in Links,
         NEW h \in Links, e \notin Path(nx, h)
  PROVE  Path([nx EXCEPT ![e] = l], h) = Path(nx, h)
<1>1. PICK new \in [Elements -> Links] :
        new = [nx EXCEPT ![e] = l] /\ \A x \in Elements : x # e => new[x] = nx[x]
  OBVIOUS
<1>2. \A x \in Path(nx, h) : new[x] = nx[x]
  BY <1>1, PathClosed
<1>3. Path(new, h) = Path(nx, h)
  BY <1>2, PathSame
<1>4. QED
  BY <1>1, <1>3, Zenon

(* Links to e are led past it: every path loses e, or stays as it is.      *)
Bypasses(nx, new, e) ==
  /\ nx \in [Elements -> Links] /\ new \in [Elements -> Links] /\ e \in Elements
  /\ \A x \in Elements : new[x] = nx[x] \/ (nx[x] = e /\ new[x] = nx[e])

LEMMA PathBypass ==
  ASSUME NEW nx, NEW new, NEW e, Bypasses(nx, new, e), NEW h \in Links
  PROVE  Path(new, h) \subseteq Path(nx, h) /\ Path(nx, h) \subseteq Path(new, h) \cup {e}
<1> DEFINE P == Path(nx, h)
           Q == Path(new, h)
<1>1. P \subseteq Elements /\ Closed(nx, P) /\ h \in P \cup {Nil}
  BY PathClosed DEF Bypasses
<1>2. Q \subseteq Elements /\ Closed(new, Q) /\ h \in Q \cup {Nil}
  BY PathClosed DEF Bypasses
<1> HIDE DEF P, Q
<1>3. Closed(new, P)
  <2>1. ASSUME NEW x \in P PROVE new[x] \in P \cup {Nil}
    <3>1. x \in Elements /\ nx[x] \in P \cup {Nil}
      BY <1>1 DEF Closed
    <3>2. CASE new[x] = nx[x]
      BY <3>1, <3>2
    <3>3. CASE nx[x] = e /\ new[x] = nx[e]
      <4>1. e \in P
        BY <3>1, <3>3, ChainsAssumption DEF Bypasses
      <4>2. QED
        BY <1>1, <3>3, <4>1 DEF Closed
    <3>4. QED
      BY <3>1, <3>2, <3>3 DEF Bypasses
  <2>2. QED
    BY <2>1 DEF Closed
<1>4. Q \subseteq P
  BY <1>1, <1>3, PathLeast DEF Q
<1>5. CASE \A x \in Q : new[x] = nx[x]
  <2>1. Closed(nx, Q)
    BY <1>2, <1>5 DEF Closed
  <2>2. P \subseteq Q
    BY <1>2, <2>1, PathLeast DEF P
  <2>3. QED
    BY <1>4, <2>2 DEF P, Q
<1>6. CASE \E x \in Q : new[x] # nx[x]
  <2>1. nx[e] \in Q \cup {Nil}
    BY <1>2, <1>6 DEF Bypasses, Closed
  <2> DEFINE T == Q \cup {e}
  <2>2. ASSUME NEW x \in T PROVE nx[x] \in T \cup {Nil}
    <3>1. CASE x = e
      BY <2>1, <3>1
    <3>2. CASE x \in Q
      BY <1>2, <3>2 DEF Bypasses, Closed
    <3>3. QED
      BY <3>1, <3>2
  <2>3. T \in SUBSET Elements /\ h \in T \cup {Nil}
    BY <1>2 DEF Bypasses
  <2>4. Closed(nx, T)
    BY <2>2 DEF Closed
  <2> HIDE DEF T
  <2>5. P \subseteq T
    BY <2>3, <2>4, PathLeast DEF P
  <2>6. QED
    BY <1>4, <2>5 DEF P, Q, T
<1>7. QED
  BY <1>5, <1>6

LEMMA BypassEnds ==
  ASSUME NEW nx, NEW new, NEW e, Bypasses(nx, new, e),
         NEW x \in Elements, x \notin Path(nx, nx[x])
  PROVE  x \notin Path(new, new[x])
<1>1. nx \in [Elements -> Links] /\ e \in Elements /\ nx[x] \in Links /\ new[x] \in Links
  BY DEF Bypasses
<1>2. Path(new, new[x]) \subseteq Path(nx, new[x])
  BY <1>1, PathBypass
<1>3. Path(nx, new[x]) \subseteq Path(nx, nx[x])
  <2>1. CASE new[x] = nx[x]
    BY <2>1
  <2>2. CASE nx[x] = e /\ new[x] = nx[e]
    BY <1>1, <2>2, PathStep
  <2>3. QED
    BY <2>1, <2>2 DEF Bypasses
<1>4. QED
  BY <1>2, <1>3
-----------------------------------------------------------------------------
(* The invariant holds at the start, and every step keeps it.              *)

LEMMA ChainsStart == ChainsInit => ChainsInv
<1> SUFFICES ASSUME ChainsInit PROVE ChainsInv
  OBVIOUS
<1>1. Path(next, Nil) = {}
  BY PathNil
<1>2. ChainsTypeOK
  BY ChainsAssumption DEF ChainsInit, ChainsTypeOK, Links, Chains
<1>3. Enqueued = {} /\ Ahead = {}
  BY <1>1 DEF ChainsInit, Enqueued, Ahead
<1>4. ChainsEnd
  BY <1>1, <1>3 DEF ChainsInit, ChainsEnd
<1>5. Walk
  BY <1>3 DEF ChainsInit, Walk
<1>6. QED
  BY <1>2, <1>4, <1>5 DEF ChainsInv

(* The starts of paths the invariant speaks of.                            *)
LEMMA Roots ==
  ASSUME ChainsTypeOK
  PROVE  /\ next \in [Elements -> Links] /\ head \in Links
         /\ \A q \in Chains : heads[q] \in Links
         /\ \A x \in Enqueued \cup Ahead :
              \E h \in Links : /\ h = head \/ \E q \in Chains : h = heads[q]
                              /\ x \in Path(next, h)
  BY DEF ChainsTypeOK, Enqueued, Ahead

LEMMA EnqKeeps ==
  ASSUME ChainsInv, NEW p \in Chains, NEW e \in Elements, SysEnqIntRP(p, e)
  PROVE  ChainsInv'
<1>1. /\ next \in [Elements -> Links] /\ head \in Links /\ e \in Links
      /\ \A q \in Chains : heads[q] \in Links
  BY Roots DEF ChainsInv, Links
<1>2. /\ heads' = [heads EXCEPT ![p] = e] /\ next' = [next EXCEPT ![e] = heads[p]]
      /\ heads \in [Chains -> Links]
  BY DEF ChainsInv, ChainsTypeOK, SysEnqIntRP
<1>3. e \notin Ahead /\ \A q \in Chains : e \notin Path(next, heads[q])
  BY DEF SysEnqIntRP, MayEnqueue, Enqueued
<1>4. /\ next' \in [Elements -> Links] /\ next'[e] = heads[p]
      /\ \A x \in Elements : x # e => next'[x] = next[x]
  BY <1>1, <1>2
<1>5. ASSUME NEW h \in Links, e \notin Path(next, h)
      PROVE  Path(next', h) = Path(next, h)
  BY <1>1, <1>2, <1>5, PathLink
<1>6. Ahead' = Ahead
  BY <1>1, <1>3, <1>5 DEF SysEnqIntRP, walkVars, Ahead
<1>7. \A q \in Chains : Path(next', heads[q]) = Path(next, heads[q])
  BY <1>1, <1>3, <1>5
<1>8. Path(next', e) = {e} \cup Path(next, heads[p])
  BY <1>4, <1>7, PathStep
<1>9. /\ heads'[p] = e
      /\ \A q \in Chains : q # p => heads'[q] = heads[q]
  BY <1>2
<1>10. ChainsTypeOK'
  BY <1>1, <1>2, <1>4 DEF ChainsInv, ChainsTypeOK, SysEnqIntRP, walkVars
<1>11. ASSUME NEW x \in (Enqueued \cup Ahead)' PROVE x \notin Path(next', next'[x])
  <2>1. CASE x = e
    BY <1>3, <1>4, <1>7, <2>1
  <2>2. CASE x # e
    <3>1. x \in Enqueued \cup Ahead
      BY <1>6, <1>7, <1>8, <1>9, <2>2 DEF Enqueued
    <3>2. PICK h \in Links : x \in Path(next, h) /\ e \notin Path(next, h)
      BY <1>3, <3>1, Roots DEF ChainsInv, Ahead
    <3>3. x \in Elements /\ next[x] \in Path(next, h) \cup {Nil}
      BY <1>1, <3>2, PathClosed DEF Closed
    <3>4. next[x] \in Links /\ e \notin Path(next, next[x])
      BY <1>1, <3>2, <3>3, PathInner
    <3>5. Path(next', next'[x]) = Path(next, next[x])
      BY <1>4, <1>5, <2>2, <3>3, <3>4
    <3>6. QED
      BY <3>1, <3>5 DEF ChainsInv, ChainsEnd
  <2>3. QED
    BY <2>1, <2>2
<1>12. ASSUME NEW q \in Chains, NEW r \in Chains, q # r
       PROVE  Path(next', heads'[q]) \cap Path(next', heads'[r]) = {}
  <2>1. Path(next, heads[q]) \cap Path(next, heads[r]) = {}
    BY <1>12 DEF ChainsInv, ChainsEnd
  <2>2. QED
    BY <1>3, <1>7, <1>8, <1>9, <1>12, <2>1
<1>13. ChainsEnd'
  BY <1>11, <1>12 DEF ChainsEnd
<1>14. Walk'
  <2>1. Path(next, heads[chain]) \subseteq Path(next', heads'[chain]) /\ chain \in Chains
    BY <1>7, <1>8, <1>9 DEF ChainsInv, ChainsTypeOK
  <2>2. QED
    BY <1>6, <2>1 DEF ChainsInv, Walk, SysEnqIntRP, walkVars
<1>15. QED
  BY <1>10, <1>13, <1>14 DEF ChainsInv

(* Two cases: e heads its chain, or links to it are led past it.  If       *)
(* another chain is being walked, then e is none of what the walk owes, or *)
(* it is not in chain p.                                                   *)
LEMMA DeqKeeps ==
  ASSUME ChainsInv, NEW p \in Chains, NEW e \in Elements, SysDeqIntRP(p, e)
  PROVE  ChainsInv'
<1>1. /\ next \in [Elements -> Links] /\ head \in Links /\ e \in Links /\ e # Nil
      /\ \A q \in Chains : heads[q] \in Links
  BY Roots, ChainsAssumption DEF ChainsInv, Links
<1>2. /\ runs' = runs /\ chain' = chain /\ head' = head /\ visited' = visited
      /\ owed' = IF p = chain THEN owed \ {e} ELSE owed
      /\ chain \in Chains /\ heads \in [Chains -> Links] /\ owed \subseteq Elements
  BY DEF SysDeqIntRP, walkVars, ChainsInv, ChainsTypeOK
<1>3. CASE heads[p] = e
  <2>1. next' = next /\ heads' = [heads EXCEPT ![p] = next[e]]
    BY <1>3 DEF SysDeqIntRP
  <2>2. heads'[p] = next[e] /\ \A q \in Chains : q # p => heads'[q] = heads[q]
    BY <1>2, <2>1
  <2>3. Path(next, heads[p]) = {e} \cup Path(next, next[e])
    BY <1>1, <1>3, PathStep
  <2>4. \A q \in Chains : Path(next', heads'[q]) \subseteq Path(next, heads[q])
    BY <2>1, <2>2, <2>3
  <2>5. Ahead' = Ahead
    BY <1>2, <2>1 DEF Ahead
  <2>6. Enqueued' \subseteq Enqueued
    BY <2>4 DEF Enqueued
  <2>7. ChainsTypeOK'
    BY <1>1, <1>2, <2>1 DEF ChainsInv, ChainsTypeOK
  <2>8. ASSUME NEW q \in Chains, NEW r \in Chains, q # r
        PROVE  Path(next', heads'[q]) \cap Path(next', heads'[r]) = {}
    BY <2>4, <2>8 DEF ChainsInv, ChainsEnd
  <2>9. ChainsEnd'
    BY <2>1, <2>5, <2>6, <2>8 DEF ChainsInv, ChainsEnd
  <2>10. owed' \subseteq Path(next', heads'[chain])
    <3>1. owed \subseteq Path(next, heads[chain])
      BY DEF ChainsInv, Walk
    <3>2. CASE p = chain
      BY <1>2, <2>1, <2>2, <2>3, <3>1, <3>2
    <3>3. CASE p # chain
      BY <1>2, <2>1, <2>2, <3>1, <3>3
    <3>4. QED
      BY <3>2, <3>3
  <2>11. Walk'
    BY <1>2, <2>5, <2>10 DEF ChainsInv, Walk
  <2>12. QED
    BY <2>7, <2>9, <2>11 DEF ChainsInv
<1>4. CASE heads[p] # e
  <2>1. /\ heads' = heads
        /\ next' = [x \in Elements |-> IF x \in Path(next, heads[p]) /\ next[x] = e
                                        THEN next[e] ELSE next[x]]
    BY <1>4 DEF SysDeqIntRP
  <2>2. Bypasses(next, next', e)
    BY <1>1, <2>1 DEF Bypasses
  <2>3. ASSUME NEW h \in Links
        PROVE  /\ Path(next', h) \subseteq Path(next, h)
               /\ Path(next, h) \subseteq Path(next', h) \cup {e}
    BY <2>2, PathBypass
  <2>4. ChainsTypeOK'
    BY <1>2, <2>1, <2>2 DEF ChainsInv, ChainsTypeOK, Bypasses
  <2>5. Ahead' \subseteq Ahead /\ Ahead \subseteq Ahead' \cup {e}
    BY <1>1, <1>2, <2>3 DEF Ahead
  <2>6. Enqueued' \subseteq Enqueued
    BY <1>1, <2>1, <2>3 DEF Enqueued
  <2>7. ASSUME NEW x \in (Enqueued \cup Ahead)' PROVE x \notin Path(next', next'[x])
    <3>1. x \in Enqueued \cup Ahead /\ x \in Elements
      BY <2>5, <2>6, <2>7 DEF Enqueued, Ahead, Path
    <3>2. x \notin Path(next, next[x])
      BY <3>1 DEF ChainsInv, ChainsEnd
    <3>3. QED
      BY <2>2, <3>1, <3>2, BypassEnds
  <2>8. ASSUME NEW q \in Chains, NEW r \in Chains, q # r
        PROVE  Path(next', heads'[q]) \cap Path(next', heads'[r]) = {}
    BY <1>1, <2>1, <2>3, <2>8 DEF ChainsInv, ChainsEnd
  <2>9. ChainsEnd'
    BY <2>7, <2>8 DEF ChainsEnd
  <2>10. owed' \subseteq Ahead' /\ owed' \subseteq Path(next', heads'[chain])
    <3>1. owed \subseteq Ahead /\ owed \subseteq Path(next, heads[chain])
      BY DEF ChainsInv, Walk
    <3>2. heads[chain] \in Links
      BY <1>1, <1>2
    <3>3. CASE p = chain \/ e \notin owed
      <4>1. e \notin owed' /\ owed' \subseteq owed
        BY <1>2, <3>3
      <4>2. Path(next, heads[chain]) \subseteq Path(next', heads[chain]) \cup {e}
        BY <2>3, <3>2
      <4>3. QED
        BY <2>1, <2>5, <3>1, <4>1, <4>2
    <3>4. CASE p # chain /\ e \in owed
      <4>1. e \notin Path(next, heads[p])
        BY <1>2, <3>1, <3>4 DEF ChainsInv, ChainsEnd
      <4>2. \A x \in Path(next, heads[p]) : next[x] # e
        BY <1>1, <4>1, PathClosed DEF Closed
      <4>3. next' = next
        BY <1>1, <2>1, <4>2
      <4>4. QED
        BY <1>2, <2>1, <3>1, <3>4, <4>3 DEF Ahead
    <3>5. QED
      BY <3>3, <3>4
  <2>11. Walk'
    BY <1>2, <2>5, <2>10 DEF ChainsInv, Walk
  <2>12. QED
    BY <2>4, <2>9, <2>11 DEF ChainsInv
<1>5. QED
  BY <1>3, <1>4

LEMMA TurnKeeps ==
  ASSUME ChainsInv, NEW p \in Chains, Turn(p)
  PROVE  ChainsInv'
<1>1. /\ heads' = heads /\ next' = next /\ head' = heads[p] /\ chain' = p
      /\ owed' = Path(next, heads[p]) /\ visited' = {} /\ runs' = "kernel"
  BY DEF Turn
<1>2. Enqueued' = Enqueued /\ Ahead' = Path(next, heads[p])
  BY <1>1 DEF Enqueued, Ahead
<1>3. ChainsTypeOK'
  BY <1>1 DEF ChainsInv, ChainsTypeOK, Path
<1>4. ChainsEnd'
  BY <1>1, <1>2 DEF ChainsInv, ChainsEnd, Enqueued
<1>5. Walk'
  BY <1>1, <1>2 DEF Walk
<1>6. QED
  BY <1>3, <1>4, <1>5 DEF ChainsInv

LEMMA SetConfKeeps ==
  ASSUME ChainsInv, SetConf
  PROVE  ChainsInv'
<1>1. /\ heads' = [p \in Chains |-> Nil] /\ next' = next /\ owed' = {}
      /\ runs' = runs /\ chain' = chain /\ head' = head /\ visited' = visited
  BY DEF SetConf, walkVars
<1>2. \A p \in Chains : Path(next', heads'[p]) = {}
  BY <1>1, PathNil
<1>3. Enqueued' = {} /\ Ahead' = Ahead
  BY <1>1, <1>2 DEF Enqueued, Ahead
<1>4. ChainsTypeOK'
  BY <1>1 DEF ChainsInv, ChainsTypeOK, Links
<1>5. ChainsEnd'
  BY <1>1, <1>2, <1>3 DEF ChainsInv, ChainsEnd
<1>6. Walk'
  BY <1>1, <1>3 DEF ChainsInv, Walk
<1>7. QED
  BY <1>4, <1>5, <1>6 DEF ChainsInv

(* What is visited is no longer ahead, as no element leads back to itself. *)
LEMMA VisitKeeps ==
  ASSUME ChainsInv, Visit
  PROVE  ChainsInv'
<1>1. /\ heads' = heads /\ next' = next /\ chain' = chain /\ head' = next[head]
      /\ owed' = owed \ {head} /\ visited' = visited \cup {head}
      /\ runs' = IF head \in Verifiers THEN "verifier" ELSE "kernel"
  BY DEF Visit
<1>2. head \in Elements /\ next \in [Elements -> Links] /\ next[head] \in Links
  BY DEF ChainsInv, ChainsTypeOK, Visit, Links
<1>3. Ahead = {head} \cup Ahead' /\ Enqueued' = Enqueued
  BY <1>1, <1>2, PathStep DEF Ahead, Enqueued
<1>4. head \notin Ahead'
  BY <1>1, <1>3 DEF ChainsInv, ChainsEnd, Ahead
<1>5. ChainsTypeOK'
  BY <1>1, <1>2 DEF ChainsInv, ChainsTypeOK
<1>6. ChainsEnd'
  BY <1>1, <1>3 DEF ChainsInv, ChainsEnd
<1>7. Walk'
  BY <1>1, <1>3, <1>4 DEF ChainsInv, Walk
<1>8. QED
  BY <1>5, <1>6, <1>7 DEF ChainsInv

(* Steps that leave the chains and the place in them alone.                *)
LEMMA RestKeeps ==
  ASSUME ChainsInv, UNCHANGED <<heads, next, chain, head, owed, visited>>,
         runs' \in {"program", "kernel", "verifier", "handler"}
  PROVE  ChainsInv'
<1>1. Enqueued' = Enqueued /\ Ahead' = Ahead
  BY DEF Enqueued, Ahead
<1>2. ChainsTypeOK' /\ ChainsEnd' /\ Walk'
  BY <1>1 DEF ChainsInv, ChainsTypeOK, ChainsEnd, Walk
<1>3. QED
  BY <1>2 DEF ChainsInv

LEMMA ChainsKeep == ChainsInv /\ [ChainsNext]_chainsVars => ChainsInv'
<1> SUFFICES ASSUME ChainsInv, [ChainsNext]_chainsVars PROVE ChainsInv'
  OBVIOUS
<1>1. ASSUME NEW p \in Chains, NEW e \in Elements, SysEnqIntRP(p, e) PROVE ChainsInv'
  BY <1>1, EnqKeeps
<1>2. ASSUME NEW p \in Chains, NEW e \in Elements, SysDeqIntRP(p, e) PROVE ChainsInv'
  BY <1>2, DeqKeeps
<1>3. CASE SetConf
  BY <1>3, SetConfKeeps
<1>4. CASE WalkStarts
  <2>1. 0 \in Chains
    BY ChainsAssumption DEF Chains
  <2>2. QED
    BY <1>4, <2>1, TurnKeeps DEF WalkStarts
<1>5. CASE Visit
  BY <1>5, VisitKeeps
<1>6. CASE VerifierReturns
  BY <1>6, RestKeeps DEF VerifierReturns
<1>7. CASE HandlerReturns
  BY <1>7, RestKeeps DEF HandlerReturns
<1>8. CASE NextChain
  <2>1. chain + 1 \in Chains
    BY <1>8, ChainsAssumption DEF NextChain, Chains, ChainsInv, ChainsTypeOK
  <2>2. QED
    BY <1>8, <2>1, TurnKeeps DEF NextChain
<1>9. CASE Returns
  BY <1>9, RestKeeps DEF Returns
<1>10. CASE UNCHANGED chainsVars
  BY <1>10, RestKeeps DEF chainsVars, walkVars, ChainsInv, ChainsTypeOK
<1>11. QED
  BY <1>1, <1>2, <1>3, <1>4, <1>5, <1>6, <1>7, <1>8, <1>9, <1>10 DEF ChainsNext

LEMMA ChainsInductive == ChainsSpec => []ChainsInv
  BY ChainsStart, ChainsKeep, PTL DEF ChainsSpec
-----------------------------------------------------------------------------
(* The variables have their types: the walk never leaves the table.        *)
THEOREM ChainsTypeCorrect == ChainsSpec => []ChainsTypeOK
<1>1. ChainsInv => ChainsTypeOK
  BY DEF ChainsInv
<1>2. QED
  BY <1>1, ChainsInductive, PTL

(* The chains end and share no element, so that SysDeqIntRP's search ends, *)
(* and so does what the walk has ahead, whatever handlers do under it.     *)
THEOREM ChainsAlwaysEnd == ChainsSpec => []ChainsEnd
<1>1. ChainsInv => ChainsEnd
  BY DEF ChainsInv
<1>2. QED
  BY <1>1, ChainsInductive, PTL

(* A walk visits what stays in a chain throughout the chain's turn, and    *)
(* visits nothing twice.                                                   *)
THEOREM ServedOncePerTurn == ChainsSpec => []OncePerTurn
<1>1. ASSUME ChainsInv PROVE OncePerTurn
  <2>1. CASE head = Nil
    <3>1. Ahead = {}
      BY <2>1, PathNil DEF Ahead
    <3>2. owed = {} /\ head \notin visited
      BY <1>1, <2>1, <3>1, ChainsAssumption DEF ChainsInv, ChainsTypeOK, Walk
    <3>3. QED
      BY <3>2 DEF OncePerTurn
  <2>2. CASE head # Nil
    <3>1. head \in Ahead
      BY <1>1, <2>2, PathClosed DEF ChainsInv, ChainsTypeOK, Ahead
    <3>2. head \notin visited
      BY <1>1, <3>1 DEF ChainsInv, Walk
    <3>3. QED
      BY <2>2, <3>2 DEF OncePerTurn
  <2>3. QED
    BY <2>1, <2>2
<1>2. QED
  BY <1>1, ChainsInductive, PTL
-----------------------------------------------------------------------------
(* IntChains implements HandlerLists.  A sequence spells the path from h:  *)
(* its elements in the order of their links.                               *)
Spells(s, nx, h) ==
  /\ s \in Seq(Elements)
  /\ Len(s) = 0 => h = Nil
  /\ Len(s) > 0 => h = s[1] /\ nx[s[Len(s)]] = Nil
  /\ \A k \in 1 .. Len(s) - 1 : nx[s[k]] = s[k + 1]
  /\ \A k \in 1 .. Len(s) : s[k] \in Path(nx, h)
  /\ \A j, k \in 1 .. Len(s) : s[j] = s[k] => j = k

LEMMA SpelledPath ==
  ASSUME NEW nx \in [Elements -> Links], NEW h \in Links, NEW s, Spells(s, nx, h)
  PROVE  Path(nx, h) = {s[k] : k \in 1 .. Len(s)}
<1> DEFINE S == {s[k] : k \in 1 .. Len(s)}
<1>1. s \in Seq(Elements) /\ Len(s) \in Nat /\ S \subseteq Elements
  BY DEF Spells
<1>2. h \in S \cup {Nil}
  BY <1>1 DEF Spells
<1>3. ASSUME NEW k \in 1 .. Len(s) PROVE nx[s[k]] \in S \cup {Nil}
  <2>1. CASE k < Len(s)
    <3>1. k \in 1 .. Len(s) - 1 /\ k + 1 \in 1 .. Len(s)
      BY <1>1, <2>1
    <3> QED BY <3>1 DEF Spells
  <2>2. CASE k = Len(s)
    BY <1>1, <2>2 DEF Spells
  <2> QED BY <1>1, <2>1, <2>2
<1>4. Closed(nx, S)
  BY <1>3 DEF Closed
<1>5. Path(nx, h) \subseteq S
  <2> HIDE DEF S
  <2> QED BY <1>1, <1>2, <1>4, PathLeast
<1> QED BY <1>5 DEF Spells

(* There is one spelling of a path.                                        *)
LEMMA SpelledOnce ==
  ASSUME NEW nx \in [Elements -> Links], NEW h \in Links, NEW s, Spells(s, nx, h)
  PROVE  InOrder(nx, h) = s
<1> DEFINE P == Path(nx, h)
           n == Len(s)
<1>1. s \in Seq(Elements) /\ n \in Nat /\ P = {s[k] : k \in 1 .. n}
  <2>1. P = {s[k] : k \in 1 .. n}
    BY SpelledPath
  <2>2. s \in Seq(Elements)
    BY DEF Spells
  <2> QED BY <2>1, <2>2
<1>2. s \in [1 .. n -> P]
  BY <1>1
<1>3. /\ n > 0 => s[1] = h
      /\ \A k \in 1 .. n - 1 : nx[s[k]] = s[k + 1]
  BY DEF Spells
<1>4. Cardinality(P) = n
  <2>1. s \in Bijection(1 .. n, P)
    <3>1. \A j, k \in 1 .. n : s[j] = s[k] => j = k
      BY DEF Spells
    <3>2. \A x \in P : \E k \in 1 .. n : s[k] = x
      BY <1>1
    <3>3. DOMAIN s = 1 .. n
      BY <1>1
    <3> HIDE DEF P, n
    <3> QED BY <1>2, <3>1, <3>2, <3>3, Zenon DEF Bijection, Injection, IsInjective, Surjection
  <2>2. ExistsBijection(1 .. n, P)
    BY <2>1 DEF ExistsBijection
  <2>3. IsFiniteSet(1 .. n) /\ Cardinality(1 .. n) = n
    <3> HIDE DEF n
    <3>1. 1 \in Int /\ n \in Int /\ (IF 1 > n THEN 0 ELSE n - 1 + 1) = n
      BY <1>1
    <3> QED BY <3>1, FS_Interval, Zenon
  <2> QED BY <2>2, <2>3, FS_Bijection
<1>5. ASSUME NEW t \in [1 .. n -> P], n > 0 => t[1] = h,
             \A k \in 1 .. n - 1 : nx[t[k]] = t[k + 1]
      PROVE  t = s
  <2> DEFINE T == {s[k] : k \in {j \in 1 .. n : t[j] = s[j]}}
  <2>1. T \subseteq Elements /\ h \in T \cup {Nil}
    BY <1>1, <1>3, <1>5 DEF Spells
  <2>2. ASSUME NEW k \in 1 .. n, t[k] = s[k] PROVE nx[s[k]] \in T \cup {Nil}
    <3>1. CASE k < n
      <4>1. k \in 1 .. n - 1 /\ k + 1 \in 1 .. n
        BY <1>1, <3>1
      <4> QED BY <1>3, <1>5, <2>2, <4>1
    <3>2. CASE k = n
      BY <1>1, <3>2 DEF Spells
    <3> QED BY <1>1, <3>1, <3>2
  <2>3. Closed(nx, T)
    BY <2>2 DEF Closed
  <2>4. P \subseteq T
    <3> HIDE DEF T
    <3> QED BY <2>1, <2>3, PathLeast
  <2>5. ASSUME NEW k \in 1 .. n PROVE t[k] = s[k]
    <3>1. PICK j \in 1 .. n : t[j] = s[j] /\ s[j] = s[k]
      BY <1>1, <2>4
    <3> QED BY <3>1 DEF Spells
  <2> QED BY <1>2, <2>5
<1>6. InOrder(nx, h) = CHOOSE t \in [1 .. n -> P] :
                         /\ n > 0 => t[1] = h
                         /\ \A k \in 1 .. n - 1 : nx[t[k]] = t[k + 1]
  BY <1>4 DEF InOrder
<1> HIDE DEF P, n
<1> QED BY <1>2, <1>3, <1>5, <1>6

LEMMA SpelledEmpty ==
  ASSUME NEW nx
  PROVE  Spells(<<>>, nx, Nil)
  BY EmptySeq DEF Spells

(* The spelling depends on the links of its own elements only.             *)
LEMMA SpelledSame ==
  ASSUME NEW nx \in [Elements -> Links], NEW new \in [Elements -> Links], NEW h \in Links,
         NEW s, Spells(s, nx, h), \A k \in 1 .. Len(s) : new[s[k]] = nx[s[k]]
  PROVE  Spells(s, new, h)
<1>1. s \in Seq(Elements) /\ Len(s) \in Nat
  BY DEF Spells
<1>2. \A x \in Path(nx, h) : new[x] = nx[x]
  BY SpelledPath
<1>3. Path(new, h) = Path(nx, h)
  BY <1>2, PathSame
<1> QED BY <1>1, <1>3 DEF Spells

LEMMA SpelledTail ==
  ASSUME NEW nx \in [Elements -> Links], NEW h \in Elements, NEW s, Spells(s, nx, h)
  PROVE  /\ s # <<>> /\ s[1] = h /\ Len(s) > 0
         /\ Spells(Tail(s), nx, nx[h])
<1>1. s \in Seq(Elements) /\ Len(s) \in Nat /\ Len(s) > 0 /\ h = s[1] /\ s # <<>>
  BY ChainsAssumption DEF Spells
<1>2. PICK r \in Seq(Elements) :
        /\ r = Tail(s) /\ Len(r) = Len(s) - 1
        /\ \A k \in 1 .. Len(s) - 1 : r[k] = s[k + 1]
  <2>1. /\ Tail(s) \in Seq(Elements) /\ Len(Tail(s)) = Len(s) - 1
        /\ \A k \in 1 .. Len(Tail(s)) : Tail(s)[k] = s[k + 1]
    BY <1>1, HeadTailProperties, Zenon
  <2> QED BY <2>1, Zenon
<1>3. Path(nx, h) = {h} \cup Path(nx, nx[h])
  BY PathStep
<1>4. ASSUME NEW k \in 1 .. Len(r) PROVE r[k] \in Path(nx, nx[h])
  <2>1. k + 1 \in 1 .. Len(s) /\ 1 \in 1 .. Len(s) /\ k + 1 # 1 /\ r[k] = s[k + 1]
    BY <1>1, <1>2
  <2> QED BY <1>1, <1>3, <2>1 DEF Spells
<1>5. Len(r) = 0 => nx[h] = Nil
  BY <1>1, <1>2 DEF Spells
<1>6. Len(r) > 0 => nx[h] = r[1] /\ nx[r[Len(r)]] = Nil
  BY <1>1, <1>2 DEF Spells
<1>7. \A k \in 1 .. Len(r) - 1 : nx[r[k]] = r[k + 1]
  BY <1>1, <1>2 DEF Spells
<1>8. \A j, k \in 1 .. Len(r) : r[j] = r[k] => j = k
  BY <1>1, <1>2 DEF Spells
<1>9. Spells(r, nx, nx[h])
  BY <1>4, <1>5, <1>6, <1>7, <1>8 DEF Spells
<1> QED BY <1>1, <1>2, <1>9

(* Two sequences one behind the other.                                     *)
LEMMA JoinedSeqs ==
  ASSUME NEW a \in Seq(Elements), NEW b \in Seq(Elements)
  PROVE  \E r \in Seq(Elements) :
           /\ r = a \o b /\ Len(r) = Len(a) + Len(b)
           /\ \A k \in 1 .. Len(a) : r[k] = a[k]
           /\ \A k \in 1 .. Len(b) : r[Len(a) + k] = b[k]
<1>1. /\ a \o b \in Seq(Elements) /\ Len(a \o b) = Len(a) + Len(b)
      /\ \A k \in 1 .. Len(a) + Len(b) : (a \o b)[k] = IF k <= Len(a) THEN a[k] ELSE b[k - Len(a)]
  BY ConcatProperties, ZenonT(60)
<1>2. PICK r \in Seq(Elements) :
        /\ r = a \o b /\ Len(r) = Len(a) + Len(b)
        /\ \A k \in 1 .. Len(a) + Len(b) : r[k] = IF k <= Len(a) THEN a[k] ELSE b[k - Len(a)]
  BY <1>1, Zenon
<1>3. Len(a) \in Nat /\ Len(b) \in Nat
  OBVIOUS
<1>4. ASSUME NEW k \in 1 .. Len(a) PROVE r[k] = a[k]
  <2>1. k \in 1 .. Len(a) + Len(b) /\ k <= Len(a)
    BY <1>3
  <2> QED BY <1>2, <2>1, Zenon
<1>5. ASSUME NEW k \in 1 .. Len(b) PROVE r[Len(a) + k] = b[k]
  <2>1. Len(a) + k \in 1 .. Len(a) + Len(b) /\ ~(Len(a) + k <= Len(a)) /\ (Len(a) + k) - Len(a) = k
    BY <1>3
  <2> QED BY <1>2, <2>1, Zenon
<1> QED BY <1>2, <1>4, <1>5, Zenon

LEMMA SpelledMore ==
  ASSUME NEW nx \in [Elements -> Links], NEW new \in [Elements -> Links],
         NEW e \in Elements, NEW l \in Links, NEW s, Spells(s, nx, l),
         e \notin Path(nx, l), new = [nx EXCEPT ![e] = l]
  PROVE  Spells(<<e>> \o s, new, e)
<1>1. s \in Seq(Elements) /\ Len(s) \in Nat /\ <<e>> \in Seq(Elements) /\ Len(<<e>>) = 1
      /\ <<e>>[1] = e
  BY DEF Spells
<1>2. \A k \in 1 .. Len(s) : s[k] # e /\ s[k] \in Elements
  BY <1>1 DEF Spells
<1>3. Spells(s, new, l)
  BY <1>2, SpelledSame
<1>4. PICK a \in Seq(Elements) : a = <<e>> /\ Len(a) = 1 /\ a[1] = e
  BY <1>1
<1>5. PICK r \in Seq(Elements) :
        /\ r = <<e>> \o s /\ Len(r) = Len(s) + 1 /\ r[1] = e
        /\ \A k \in 1 .. Len(s) : r[k + 1] = s[k]
  <2>1. PICK r \in Seq(Elements) :
          /\ r = a \o s /\ Len(r) = Len(a) + Len(s)
          /\ \A k \in 1 .. Len(a) : r[k] = a[k]
          /\ \A k \in 1 .. Len(s) : r[Len(a) + k] = s[k]
    BY <1>1, <1>4, JoinedSeqs
  <2>2. r[1] = e /\ Len(r) = Len(s) + 1
    BY <1>1, <1>4, <2>1
  <2>3. ASSUME NEW k \in 1 .. Len(s) PROVE r[k + 1] = s[k]
    <3>1. Len(a) + k = k + 1
      BY <1>1, <1>4
    <3> QED BY <2>1, <3>1, Zenon
  <2>4. r = <<e>> \o s
    BY <1>4, <2>1, Zenon
  <2> QED BY <2>2, <2>3, <2>4
<1>6. new[e] = l /\ Path(new, e) = {e} \cup Path(new, l)
  BY PathStep
<1>7. \A k \in 1 .. Len(r) : k = 1 \/ (k - 1 \in 1 .. Len(s) /\ r[k] = s[k - 1])
  <2> SUFFICES ASSUME NEW k \in 1 .. Len(r), k # 1
               PROVE  k - 1 \in 1 .. Len(s) /\ r[k] = s[k - 1]
    OBVIOUS
  <2>1. k - 1 \in 1 .. Len(s) /\ (k - 1) + 1 = k
    BY <1>1, <1>5
  <2> QED BY <1>5, <2>1
<1>8. \A k \in 1 .. Len(r) : r[k] \in Path(new, e)
  BY <1>3, <1>5, <1>6, <1>7 DEF Spells
<1>9. \A j, k \in 1 .. Len(r) : r[j] = r[k] => j = k
  <2> SUFFICES ASSUME NEW j \in 1 .. Len(r), NEW k \in 1 .. Len(r), r[j] = r[k] PROVE j = k
    OBVIOUS
  <2>1. CASE j # 1 /\ k # 1
    <3>1. j - 1 = k - 1
      BY <1>3, <1>7, <2>1 DEF Spells
    <3> QED BY <3>1
  <2> QED BY <1>2, <1>5, <1>7, <2>1
<1>10. \A k \in 1 .. Len(r) - 1 : new[r[k]] = r[k + 1]
  <2> SUFFICES ASSUME NEW k \in 1 .. Len(r) - 1 PROVE new[r[k]] = r[k + 1]
    OBVIOUS
  <2>1. CASE k = 1
    <3>1. l = s[1] /\ r[2] = s[1]
      BY <1>1, <1>3, <1>5, <2>1 DEF Spells
    <3> QED BY <1>5, <1>6, <2>1, <3>1
  <2>2. CASE k # 1
    <3>1. k - 1 \in 1 .. Len(s) - 1 /\ (k - 1) + 1 = k /\ k \in 1 .. Len(s) /\ k \in 1 .. Len(r)
      BY <1>1, <1>5, <2>2
    <3>2. r[k] = s[k - 1] /\ r[k + 1] = s[k]
      BY <1>5, <1>7, <2>2, <3>1
    <3> QED BY <1>3, <3>1, <3>2 DEF Spells
  <2> QED BY <2>1, <2>2
<1>11. new[r[Len(r)]] = Nil
  <2>1. CASE Len(s) = 0
    BY <1>3, <1>5, <1>6, <2>1 DEF Spells
  <2>2. CASE Len(s) # 0
    BY <1>1, <1>3, <1>5, <2>2 DEF Spells
  <2> QED BY <2>1, <2>2
<1>12. Spells(r, new, e)
  <2>1. ~(Len(r) = 0) /\ e = r[1]
    BY <1>1, <1>5
  <2> QED BY <1>8, <1>9, <1>10, <1>11, <2>1, Zenon DEF Spells
<1> QED BY <1>5, <1>12

(* What is left of a sequence without its element at place k.              *)
Once(s) == s \in Seq(Elements) /\ \A j, k \in 1 .. Len(s) : s[j] = s[k] => j = k

LEMMA WithoutOne ==
  ASSUME NEW s, Once(s), NEW k \in 1 .. Len(s)
  PROVE  /\ Lists!Without(s, s[k]) \in Seq(Elements)
         /\ Len(Lists!Without(s, s[k])) = Len(s) - 1
         /\ \A j \in 1 .. Len(s) - 1 :
              /\ j < k => Lists!Without(s, s[k])[j] = s[j]
              /\ ~(j < k) => Lists!Without(s, s[k])[j] = s[j + 1]
<1>1. s \in Seq(Elements) /\ Len(s) \in Nat /\ DOMAIN s = 1 .. Len(s)
  BY DEF Once
<1>2. Lists!Listed(s[k], s)
  BY <1>1 DEF Lists!Listed
<1>3. (CHOOSE i \in DOMAIN s : s[i] = s[k]) = k
  <2>1. \A i \in DOMAIN s : s[i] = s[k] => i = k
    BY <1>1 DEF Once
  <2> QED BY <1>1, <2>1
<1>4. Lists!Without(s, s[k]) = SubSeq(s, 1, k - 1) \o SubSeq(s, k + 1, Len(s))
  BY <1>2, <1>3, Zenon DEF Lists!Without
<1>5. PICK a \in Seq(Elements) :
        a = SubSeq(s, 1, k - 1) /\ Len(a) = k - 1 /\ \A j \in 1 .. k - 1 : a[j] = s[j]
  <2>1. PICK n \in Nat : n = k - 1 /\ n <= Len(s)
    BY <1>1
  <2>2. SubSeq(s, 1, n) \in Seq(Elements) /\ Len(SubSeq(s, 1, n)) = n
        /\ \A j \in 1 .. n : SubSeq(s, 1, n)[j] = s[j]
    BY <1>1, <2>1
  <2> QED BY <2>1, <2>2, Zenon
<1>6. PICK b \in Seq(Elements) :
        /\ b = SubSeq(s, k + 1, Len(s)) /\ Len(b) = Len(s) - k
        /\ \A j \in 1 .. Len(s) - k : b[j] = s[k + j]
  <2>1. PICK m \in Nat : m = k + 1 /\ m \in 2 .. Len(s) + 1
    BY <1>1
  <2>2. SubSeq(s, m, Len(s)) \in Seq(Elements) /\ Len(SubSeq(s, m, Len(s))) = Len(s) - k
        /\ \A j \in 1 .. Len(s) - k : SubSeq(s, m, Len(s))[j] = s[k + j]
    <3>1. m \in Int /\ Len(s) \in Int /\ \A j \in m .. Len(s) : s[j] \in Elements
      BY <1>1, <2>1
    <3>2. PICK n \in Int : n = Len(s)
      BY <3>1
    <3>3. /\ SubSeq(s, m, n) \in Seq(Elements)
          /\ m <= n => Len(SubSeq(s, m, n)) = n - m + 1
          /\ ~(m <= n) => Len(SubSeq(s, m, n)) = 0
          /\ \A j \in 1 .. n - m + 1 : SubSeq(s, m, n)[j] = s[m + j - 1]
      <4>1. m \in Int /\ n \in Int /\ \A j \in m .. n : s[j] \in Elements
        BY <3>1, <3>2, Zenon
      <4>2. /\ SubSeq(s, m, n) \in Seq(Elements)
            /\ Len(SubSeq(s, m, n)) = IF m <= n THEN n - m + 1 ELSE 0
            /\ \A j \in 1 .. n - m + 1 : SubSeq(s, m, n)[j] = s[m + j - 1]
        BY <4>1, SubSeqProperties, SMTT(60)
      <4> QED BY <4>2, Zenon
    <3>4. PICK b \in Seq(Elements) :
            /\ b = SubSeq(s, m, n)
            /\ m <= n => Len(b) = n - m + 1
            /\ ~(m <= n) => Len(b) = 0
            /\ \A j \in 1 .. n - m + 1 : b[j] = s[m + j - 1]
      BY <3>3, Zenon
    <3>5. Len(b) = Len(s) - k /\ \A j \in 1 .. Len(s) - k : b[j] = s[k + j]
      <4>1. n = Len(s) /\ m = k + 1 /\ n \in Int /\ k \in Int /\ 1 <= k /\ k <= n
        BY <1>1, <2>1, <3>2
      <4>2. PICK q : q = Len(b)
        OBVIOUS
      <4>3. (m <= n => q = n - m + 1) /\ (~(m <= n) => q = 0)
        BY <3>4, <4>2, Zenon
      <4>4. q = n - k
        BY <4>1, <4>3
      <4>5. ASSUME NEW j \in 1 .. n - k PROVE b[j] = s[k + j]
        <5>1. j \in 1 .. n - m + 1 /\ m + j - 1 = k + j
          BY <4>1
        <5>2. b[j] = s[m + j - 1]
          BY <3>4, <5>1, Zenon
        <5> QED BY <5>1, <5>2, Zenon
      <4> QED BY <4>1, <4>2, <4>4, <4>5, Zenon
    <3> QED BY <3>2, <3>4, <3>5, Zenon
  <2> QED BY <2>1, <2>2, Zenon
<1>7. PICK r \in Seq(Elements) :
        /\ r = a \o b /\ Len(r) = Len(a) + Len(b)
        /\ \A j \in 1 .. Len(a) : r[j] = a[j]
        /\ \A j \in 1 .. Len(b) : r[Len(a) + j] = b[j]
  <2>1. a \in Seq(Elements) /\ b \in Seq(Elements)
    BY <1>5, <1>6
  <2> QED BY <2>1, JoinedSeqs
<1>8. /\ Len(a) = k - 1 /\ \A j \in 1 .. k - 1 : a[j] = s[j]
      /\ Len(b) = Len(s) - k /\ \A j \in 1 .. Len(s) - k : b[j] = s[k + j]
      /\ Len(r) = Len(a) + Len(b)
  BY <1>5, <1>6, <1>7, Zenon
<1>9. ASSUME NEW j \in 1 .. Len(s) - 1
      PROVE  (j < k => r[j] = s[j]) /\ (~(j < k) => r[j] = s[j + 1])
  <2>1. CASE j < k
    <3>1. j \in 1 .. k - 1 /\ j \in 1 .. Len(a)
      BY <1>1, <1>8, <2>1
    <3> QED BY <1>7, <1>8, <2>1, <3>1, Zenon
  <2>2. CASE ~(j < k)
    <3>1. PICK m \in 1 .. Len(s) - k : Len(a) + m = j /\ k + m = j + 1
      <4>1. j - Len(a) \in 1 .. Len(s) - k /\ Len(a) + (j - Len(a)) = j
            /\ k + (j - Len(a)) = j + 1
        BY <1>1, <1>8, <2>2
      <4> QED BY <4>1
    <3>2. r[j] = b[m] /\ b[m] = s[j + 1]
      BY <1>7, <1>8, <3>1, Zenon
    <3> QED BY <2>2, <3>2, Zenon
  <2> QED BY <2>1, <2>2
<1>10. Len(r) = Len(s) - 1
  BY <1>1, <1>8
<1>11. r = Lists!Without(s, s[k])
  BY <1>4, <1>5, <1>6, <1>7, Zenon
<1> QED BY <1>9, <1>10, <1>11, Zenon

LEMMA WithoutFirst ==
  ASSUME NEW s, Once(s), Len(s) > 0
  PROVE  Lists!Without(s, s[1]) = Tail(s)
<1>1. s \in Seq(Elements) /\ Len(s) \in Nat /\ 1 \in 1 .. Len(s) /\ s # <<>>
  BY DEF Once
<1>2. PICK r \in Seq(Elements) :
        /\ r = Lists!Without(s, s[1]) /\ Len(r) = Len(s) - 1
        /\ \A j \in 1 .. Len(s) - 1 : r[j] = s[j + 1]
  BY <1>1, WithoutOne
<1>3. /\ Tail(s) \in Seq(Elements) /\ Len(Tail(s)) = Len(s) - 1
      /\ \A k \in 1 .. Len(Tail(s)) : Tail(s)[k] = s[k + 1]
  BY <1>1, HeadTailProperties, Zenon
<1> QED BY <1>2, <1>3, SeqEqual

LEMMA WithoutNone ==
  ASSUME NEW s, NEW e, s \in Seq(Elements), \A k \in 1 .. Len(s) : s[k] # e
  PROVE  Lists!Without(s, e) = s
  BY DEF Lists!Without, Lists!Listed

(* An element behind another one is led past.                              *)
LEMMA SpelledWithout ==
  ASSUME NEW nx, NEW new, NEW e, Bypasses(nx, new, e), NEW h \in Links,
         NEW s, Spells(s, nx, h), NEW i \in 1 .. Len(s) - 1, s[i + 1] = e,
         new[s[i]] = nx[e], \A k \in 1 .. Len(s) : k # i => new[s[k]] = nx[s[k]]
  PROVE  Spells(Lists!Without(s, e), new, h)
<1>1. s \in Seq(Elements) /\ Len(s) \in Nat /\ Once(s) /\ i + 1 \in 1 .. Len(s) /\ h = s[1]
  BY DEF Spells, Once
<1>2. PICK r \in Seq(Elements) :
        /\ r = Lists!Without(s, e) /\ Len(r) = Len(s) - 1
        /\ \A j \in 1 .. Len(s) - 1 : /\ j < i + 1 => r[j] = s[j]
                                      /\ ~(j < i + 1) => r[j] = s[j + 1]
  BY <1>1, WithoutOne
<1>3. \A j \in 1 .. Len(r) : r[j] = s[j] \/ (j > i /\ r[j] = s[j + 1])
  BY <1>1, <1>2
<1>4. Path(nx, h) \subseteq Path(new, h) \cup {e}
  BY PathBypass
<1>5. ASSUME NEW j \in 1 .. Len(r) PROVE r[j] \in Path(new, h)
  <2>1. CASE j < i + 1
    <3>1. j \in 1 .. Len(s) /\ j # i + 1 /\ r[j] = s[j]
      BY <1>1, <1>2, <2>1
    <3> QED BY <1>1, <1>4, <3>1 DEF Spells
  <2>2. CASE ~(j < i + 1)
    <3>1. j + 1 \in 1 .. Len(s) /\ j + 1 # i + 1 /\ r[j] = s[j + 1]
      BY <1>1, <1>2, <2>2
    <3> QED BY <1>1, <1>4, <3>1 DEF Spells
  <2> QED BY <2>1, <2>2
<1>6. ASSUME NEW j \in 1 .. Len(r), NEW k \in 1 .. Len(r), r[j] = r[k] PROVE j = k
  <2> DEFINE from(m) == IF m < i + 1 THEN m ELSE m + 1
  <2>1. from(j) \in 1 .. Len(s) /\ from(k) \in 1 .. Len(s) /\ r[j] = s[from(j)] /\ r[k] = s[from(k)]
    BY <1>1, <1>2
  <2>2. from(j) = from(k)
    <3> HIDE DEF from
    <3>1. s[from(j)] = s[from(k)]
      BY <1>6, <2>1, Zenon
    <3> QED BY <1>1, <2>1, <3>1, Zenon DEF Once
  <2> QED BY <2>2
<1>7. ASSUME NEW j \in 1 .. Len(r) - 1 PROVE new[r[j]] = r[j + 1]
  <2>1. CASE j < i
    <3>1. j \in 1 .. Len(s) - 1 /\ j \in 1 .. Len(s) /\ j # i /\ r[j] = s[j] /\ r[j + 1] = s[j + 1]
      BY <1>1, <1>2, <2>1
    <3> QED BY <3>1 DEF Spells
  <2>2. CASE j = i
    <3>1. i + 1 \in 1 .. Len(s) - 1 /\ i \in 1 .. Len(s) - 1 /\ i < i + 1 /\ ~(i + 1 < i + 1)
      <4>1. i \in Int /\ i \in 1 .. Len(r) - 1
        BY <2>2
      <4> QED BY <1>1, <1>2, <4>1
    <3>2. r[i] = s[i] /\ r[i + 1] = s[(i + 1) + 1]
      BY <1>2, <3>1, Zenon
    <3>3. nx[s[i + 1]] = s[(i + 1) + 1]
      BY <3>1 DEF Spells
    <3> QED BY <2>2, <3>2, <3>3, Zenon
  <2>3. CASE j > i
    <3>1. j + 1 \in 1 .. Len(s) - 1 /\ j + 1 \in 1 .. Len(s) /\ j + 1 # i
          /\ r[j] = s[j + 1] /\ r[j + 1] = s[(j + 1) + 1]
      BY <1>1, <1>2, <2>3
    <3> QED BY <3>1 DEF Spells
  <2> QED BY <1>1, <2>1, <2>2, <2>3
<1>8. Len(r) > 0 /\ r[1] = h
  BY <1>1, <1>2
<1>9. new[r[Len(r)]] = Nil
  <2>1. nx[s[Len(s)]] = Nil
    BY <1>1 DEF Spells
  <2>2. CASE i + 1 = Len(s)
    <3>1. Len(r) = i /\ r[i] = s[i]
      BY <1>1, <1>2, <2>2
    <3> QED BY <2>1, <2>2, <3>1
  <2>3. CASE i + 1 # Len(s)
    <3>4. Len(r) = Len(s) - 1
      BY <1>2
    <3>5. /\ Len(s) - 1 \in 1 .. Len(s) - 1 /\ (Len(s) - 1) + 1 = Len(s)
          /\ ~(Len(s) - 1 < i + 1)
      BY <1>1, <2>3
    <3>2. PICK n \in 1 .. Len(s) - 1 : n = Len(r) /\ n + 1 = Len(s) /\ ~(n < i + 1)
      BY <3>4, <3>5, Zenon
    <3>3. r[n] = s[n + 1]
      BY <1>2, <3>2, Zenon
    <3>1. r[Len(r)] = s[Len(s)] /\ Len(s) # i /\ Len(s) \in 1 .. Len(s)
      BY <1>1, <3>2, <3>3
    <3> QED BY <2>1, <3>1
  <2> QED BY <2>2, <2>3
<1>10. Spells(r, new, h)
  <2>1. ~(Len(r) = 0)
    BY <1>8
  <2> QED BY <1>5, <1>6, <1>7, <1>8, <1>9, <2>1 DEF Spells
<1> QED BY <1>2, <1>10

LEMMA StaysListed ==
  ASSUME NEW nx \in [Elements -> Links], NEW new \in [Elements -> Links], NEW h \in Links,
         Spells(InOrder(nx, h), nx, h), \A x \in Path(nx, h) : new[x] = nx[x]
  PROVE  InOrder(new, h) = InOrder(nx, h) /\ Spells(InOrder(new, h), new, h)
<1>1. PICK s : s = InOrder(nx, h) /\ Spells(s, nx, h)
  OBVIOUS
<1>2. Spells(s, new, h)
  <2>1. \A k \in 1 .. Len(s) : new[s[k]] = nx[s[k]]
    BY <1>1 DEF Spells
  <2> QED BY <1>1, <2>1, SpelledSame
<1>3. InOrder(new, h) = s
  BY <1>2, SpelledOnce
<1> QED BY <1>1, <1>2, <1>3, Zenon

(* The element behind x leaves the list.                                   *)
LEMMA LeavesList ==
  ASSUME NEW nx, NEW new, NEW e, Bypasses(nx, new, e), NEW h \in Links,
         Spells(InOrder(nx, h), nx, h), NEW x \in Path(nx, h), nx[x] = e, new[x] = nx[e]
  PROVE  /\ InOrder(new, h) = Lists!Without(InOrder(nx, h), e)
         /\ Spells(InOrder(new, h), new, h)
         /\ Lists!Listed(e, InOrder(nx, h))
<1>1. PICK s : s = InOrder(nx, h) /\ Spells(s, nx, h)
  OBVIOUS
<1>2. /\ nx \in [Elements -> Links] /\ new \in [Elements -> Links] /\ e \in Elements /\ e # Nil
      /\ s \in Seq(Elements) /\ Len(s) \in Nat
  BY <1>1, ChainsAssumption DEF Bypasses, Spells
<1>3. PICK i \in 1 .. Len(s) : s[i] = x
  BY <1>1, <1>2, SpelledPath
<1>4. ASSUME NEW k \in 1 .. Len(s), nx[s[k]] = e
      PROVE  k \in 1 .. Len(s) - 1 /\ s[k + 1] = e
  <2>1. Len(s) \in Nat /\ Len(s) > 0
    BY <1>2
  <2>2. nx[s[Len(s)]] = Nil
    BY <1>1, <2>1 DEF Spells
  <2>3. k # Len(s)
    BY <1>2, <1>4, <2>2, Zenon
  <2>4. k \in 1 .. Len(s) - 1
    BY <2>1, <2>3
  <2> QED BY <1>1, <1>4, <2>4 DEF Spells
<1>5. i \in 1 .. Len(s) - 1 /\ s[i + 1] = e /\ i + 1 \in 1 .. Len(s)
  BY <1>2, <1>3, <1>4
<1>6. ASSUME NEW k \in 1 .. Len(s), k # i PROVE new[s[k]] = nx[s[k]]
  <2>1. s[k] \in Elements /\ (new[s[k]] = nx[s[k]] \/ nx[s[k]] = e)
    BY <1>2 DEF Bypasses
  <2>2. CASE nx[s[k]] = e
    <3>1. k + 1 \in 1 .. Len(s) /\ s[k + 1] = s[i + 1]
      BY <1>4, <1>5, <2>2
    <3>2. k + 1 = i + 1
      BY <1>1, <1>5, <3>1 DEF Spells
    <3> QED BY <1>6, <3>2
  <2> QED BY <2>1, <2>2
<1>7. Spells(Lists!Without(s, e), new, h)
  BY <1>1, <1>3, <1>5, <1>6, SpelledWithout
<1>8. InOrder(new, h) = Lists!Without(s, e)
  BY <1>2, <1>7, SpelledOnce
<1>9. Lists!Listed(e, s)
  <2>1. DOMAIN s = 1 .. Len(s)
    BY <1>2
  <2> QED BY <1>5, <2>1 DEF Lists!Listed
<1> QED BY <1>1, <1>7, <1>8, <1>9, Zenon

(* Elements are listed in the list that spells their path.                 *)
LEMMA ListedOnPath ==
  ASSUME NEW nx \in [Elements -> Links], NEW h \in Links, Spells(InOrder(nx, h), nx, h), NEW e
  PROVE  Lists!Listed(e, InOrder(nx, h)) <=> e \in Path(nx, h)
<1>1. PICK s : s = InOrder(nx, h) /\ Spells(s, nx, h)
  OBVIOUS
<1>2. DOMAIN s = 1 .. Len(s) /\ Path(nx, h) = {s[k] : k \in 1 .. Len(s)}
  BY <1>1, SpelledPath DEF Spells
<1>3. Lists!Listed(e, s) <=> e \in Path(nx, h)
  BY <1>2 DEF Lists!Listed
<1> QED BY <1>1, <1>3, Zenon

-----------------------------------------------------------------------------
(* Every chain, and what the walk has ahead, is spelled in order.          *)
Listing ==
  /\ \A p \in Chains : Spells(InOrder(next, heads[p]), next, heads[p])
  /\ Spells(InOrder(next, head), next, head)
  /\ runs = "program" => head = Nil

LEMMA ListedStart == ChainsInit => Listing /\ Lists!Init
<1> SUFFICES ASSUME ChainsInit PROVE Listing /\ Lists!Init
  OBVIOUS
<1>1. next \in [Elements -> Links] /\ Nil \in Links
  BY DEF ChainsInit, Links
<1>2. InOrder(next, Nil) = <<>> /\ Spells(<<>>, next, Nil)
  BY <1>1, SpelledEmpty, SpelledOnce
<1>3. head = Nil /\ runs = "program" /\ \A p \in Chains : heads[p] = Nil
  BY DEF ChainsInit
<1> QED BY <1>2, <1>3 DEF Listing, Lists!Init, Chains

LEMMA ListedEnq ==
  ASSUME ChainsInv, Listing, NEW p \in Chains, NEW e \in Elements, SysEnqIntRP(p, e)
  PROVE  Listing' /\ Lists!Add(p, e)
<1>1. /\ next \in [Elements -> Links] /\ head \in Links /\ e \in Links
      /\ \A q \in Chains : heads[q] \in Links
  BY Roots DEF ChainsInv, Links
<1>2. /\ heads' = [heads EXCEPT ![p] = e] /\ next' = [next EXCEPT ![e] = heads[p]]
      /\ heads \in [Chains -> Links] /\ head' = head /\ runs' = runs /\ chain' = chain
  BY DEF ChainsInv, ChainsTypeOK, SysEnqIntRP, walkVars
<1>3. e \notin Path(next, head) /\ \A q \in Chains : e \notin Path(next, heads[q])
  BY DEF SysEnqIntRP, MayEnqueue, Enqueued, Ahead
<1>4. /\ next' \in [Elements -> Links]
      /\ \A x \in Elements : x # e => next'[x] = next[x]
  BY <1>1, <1>2
<1>5. ASSUME NEW h \in Links, e \notin Path(next, h), Spells(InOrder(next, h), next, h)
      PROVE  InOrder(next', h) = InOrder(next, h) /\ Spells(InOrder(next', h), next', h)
  <2>1. \A x \in Path(next, h) : next'[x] = next[x]
    BY <1>1, <1>4, <1>5, PathClosed
  <2> QED BY <1>1, <1>4, <1>5, <2>1, StaysListed
<1>6. InOrder(next', head') = InOrder(next, head) /\ Spells(InOrder(next', head'), next', head')
  BY <1>1, <1>2, <1>3, <1>5 DEF Listing
<1>7. ASSUME NEW q \in Chains, q # p
      PROVE  /\ heads'[q] = heads[q] /\ InOrder(next', heads'[q]) = InOrder(next, heads[q])
             /\ Spells(InOrder(next', heads'[q]), next', heads'[q])
  BY <1>1, <1>2, <1>3, <1>5, <1>7 DEF Listing
<1>8. /\ heads'[p] = e /\ InOrder(next', heads'[p]) = <<e>> \o InOrder(next, heads[p])
      /\ Spells(InOrder(next', heads'[p]), next', heads'[p])
  <2>1. PICK s : s = InOrder(next, heads[p]) /\ Spells(s, next, heads[p])
    BY DEF Listing
  <2>2. Spells(<<e>> \o s, next', e)
    BY <1>1, <1>2, <1>3, <1>4, <2>1, SpelledMore
  <2>3. InOrder(next', e) = <<e>> \o s /\ heads'[p] = e
    BY <1>1, <1>2, <1>4, <2>2, SpelledOnce
  <2> QED BY <2>1, <2>2, <2>3, Zenon
<1>9. \A q \in Chains : ~Lists!Listed(e, InOrder(next, heads[q]))
  BY <1>1, <1>3, ListedOnPath DEF Listing
<1>10. Listing'
  BY <1>2, <1>6, <1>7, <1>8 DEF Listing
<1>11. Lists!Add(p, e)
  BY <1>2, <1>6, <1>7, <1>8, <1>9 DEF Lists!Add
<1> QED BY <1>10, <1>11

(* The first element of chain p leaves it, and the walk may still come to  *)
(* it; or a later one is led past, and is gone from what the walk has      *)
(* ahead too, if the walk has not come to the one before it.               *)
LEMMA ListedDeqFirst ==
  ASSUME ChainsInv, Listing, NEW p \in Chains, NEW e \in Elements, SysDeqIntRP(p, e),
         heads[p] = e
  PROVE  Listing' /\ Lists!Remove(p, e)
<1>1. /\ next' = next /\ heads' = [heads EXCEPT ![p] = next[e]]
      /\ head' = head /\ runs' = runs /\ chain' = chain /\ heads \in [Chains -> Links]
      /\ next \in [Elements -> Links]
  BY DEF SysDeqIntRP, walkVars, ChainsInv, ChainsTypeOK
<1>2. PICK s : s = InOrder(next, heads[p]) /\ Spells(s, next, e)
  BY DEF Listing
<1>3. Spells(Tail(s), next, next[e]) /\ Len(s) > 0 /\ s[1] = e
  BY <1>1, <1>2, SpelledTail
<1>4. Lists!Without(s, e) = Tail(s)
  <2>1. Once(s)
    BY <1>2 DEF Once, Spells
  <2> QED BY <1>3, <2>1, WithoutFirst
<1>5. next[e] \in Links
  BY <1>1
<1>6. InOrder(next, next[e]) = Lists!Without(s, e)
  BY <1>1, <1>3, <1>4, <1>5, SpelledOnce
<1>7. /\ heads'[p] = next[e]
      /\ InOrder(next', heads'[p]) = Lists!Without(InOrder(next, heads[p]), e)
      /\ Spells(InOrder(next', heads'[p]), next', heads'[p])
  <2>1. heads'[p] = next[e]
    BY <1>1
  <2> QED BY <1>1, <1>2, <1>3, <1>4, <1>6, <2>1, Zenon
<1>8. \A q \in Chains : q # p => heads'[q] = heads[q]
  BY <1>1
<1>9. Listing'
  BY <1>1, <1>7, <1>8 DEF Listing
<1>10. Lists!Remove(p, e)
  BY <1>1, <1>7, <1>8 DEF Lists!Remove
<1> QED BY <1>9, <1>10

LEMMA ListedDeqLater ==
  ASSUME ChainsInv, Listing, NEW p \in Chains, NEW e \in Elements, SysDeqIntRP(p, e),
         heads[p] # e
  PROVE  Listing' /\ Lists!Remove(p, e)
<1>1. /\ next \in [Elements -> Links] /\ head \in Links
      /\ \A q \in Chains : heads[q] \in Links
  BY Roots DEF ChainsInv
<1>2. /\ heads' = heads /\ head' = head /\ runs' = runs /\ chain' = chain
      /\ next' = [x \in Elements |-> IF x \in Path(next, heads[p]) /\ next[x] = e
                                     THEN next[e] ELSE next[x]]
  BY DEF SysDeqIntRP, walkVars
<1>3. Bypasses(next, next', e)
  BY <1>1, <1>2 DEF Bypasses
<1>4. \A x \in Elements : next'[x] # next[x] => x \in Path(next, heads[p]) /\ next[x] = e
  BY <1>2
<1>5. \A q \in Chains : Path(next, heads[q]) \subseteq Elements
  BY DEF Path
<1>6. ASSUME NEW q \in Chains, q # p
      PROVE  /\ InOrder(next', heads'[q]) = InOrder(next, heads[q])
             /\ Spells(InOrder(next', heads'[q]), next', heads'[q])
  <2>1. \A x \in Path(next, heads[q]) : next'[x] = next[x]
    BY <1>4, <1>5, <1>6 DEF ChainsInv, ChainsEnd
  <2>2. Spells(InOrder(next, heads[q]), next, heads[q]) /\ heads[q] \in Links
    BY <1>1 DEF Listing
  <2>3. next' \in [Elements -> Links]
    BY <1>3 DEF Bypasses
  <2> QED BY <1>1, <1>2, <2>1, <2>2, <2>3, StaysListed
<1>7. /\ InOrder(next', heads'[p]) = Lists!Without(InOrder(next, heads[p]), e)
      /\ Spells(InOrder(next', heads'[p]), next', heads'[p])
      /\ (\E x \in Path(next, heads[p]) : next[x] = e) => Lists!Listed(e, InOrder(next, heads[p]))
  <2>1. CASE \E x \in Path(next, heads[p]) : next[x] = e
    <3>1. PICK x \in Path(next, heads[p]) : next[x] = e /\ next'[x] = next[e]
      BY <1>2, <1>5, <2>1
    <3>2. Spells(InOrder(next, heads[p]), next, heads[p]) /\ heads[p] \in Links
      BY <1>1 DEF Listing
    <3> QED BY <1>2, <1>3, <3>1, <3>2, LeavesList
  <2>2. CASE ~ \E x \in Path(next, heads[p]) : next[x] = e
    <3>1. next' = next
      BY <1>1, <1>2, <2>2
    <3>2. PICK s : s = InOrder(next, heads[p]) /\ Spells(s, next, heads[p])
      BY DEF Listing
    <3>3. s \in Seq(Elements) /\ Len(s) \in Nat
      BY <3>2 DEF Spells
    <3>4. ASSUME NEW k \in 1 .. Len(s), s[k] = e PROVE FALSE
      <4>1. k # 1
        BY <3>2, <3>3, <3>4 DEF Spells
      <4>2. k - 1 \in 1 .. Len(s) - 1 /\ k - 1 \in 1 .. Len(s) /\ (k - 1) + 1 = k
        BY <3>3, <4>1
      <4>3. next[s[k - 1]] = e /\ s[k - 1] \in Path(next, heads[p])
        BY <3>2, <3>4, <4>2 DEF Spells
      <4> QED BY <2>2, <4>3
    <3>5. Lists!Without(s, e) = s
      BY <3>3, <3>4, WithoutNone
    <3> QED BY <1>2, <2>2, <3>1, <3>2, <3>5, Zenon
  <2> QED BY <2>1, <2>2
<1>8. /\ Spells(InOrder(next', head'), next', head')
      /\ \/ InOrder(next', head') = InOrder(next, head)
         \/ /\ InOrder(next', head') = Lists!Without(InOrder(next, head), e)
            /\ Lists!Listed(e, InOrder(next, heads[p]))
  <2>1. CASE \A x \in Path(next, head) : next'[x] = next[x]
    <3>1. next' \in [Elements -> Links] /\ Spells(InOrder(next, head), next, head)
      BY <1>3 DEF Bypasses, Listing
    <3> QED BY <1>1, <1>2, <2>1, <3>1, StaysListed
  <2>2. CASE ~ \A x \in Path(next, head) : next'[x] = next[x]
    <3>1. PICK x \in Path(next, head) : next'[x] # next[x]
      BY <2>2
    <3>2. x \in Path(next, heads[p]) /\ next[x] = e /\ next'[x] = next[e]
      BY <1>2, <1>4, <3>1 DEF Path
    <3>3. Spells(InOrder(next, head), next, head)
      BY DEF Listing
    <3> QED BY <1>1, <1>2, <1>3, <1>7, <3>2, <3>3, LeavesList
  <2> QED BY <2>1, <2>2
<1>9. Listing'
  BY <1>2, <1>6, <1>7, <1>8 DEF Listing
<1>10. Lists!Remove(p, e)
  BY <1>2, <1>6, <1>7, <1>8 DEF Lists!Remove
<1> QED BY <1>9, <1>10

(* The turn of list p comes: the walk has ahead what the chain holds.      *)
LEMMA ListedTurn ==
  ASSUME ChainsInv, Listing, NEW p \in Chains, Turn(p),
         head = Nil, IF runs = "program" THEN p = 0 ELSE p = chain + 1
  PROVE  Listing' /\ Lists!NextTurn
<1>1. /\ heads' = heads /\ next' = next /\ head' = heads[p] /\ chain' = p /\ runs' = "kernel"
      /\ next \in [Elements -> Links] /\ NumChains \in Nat /\ chain \in Nat
      /\ p \in Nat /\ p < NumChains
  BY ChainsAssumption DEF Turn, ChainsInv, ChainsTypeOK, Chains
<1>2. InOrder(next, head) = <<>>
  <2>1. Nil \in Links
    BY DEF Links
  <2> QED BY <1>1, <2>1, SpelledEmpty, SpelledOnce
<1>3. Listing'
  BY <1>1 DEF Listing
<1>4. Lists!NextTurn
  <2>1. CASE runs = "program"
    BY <1>1, <1>2, <2>1 DEF Lists!NextTurn
  <2>2. CASE runs # "program"
    BY <1>1, <1>2, <2>2 DEF Lists!NextTurn
  <2> QED BY <2>1, <2>2
<1> QED BY <1>3, <1>4

LEMMA ListedSetConf ==
  ASSUME ChainsInv, Listing, SetConf
  PROVE  Listing' /\ Lists!Clear
<1>1. /\ heads' = [q \in Chains |-> Nil] /\ next' = next /\ next \in [Elements -> Links]
      /\ head' = head /\ runs' = runs /\ chain' = chain /\ runs = "program"
  BY DEF SetConf, walkVars, ChainsInv, ChainsTypeOK
<1>2. InOrder(next, Nil) = <<>> /\ Spells(<<>>, next, Nil)
  <2>1. Nil \in Links
    BY DEF Links
  <2> QED BY <1>1, <2>1, SpelledEmpty, SpelledOnce
<1>3. Listing'
  BY <1>1, <1>2 DEF Listing
<1>4. Lists!Clear
  BY <1>1, <1>2 DEF Lists!Clear
<1> QED BY <1>3, <1>4

LEMMA ListedVisit ==
  ASSUME ChainsInv, Listing, Visit
  PROVE  Listing' /\ Lists!Serve
<1>1. /\ heads' = heads /\ next' = next /\ head' = next[head] /\ chain' = chain
      /\ runs = "kernel" /\ runs' # "program"
      /\ next \in [Elements -> Links] /\ head \in Elements /\ head \in Links /\ next[head] \in Links
  BY DEF Visit, ChainsInv, ChainsTypeOK, Links
<1>2. PICK s : s = InOrder(next, head) /\ Spells(s, next, head)
  BY DEF Listing
<1>3. s # <<>> /\ Spells(Tail(s), next, next[head])
  BY <1>1, <1>2, SpelledTail
<1>4. InOrder(next, next[head]) = Tail(s)
  BY <1>1, <1>3, SpelledOnce
<1>5. InOrder(next', head') = Tail(InOrder(next, head)) /\ Spells(InOrder(next', head'), next', head')
  BY <1>1, <1>2, <1>3, <1>4, Zenon
<1>6. Listing'
  BY <1>1, <1>5 DEF Listing
<1>7. Lists!Serve
  <2>1. InOrder(next, head) # <<>>
    BY <1>2, <1>3
  <2> QED BY <1>1, <1>5, <2>1 DEF Lists!Serve
<1> QED BY <1>6, <1>7

(* The last list has had its turn.                                         *)
LEMMA ListedReturns ==
  ASSUME ChainsInv, Listing, Returns
  PROVE  Listing' /\ Lists!NextTurn
<1>1. /\ heads' = heads /\ next' = next /\ head' = head /\ chain' = chain
      /\ head = Nil /\ runs = "kernel" /\ runs' = "program" /\ chain + 1 = NumChains
      /\ next \in [Elements -> Links] /\ chain \in Nat
  BY DEF Returns, ChainsInv, ChainsTypeOK, Chains
<1>2. InOrder(next, head) = <<>>
  <2>1. Nil \in Links
    BY DEF Links
  <2> QED BY <1>1, <2>1, SpelledEmpty, SpelledOnce
<1>3. Listing'
  BY <1>1 DEF Listing
<1>4. Lists!NextTurn
  BY <1>1, <1>2 DEF Lists!NextTurn
<1> QED BY <1>3, <1>4

(* Verifiers and handlers return: no list changes.                         *)
LEMMA ListedRest ==
  ASSUME Listing, UNCHANGED <<heads, next, chain, head>>,
         (runs' = "program") <=> (runs = "program")
  PROVE  Listing' /\ UNCHANGED Lists!vars
  BY DEF Listing, Lists!vars

LEMMA ListedStep ==
  ASSUME ChainsInv, Listing, [ChainsNext]_chainsVars
  PROVE  Listing' /\ [Lists!Next]_(Lists!vars)
<1> DEFINE Goal == Listing' /\ [Lists!Next]_(Lists!vars)
<1>1. ASSUME NEW p \in Chains, NEW e \in Elements, SysEnqIntRP(p, e) PROVE Goal
  <2>1. p \in DOMAIN [q \in Chains |-> InOrder(next, heads[q])]
    OBVIOUS
  <2> QED BY <1>1, <2>1, ListedEnq DEF Lists!Next
<1>2. ASSUME NEW p \in Chains, NEW e \in Elements, SysDeqIntRP(p, e) PROVE Goal
  <2>1. p \in DOMAIN [q \in Chains |-> InOrder(next, heads[q])]
    OBVIOUS
  <2>2. Listing' /\ Lists!Remove(p, e)
    BY <1>2, ListedDeqFirst, ListedDeqLater
  <2> QED BY <2>1, <2>2 DEF Lists!Next
<1>3. CASE SetConf
  BY <1>3, ListedSetConf DEF Lists!Next
<1>4. CASE WalkStarts
  <2>1. 0 \in Chains
    BY ChainsAssumption DEF Chains
  <2>2. head = Nil /\ runs = "program" /\ Turn(0)
    BY <1>4 DEF WalkStarts, Listing
  <2>3. Listing' /\ Lists!NextTurn
    BY <2>1, <2>2, ListedTurn
  <2> QED BY <2>3 DEF Lists!Next
<1>5. CASE Visit
  BY <1>5, ListedVisit DEF Lists!Next
<1>6. CASE VerifierReturns
  BY <1>6, ListedRest DEF VerifierReturns
<1>7. CASE HandlerReturns
  BY <1>7, ListedRest DEF HandlerReturns
<1>8. CASE NextChain
  <2>1. chain + 1 \in Chains
    BY <1>8, ChainsAssumption DEF NextChain, Chains, ChainsInv, ChainsTypeOK
  <2>2. head = Nil /\ runs # "program" /\ Turn(chain + 1)
    BY <1>8 DEF NextChain
  <2>3. Listing' /\ Lists!NextTurn
    BY <2>1, <2>2, ListedTurn
  <2> QED BY <2>3 DEF Lists!Next
<1>9. CASE Returns
  BY <1>9, ListedReturns DEF Lists!Next
<1>10. CASE UNCHANGED chainsVars
  BY <1>10, ListedRest DEF chainsVars, walkVars
<1> QED BY <1>1, <1>2, <1>3, <1>4, <1>5, <1>6, <1>7, <1>8, <1>9, <1>10 DEF ChainsNext

(* The links serve as lists: what handlers enqueue comes first in its      *)
(* chain and waits for the next interrupt, what they dequeue only leaves,  *)
(* and every chain is served in order as it is when its turn comes.        *)
THEOREM ChainsAreLists == ChainsSpec => HandlerListsSpec
<1>1. ChainsInit => Listing /\ Lists!Init
  BY ListedStart
<1>2. ChainsInv /\ Listing /\ [ChainsNext]_chainsVars => Listing' /\ [Lists!Next]_(Lists!vars)
  BY ListedStep
<1> QED BY <1>1, <1>2, ChainsInductive, PTL DEF ChainsSpec, Lists!Spec, HandlerListsSpec
=============================================================================
