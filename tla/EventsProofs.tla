---------------------------- MODULE EventsProofs ----------------------------
(***************************************************************************)
(* Theorems about Events, and that it implements AsyncChannel, for every   *)
(* value of its constants.                                                 *)
(***************************************************************************)
EXTENDS EventsRefinement, SequenceTheorems, TLAPS

-----------------------------------------------------------------------------
(* Lemmas on the queue.                                                    *)

LEMMA EmptySeqType ==
  ASSUME NEW S
  PROVE  <<>> \in Seq(S) /\ Len(<<>>) = 0
  OBVIOUS

(* The port field of a queued event is within its bit field.               *)
LEMMA EventType ==
  ASSUME NEW ev \in {CARD_HW, CARD_BIOS}, NEW spec \in {0, END_IO, TIMEOUT},
         NEW p \in Nat, NEW r \in Nat
  PROVE  Event(ev, spec, p, r) \in AsyncEventInfo
<1>1. p % PortMod \in 0 .. PortMod - 1
  BY SizesAssumption
<1>2. QED
  BY <1>1 DEF Event, AsyncEventInfo, END_IO, TIMEOUT, NoPort

(* PostAsyncEvent keeps the queue within async_events[].                   *)
LEMMA EnqueueType ==
  ASSUME NEW q \in Seq(AsyncEventInfo), Len(q) <= QueueSize,
         NEW e \in AsyncEventInfo
  PROVE  /\ Enqueue(q, e) \in Seq(AsyncEventInfo)
         /\ Len(Enqueue(q, e)) <= QueueSize
  BY SizesAssumption DEF Enqueue

LEMMA Post1Type ==
  ASSUME QueueOK, NEW e \in AsyncEventInfo, Post1(e)
  PROVE  /\ queue' \in Seq(AsyncEventInfo)
         /\ Len(queue') <= QueueSize
  BY EnqueueType DEF QueueOK, Post1

LEMMA Post2Type ==
  ASSUME QueueOK, NEW e \in AsyncEventInfo, NEW f \in AsyncEventInfo, Post2(e, f)
  PROVE  /\ queue' \in Seq(AsyncEventInfo)
         /\ Len(queue') <= QueueSize
<1>1. /\ Enqueue(queue, e) \in Seq(AsyncEventInfo)
      /\ Len(Enqueue(queue, e)) <= QueueSize
  BY EnqueueType DEF QueueOK
<1>2. QED
  BY <1>1, EnqueueType DEF QueueOK, Post2

LEMMA RepeatType ==
  ASSUME NEW e \in AsyncEventInfo, e.repeat > 1
  PROVE  [e EXCEPT !.repeat = @ - 1] \in AsyncEventInfo
  BY DEF AsyncEventInfo

LEMMA DeliveredOnceType ==
  ASSUME NEW b \in Seq(AsyncEventInfo), b # <<>>
  PROVE  DeliveredOnce(b) \in Seq(AsyncEventInfo)
<1>1. Head(b) = b[1] /\ b[1] \in AsyncEventInfo
  OBVIOUS
<1>2. CASE b[1].repeat > 1
  <2>1. [b[1] EXCEPT !.repeat = @ - 1] \in AsyncEventInfo
    BY <1>1, <1>2, RepeatType
  <2>2. [b EXCEPT ![1].repeat = @ - 1] \in Seq(AsyncEventInfo)
    BY <2>1
  <2>3. QED
    BY <1>1, <1>2, <2>2 DEF DeliveredOnce
<1>3. CASE ~(b[1].repeat > 1)
  BY <1>1, <1>3 DEF DeliveredOnce
<1>4. QED
  BY <1>2, <1>3
-----------------------------------------------------------------------------
(* Lemmas on the table and the stack.                                      *)

LEMMA StatusType ==
  ASSUME TableOK, NEW s \in Slots, NEW st \in Statuses
  PROVE  setOpenEventStatus(s, st) \in [Slots -> Evcb]
  BY DEF TableOK, setOpenEventStatus, Evcb

LEMMA ConsumeType ==
  ASSUME TableOK, NEW s \in Slots
  PROVE  Consume(s) \in [Slots -> Evcb]
  BY DEF TableOK, Consume, Evcb, Statuses

LEMMA SignalType ==
  ASSUME TableOK, NEW f, NEW n
  PROVE  SignalUpTo(f, n) \in [Slots -> Evcb]
  BY DEF TableOK, SignalUpTo, Evcb, Statuses

LEMMA PushType ==
  ASSUME StackOK, NEW f \in Frames, Push(f)
  PROVE  StackOK'
  BY SizesAssumption DEF StackOK, Push

LEMMA WalkType ==
  ASSUME NEW ev \in Classes, NEW spec \in Nat, NEW by \in {"guest", "irq"},
         NEW after \in Seq(AsyncEventInfo)
  PROVE  Walk(ev, spec, by, after) \in Frames
  BY DEF Walk, Frames, Handlers

(* A walk runs at the frame on top of the stack.                           *)
LEMMA TopType ==
  ASSUME StackOK, stack # <<>>
  PROVE  /\ Len(stack) \in DOMAIN stack
         /\ Top \in Frames
  BY DEF StackOK, Top

LEMMA ReplaceTopType ==
  ASSUME StackOK, stack # <<>>, NEW f \in Frames,
         stack' = [stack EXCEPT ![Len(stack)] = f]
  PROVE  StackOK'
  BY TopType DEF StackOK

LEMMA PopType ==
  ASSUME StackOK, stack # <<>>, stack' = SubSeq(stack, 1, Len(stack) - 1)
  PROVE  StackOK' /\ Len(stack') = Len(stack) - 1
<1> DEFINE n == Len(stack) - 1
<1>1. n \in 0 .. Len(stack) /\ n + 1 = Len(stack)
  BY DEF StackOK
<1>2. \A i \in 1 .. n : stack[i] \in Frames
  BY <1>1 DEF StackOK
<1>3. stack' \in Seq(Frames) /\ Len(stack') = n
  <2>1. n \in Int /\ 1 \in Int
    BY <1>1
  <2>2. SubSeq(stack, 1, n) \in Seq(Frames)
    BY <1>2, <2>1, SubSeqProperties
  <2>3. Len(SubSeq(stack, 1, n)) = IF 1 <= n THEN n - 1 + 1 ELSE 0
    BY <1>2, <2>1, SubSeqProperties
  <2>4. QED
    BY <1>1, <2>2, <2>3
<1>4. QED
  BY <1>1, <1>3, SizesAssumption DEF StackOK

LEMMA CardTypes ==
  /\ {CARD_HW, CARD_BIOS} \subseteq Classes
  /\ {0, END_IO, TIMEOUT} \subseteq Nat
  BY DEF Classes, END_IO, TIMEOUT
-----------------------------------------------------------------------------
(* Type correctness.                                                       *)

LEMMA TypeInit == Init => TypeOK
<1> SUFFICES ASSUME Init PROVE TypeOK
  OBVIOUS
<1>1. TableOK
  BY SizesAssumption DEF Init, TableOK, ZeroEvcb, Evcb, Statuses, Handlers, Classes, Modes
<1>2. QueueOK
  <2>1. queue \in Seq(AsyncEventInfo) /\ Len(queue) = 0
    BY EmptySeqType DEF Init
  <2>2. busy \subseteq Chans /\ lost \subseteq Chans
    BY DEF Init
  <2>3. QED
    BY <2>1, <2>2, SizesAssumption DEF QueueOK
<1>3. StackOK
  BY EmptySeqType, SizesAssumption DEF Init, StackOK
<1>4. InterruptOK
  BY EmptySeqType DEF Init, InterruptOK
<1>5. QED
  BY <1>1, <1>2, <1>3, <1>4 DEF TypeOK

(* A BIOS call on events changes the table only.                           *)
LEMMA TypeEventCall == TypeOK /\ EventCall => TypeOK'
<1> SUFFICES ASSUME TypeOK, EventCall PROVE TypeOK'
  OBVIOUS
<1> USE DEF TypeOK
<1>1. ASSUME UNCHANGED tableVars, evcb' \in [Slots -> Evcb],
             waiting' \in Slots \cup {NoSlot}
      PROVE  TypeOK'
  BY <1>1 DEF tableVars, cardVars, irqVars, TableOK, QueueOK, StackOK, InterruptOK
<1>2. ASSUME UNCHANGED waiting PROVE waiting' \in Slots \cup {NoSlot}
  BY <1>2 DEF TableOK
<1>3. ASSUME NEW a \in OpenArgs, OpenEvent(a) PROVE TypeOK'
  <2>1. [status |-> "DISABLED", ev |-> a.ev, spec |-> a.spec,
         mode |-> a.mode, fhandler |-> a.fhandler] \in Evcb
    BY ArgsAssumption DEF Evcb, Statuses, Handlers, Classes, Modes
  <2>2. evcb' \in [Slots -> Evcb]
    BY <1>3, <2>1 DEF OpenEvent, TableOK, FreeSlots
  <2>3. QED
    BY <1>1, <1>2, <1>3, <2>2 DEF OpenEvent
<1>4. ASSUME NEW a \in OpenArgs, UnDeliverEvent(a.ev, a.spec) PROVE TypeOK'
  <2>1. evcb' \in [Slots -> Evcb]
    BY <1>4 DEF UnDeliverEvent, TableOK, Evcb, Statuses
  <2>2. QED
    BY <1>1, <1>2, <1>4, <2>1 DEF UnDeliverEvent
<1>5. ASSUME NEW a \in OpenArgs, DeliverEvent(a.ev, a.spec) PROVE TypeOK'
  <2>1. Walk(a.ev, a.spec, "guest", <<>>) \in Frames
    BY ArgsAssumption, WalkType, EmptySeqType DEF Classes
  <2>2. StackOK'
    BY <1>5, <2>1, PushType DEF DeliverEvent
  <2>3. QED
    BY <1>5, <2>2 DEF DeliverEvent, cardVars, irqVars, TableOK, QueueOK, InterruptOK
<1>6. ASSUME NEW s \in Slots, CloseEvent(s) PROVE TypeOK'
  BY <1>1, <1>2, <1>6, StatusType DEF CloseEvent, Statuses
<1>7. ASSUME NEW s \in Slots, EnableEvent(s) PROVE TypeOK'
  BY <1>1, <1>2, <1>7, StatusType DEF EnableEvent, Statuses
<1>8. ASSUME NEW s \in Slots, DisableEvent(s) PROVE TypeOK'
  BY <1>1, <1>2, <1>8, StatusType DEF DisableEvent, Statuses
<1>9. ASSUME NEW s \in Slots, TestEvent(s) PROVE TypeOK'
  BY <1>1, <1>2, <1>9, ConsumeType DEF TestEvent
<1>10. ASSUME NEW s \in Slots, WaitEvent(s) PROVE TypeOK'
  BY <1>1, <1>10, ConsumeType DEF WaitEvent
<1>11. ASSUME _96_remove PROVE TypeOK'
  <2>1. evcb' \in [Slots -> Evcb]
    BY <1>11 DEF _96_remove, TableOK, Evcb, Statuses
  <2>2. QED
    BY <1>1, <1>2, <1>11, <2>1 DEF _96_remove
<1>12. ASSUME NEW n \in ConfSizes, SetConf(n) PROVE TypeOK'
  <2>1. ZeroEvcb \in Evcb
    BY DEF ZeroEvcb, Evcb, Statuses, Handlers, Classes, Modes
  <2>2. TableOK'
    BY <1>12, <2>1 DEF SetConf, TableOK
  <2>3. QED
    BY <1>12, <2>2, SizesAssumption DEF SetConf, irqVars, QueueOK, StackOK, InterruptOK
<1>13. QED
  BY <1>3, <1>4, <1>5, <1>6, <1>7, <1>8, <1>9, <1>10, <1>11, <1>12 DEF EventCall

(* A memory card call posts events or starts a walk.                       *)
LEMMA TypeCardCall == TypeOK /\ CardCall => TypeOK'
<1> SUFFICES ASSUME TypeOK, CardCall PROVE TypeOK'
  OBVIOUS
<1> USE DEF TypeOK
<1>1. ASSUME UNCHANGED callVars, QueueOK' PROVE TypeOK'
  BY <1>1 DEF callVars, irqVars, TableOK, StackOK, InterruptOK
<1>2. ASSUME NEW e \in AsyncEventInfo, Post1(e), UNCHANGED <<busy, lost>>
      PROVE  QueueOK'
  BY <1>2, Post1Type DEF QueueOK
<1>3. ASSUME NEW e \in AsyncEventInfo, NEW f \in AsyncEventInfo, Post2(e, f),
             UNCHANGED <<busy, lost>>
      PROVE  QueueOK'
  BY <1>3, Post2Type DEF QueueOK
<1>4. ASSUME NEW f \in Frames, Push(f),
             UNCHANGED <<evcb, evcbMax, cardVars, irqVars, waiting>>
      PROVE  TypeOK'
  BY <1>4, PushType DEF cardVars, irqVars, TableOK, QueueOK, InterruptOK
<1>5. ASSUME NEW ev \in {CARD_HW, CARD_BIOS}, NEW p \in Nat, NEW r \in Nat
      PROVE  Event(ev, END_IO, p, r) \in AsyncEventInfo
  BY EventType
<1>6. ASSUME NEW p \in Chans, _card_info_busy(p) PROVE TypeOK'
  BY <1>1, <1>6 DEF _card_info_busy, cardVars, QueueOK
<1>7. ASSUME NEW p \in Chans, NEW cards \in CardSets, _card_info(p, cards) PROVE TypeOK'
  <2>1. p \in Nat
    BY SizesAssumption
  <2>2. Event(CARD_BIOS, InfoSpec(p, cards), p, 1) \in AsyncEventInfo
    BY <2>1, EventType DEF InfoSpec
  <2> DEFINE e == [Event(CARD_BIOS, InfoSpec(p, cards), p, 1) EXCEPT !.info = p]
  <2>3. e \in AsyncEventInfo
    BY <2>1, <2>2 DEF AsyncEventInfo
  <2>4. Post2(e, Event(CARD_HW, END_IO, p, 1))
    BY <1>7 DEF _card_info
  <2>5. /\ queue' \in Seq(AsyncEventInfo)
        /\ Len(queue') <= QueueSize
    <3> HIDE DEF e
    <3> QED BY <1>5, <2>1, <2>3, <2>4, Post2Type
  <2>6. busy' \subseteq Chans /\ lost' \subseteq Chans
    BY <1>7 DEF _card_info, QueueOK
  <2>7. QED
    BY <1>1, <1>7, <2>5, <2>6 DEF _card_info, QueueOK
<1>8. ASSUME NEW p \in Chans, _card_load(p) PROVE TypeOK'
  BY <1>1, <1>3, <1>5, <1>8, SizesAssumption DEF _card_load
<1>9. ASSUME NEW p \in Chans, _card_readwrite(p) PROVE TypeOK'
  BY <1>1, <1>2, <1>5, <1>9, SizesAssumption DEF _card_readwrite
<1>10. ASSUME NEW p \in Chans, NEW r \in Repeats, readwrite(p, r) PROVE TypeOK'
  BY <1>1, <1>3, <1>5, <1>10, SizesAssumption DEF readwrite
<1>11. ASSUME _bu_init PROVE TypeOK'
  <2>1. INVALID_PORT \in Nat
    BY SizesAssumption DEF INVALID_PORT
  <2>2. QED
    BY <1>1, <1>3, <1>5, <1>11, <2>1 DEF _bu_init
<1>12. ASSUME NEW p \in Chans, NEW cards \in CardSets, firstfile(p, cards) PROVE TypeOK'
  <2> DEFINE spec == IF p \in cards THEN END_IO ELSE TIMEOUT
             e == Event(CARD_BIOS, spec, p, 1)
  <2>1. e \in AsyncEventInfo
    BY EventType, SizesAssumption
  <2>2. <<e>> \in Seq(AsyncEventInfo)
    BY <2>1
  <2>3. Walk(CARD_HW, spec, "guest", <<e>>) \in Frames
    BY <2>2, CardTypes, WalkType
  <2>4. QED
    BY <1>4, <1>12, <2>3 DEF firstfile
<1>13. ASSUME delete PROVE TypeOK'
  BY <1>4, <1>13, CardTypes, WalkType, EmptySeqType DEF delete
<1>14. QED
  BY <1>6, <1>7, <1>8, <1>9, <1>10, <1>11, <1>12, <1>13 DEF CardCall

(* The steps of the emulator's own code.                                   *)
LEMMA TypeKernel == TypeOK /\ Kernel => TypeOK'
<1> SUFFICES ASSUME TypeOK, Kernel PROVE TypeOK'
  OBVIOUS
<1> USE DEF TypeOK
<1>1. ASSUME NEW n \in Slots, WalkToCallback(n) PROVE TypeOK'
  <2>1. evcb[n].fhandler \in Handlers
    BY DEF TableOK, Evcb
  <2>2. stack # <<>> /\ n + 1 \in Nat
    BY <1>1 DEF WalkToCallback, WalkRuns, Slots
  <2>3. /\ stack' = [stack EXCEPT ![Len(stack)] =
                       [Top EXCEPT !.i = n + 1, !.h = evcb[n].fhandler]]
        /\ [Top EXCEPT !.i = n + 1, !.h = evcb[n].fhandler] \in Frames
    BY <1>1, <2>1, <2>2, TopType DEF WalkToCallback, Top, Frames, StackOK
  <2>4. StackOK'
    BY <2>2, <2>3, ReplaceTopType
  <2>5. TableOK'
    BY <1>1, SignalType DEF WalkToCallback, TableOK
  <2>6. QED
    BY <1>1, <2>4, <2>5 DEF WalkToCallback, cardVars, irqVars, QueueOK, InterruptOK
<1>2. ASSUME WalkEnds PROVE TypeOK'
  <2>1. Top \in Frames
    BY <1>2, TopType DEF WalkEnds, WalkRuns
  <2>2. StackOK'
    BY <1>2, PopType DEF WalkEnds, WalkRuns
  <2>3. TableOK'
    BY <1>2, SignalType DEF WalkEnds, TableOK
  <2>4. InterruptOK'
    BY <1>2 DEF WalkEnds, irqVars, InterruptOK
  <2>5. QueueOK'
    <3>1. CASE Top.after = <<>>
      BY <1>2, <3>1 DEF WalkEnds, QueueOK
    <3>2. CASE Top.after # <<>>
      <4>1. Top.after[1] \in AsyncEventInfo
        BY <2>1, <3>2 DEF Frames
      <4>2. QED
        BY <1>2, <3>2, <4>1, Post1Type DEF WalkEnds, QueueOK
    <3>3. QED
      BY <3>1, <3>2
  <2>6. QED
    BY <2>2, <2>3, <2>4, <2>5
<1>3. ASSUME HandlerReturns PROVE TypeOK'
  <2>1. /\ stack' = [stack EXCEPT ![Len(stack)] = [Top EXCEPT !.h = NoHandler]]
        /\ [Top EXCEPT !.h = NoHandler] \in Frames
    BY <1>3, TopType DEF HandlerReturns, Top, Frames, Handlers, StackOK
  <2>2. StackOK'
    BY <1>3, <2>1, ReplaceTopType DEF HandlerReturns
  <2>3. QED
    BY <1>3, <2>2 DEF HandlerReturns, cardVars, irqVars, TableOK, QueueOK, InterruptOK
<1>4. ASSUME Interrupt PROVE TypeOK'
  <2>1. Len(stack) \in 0 .. MaxDepth
    BY SizesAssumption DEF StackOK
  <2>2. ClearBusy(queue, busy) \subseteq busy
    BY DEF ClearBusy
  <2>3. QED
    <3>1. QueueOK'
      <4>1. queue' \in Seq(AsyncEventInfo) /\ Len(queue') = 0
        BY <1>4, EmptySeqType DEF Interrupt
      <4>2. busy' \subseteq Chans /\ lost' \subseteq Chans
        BY <1>4, <2>2 DEF Interrupt, QueueOK
      <4>3. QED
        BY <4>1, <4>2, SizesAssumption DEF QueueOK
    <3>2. InterruptOK'
      BY <1>4, <2>1, ArgsAssumption DEF Interrupt, InterruptOK, QueueOK
    <3>3. TableOK' /\ StackOK'
      BY <1>4 DEF Interrupt, TableOK, StackOK
    <3>4. QED
      BY <3>1, <3>2, <3>3
<1>5. ASSUME DeliverAsyncEvent PROVE TypeOK'
  <2>1. Head(batch) \in AsyncEventInfo
    BY <1>5 DEF DeliverAsyncEvent, InterruptOK
  <2>2. Walk(Head(batch).ev, Head(batch).spec, "irq", <<>>) \in Frames
    BY <2>1, WalkType, CardTypes, EmptySeqType DEF AsyncEventInfo
  <2>3. batch' \in Seq(AsyncEventInfo)
    BY <1>5, DeliveredOnceType DEF DeliverAsyncEvent, InterruptOK
  <2>4. QED
    BY <1>5, <2>2, <2>3, PushType
    DEF DeliverAsyncEvent, cardVars, TableOK, QueueOK, InterruptOK
<1>6. ASSUME biosInterrupt PROVE TypeOK'
  <2>1. Head(timers) \in TimerEvents /\ Tail(timers) \in Seq(TimerEvents)
    BY <1>6 DEF biosInterrupt, InterruptOK
  <2>2. Walk(Head(timers).ev, Head(timers).spec, "irq", <<>>) \in Frames
    BY <2>1, WalkType, EmptySeqType DEF TimerEvents, Classes
  <2>3. QED
    BY <1>6, <2>1, <2>2, PushType
    DEF biosInterrupt, cardVars, TableOK, QueueOK, InterruptOK
<1>7. ASSUME InterruptReturns PROVE TypeOK'
  BY <1>7 DEF InterruptReturns, cardVars, TableOK, QueueOK, StackOK, InterruptOK
<1>8. QED
  BY <1>1, <1>2, <1>3, <1>4, <1>5, <1>6, <1>7 DEF Kernel

(* The types of Events hold in every reachable state: in particular the    *)
(* queue never outgrows async_events[] and a port fits its bit field.      *)
THEOREM TypeCorrect == Spec => []TypeOK
<1>1. ASSUME TypeOK, UNCHANGED vars PROVE TypeOK'
  BY <1>1 DEF TypeOK, TableOK, QueueOK, StackOK, InterruptOK, vars
<1>2. TypeOK /\ [Next]_vars => TypeOK'
  BY <1>1, TypeEventCall, TypeCardCall, TypeKernel DEF Next
<1>3. QED
  BY <1>2, TypeInit, PTL DEF Spec
-----------------------------------------------------------------------------
(* Callback events are never DELIVERED.                                    *)

LEMMA CallbackEventCall ==
  TypeOK /\ CallbackNeverDelivered /\ EventCall => CallbackNeverDelivered'
<1> SUFFICES ASSUME TypeOK, CallbackNeverDelivered, EventCall
             PROVE  CallbackNeverDelivered'
  OBVIOUS
<1> USE DEF CallbackNeverDelivered, TypeOK, TableOK
<1>1. ASSUME NEW s \in Slots, NEW st \in {"FREE", "ENABLED", "DISABLED"},
             evcb' = setOpenEventStatus(s, st)
      PROVE  CallbackNeverDelivered'
  BY <1>1 DEF setOpenEventStatus, Evcb
<1>2. ASSUME NEW s \in Slots, evcb' = Consume(s) PROVE CallbackNeverDelivered'
  BY <1>2 DEF Consume, Evcb
<1>3. ASSUME NEW a \in OpenArgs, OpenEvent(a) PROVE CallbackNeverDelivered'
  BY <1>3 DEF OpenEvent, FreeSlots
<1>4. ASSUME NEW a \in OpenArgs, UnDeliverEvent(a.ev, a.spec)
      PROVE  CallbackNeverDelivered'
  BY <1>4 DEF UnDeliverEvent, Evcb
<1>5. ASSUME NEW a \in OpenArgs, DeliverEvent(a.ev, a.spec)
      PROVE  CallbackNeverDelivered'
  BY <1>5 DEF DeliverEvent
<1>6. ASSUME _96_remove PROVE CallbackNeverDelivered'
  BY <1>6 DEF _96_remove, Evcb
<1>7. ASSUME NEW n \in ConfSizes, SetConf(n) PROVE CallbackNeverDelivered'
  BY <1>7 DEF SetConf, ZeroEvcb
<1>8. QED
  BY <1>1, <1>2, <1>3, <1>4, <1>5, <1>6, <1>7
  DEF EventCall, CloseEvent, EnableEvent, DisableEvent, TestEvent, WaitEvent

(* A walk marks the slots before the callback it stops at, none of which   *)
(* is a callback that matches.                                             *)
LEMMA CallbackWalk ==
  ASSUME TypeOK, CallbackNeverDelivered, NEW f \in Frames, NEW n \in Nat,
         n <= evcbMax, \A t \in Callbacks(f) : n <= t, evcb' = SignalUpTo(f, n)
  PROVE  CallbackNeverDelivered'
<1> SUFFICES ASSUME NEW s \in Slots, evcb'[s].mode = "CALLBACK",
                    evcb'[s].status = "DELIVERED"
             PROVE  FALSE
  BY DEF CallbackNeverDelivered
<1>1. evcb[s] \in Evcb /\ s \in Nat /\ f.i \in Nat /\ evcbMax \in Nat
  BY SizesAssumption DEF TypeOK, TableOK, Slots, Frames
<1>2. CASE f.i <= s /\ s < n /\ Hit(s, f.ev, f.spec)
  <2>1. evcb'[s] = [evcb[s] EXCEPT !.status = "DELIVERED"]
    BY <1>2 DEF SignalUpTo
  <2>2. evcb[s].mode = "CALLBACK"
    BY <1>1, <2>1 DEF Evcb
  <2>3. s \in Callbacks(f)
    BY <1>1, <1>2, <2>2 DEF Callbacks
  <2>4. QED
    BY <1>1, <1>2, <2>3
<1>3. CASE ~(f.i <= s /\ s < n /\ Hit(s, f.ev, f.spec))
  BY <1>3 DEF SignalUpTo, CallbackNeverDelivered
<1>4. QED
  BY <1>2, <1>3

(* A callback event never holds a delivery: WaitEvent and TestEvent report *)
(* only events opened without a callback.                                  *)
THEOREM CallbacksNeverDelivered == Spec => []CallbackNeverDelivered
<1>1. Init => CallbackNeverDelivered
  BY DEF Init, ZeroEvcb, CallbackNeverDelivered
<1>2. ASSUME TypeOK, CallbackNeverDelivered, [Next]_vars
      PROVE  CallbackNeverDelivered'
  <2>1. CASE EventCall
    BY <1>2, <2>1, CallbackEventCall
  <2>2. ASSUME UNCHANGED evcb PROVE CallbackNeverDelivered'
    BY <1>2, <2>2 DEF CallbackNeverDelivered
  <2>3. CASE CardCall
    BY <2>2, <2>3
    DEF CardCall, _card_info_busy, _card_info, _card_load, _card_readwrite,
        readwrite, _bu_init, firstfile, delete, callVars
  <2>4. ASSUME NEW n \in Slots, WalkToCallback(n) PROVE CallbackNeverDelivered'
    <3>1. stack # <<>> /\ n \in Nat /\ n <= evcbMax
      BY <1>2, <2>4, SizesAssumption
      DEF WalkToCallback, WalkRuns, Callbacks, TypeOK, TableOK, Slots
    <3>2. QED
      BY <1>2, <2>4, <3>1, TopType, CallbackWalk DEF WalkToCallback, TypeOK
  <2>5. CASE WalkEnds
    <3>1. stack # <<>> /\ evcbMax \in Nat
      BY <1>2, <2>5, SizesAssumption DEF WalkEnds, WalkRuns, TypeOK, TableOK
    <3>2. QED
      BY <1>2, <2>5, <3>1, TopType, CallbackWalk DEF WalkEnds, TypeOK
  <2>6. CASE HandlerReturns \/ Interrupt \/ DeliverAsyncEvent
             \/ biosInterrupt \/ InterruptReturns
    BY <2>2, <2>6
    DEF HandlerReturns, Interrupt, DeliverAsyncEvent, biosInterrupt, InterruptReturns
  <2>7. CASE UNCHANGED vars
    BY <2>2, <2>7 DEF vars
  <2>8. QED
    BY <1>2, <2>1, <2>3, <2>4, <2>5, <2>6, <2>7 DEF Next, Kernel
<1>3. QED
  BY <1>1, <1>2, TypeCorrect, PTL DEF Spec
-----------------------------------------------------------------------------
(* One interrupt at a time.  The invariant is made inductive by adding     *)
(* that the code an interrupt came in on is inside a handler (or is the    *)
(* main program), so the walk it belongs to stays where it is until the    *)
(* exception returns.                                                      *)

InterruptedInHandler == irq \in DOMAIN stack => stack[irq].h # NoHandler

IrqInv == OneInterrupt /\ InterruptedInHandler

LEMMA IrqInit == Init => IrqInv
  BY DEF Init, IrqInv, OneInterrupt, InterruptedInHandler, NoIrq

(* Guest code starts a walk.                                               *)
LEMMA GuestPush ==
  ASSUME TypeOK, IrqInv, ~ExceptionRuns, NEW f \in Frames, f.by = "guest",
         Push(f), UNCHANGED irqVars
  PROVE  IrqInv'
<1>1. /\ stack' = Append(stack, f) /\ stack \in Seq(Frames)
      /\ irq' = irq /\ irq \in Int /\ irq # Len(stack)
      /\ batch' = batch /\ timers' = timers
  BY SizesAssumption DEF Push, TypeOK, StackOK, InterruptOK, irqVars, ExceptionRuns, NoIrq
<1>2. /\ DOMAIN stack' = 1 .. Len(stack) + 1 /\ Len(stack') = Len(stack) + 1
      /\ \A k \in 1 .. Len(stack) : stack'[k] = stack[k]
      /\ stack'[Len(stack) + 1] = f
  BY <1>1
<1>3. OneInterrupt'
  BY <1>1, <1>2 DEF IrqInv, OneInterrupt
<1>4. InterruptedInHandler'
  BY <1>1, <1>2 DEF IrqInv, OneInterrupt, InterruptedInHandler, NoIrq
<1>5. QED
  BY <1>3, <1>4 DEF IrqInv

(* The exception handler starts a walk.                                    *)
LEMMA IrqPush ==
  ASSUME TypeOK, IrqInv, ExceptionRuns, NEW f \in Frames,
         Push(f), UNCHANGED irq
  PROVE  IrqInv'
<1>1. /\ stack' = Append(stack, f) /\ stack \in Seq(Frames)
      /\ irq' = irq /\ irq = Len(stack) /\ Len(stack) \in Nat /\ irq # NoIrq
  BY DEF Push, TypeOK, StackOK, ExceptionRuns, NoIrq
<1>2. /\ DOMAIN stack' = 1 .. Len(stack) + 1 /\ Len(stack') = Len(stack) + 1
      /\ \A k \in 1 .. Len(stack) : stack'[k] = stack[k]
  BY <1>1
<1>3. OneInterrupt'
  BY <1>1, <1>2 DEF IrqInv, OneInterrupt
<1>4. InterruptedInHandler'
  BY <1>1, <1>2 DEF IrqInv, InterruptedInHandler
<1>5. QED
  BY <1>3, <1>4 DEF IrqInv

(* A walk or a handler changes the frame on top, above the interrupt.      *)
LEMMA IrqReplaceTop ==
  ASSUME TypeOK, IrqInv, stack # <<>>, irq # Len(stack), NEW f \in Frames,
         f.by = Top.by, stack' = [stack EXCEPT ![Len(stack)] = f],
         UNCHANGED irqVars
  PROVE  IrqInv'
<1>1. /\ stack \in Seq(Frames) /\ Len(stack) \in DOMAIN stack
      /\ DOMAIN stack' = DOMAIN stack /\ Len(stack') = Len(stack)
      /\ \A k \in DOMAIN stack : k # Len(stack) => stack'[k] = stack[k]
      /\ stack'[Len(stack)] = f /\ stack[Len(stack)] = Top
      /\ irq' = irq /\ batch' = batch /\ timers' = timers
  BY TopType DEF TypeOK, StackOK, Top, irqVars
<1>2. OneInterrupt'
  BY <1>1 DEF IrqInv, OneInterrupt
<1>3. InterruptedInHandler'
  BY <1>1 DEF IrqInv, InterruptedInHandler
<1>4. QED
  BY <1>2, <1>3 DEF IrqInv

(* A running walk is never the one an interrupt came in on.                *)
LEMMA WalkNotInterrupted ==
  ASSUME TypeOK, IrqInv, WalkRuns
  PROVE  stack # <<>> /\ irq # Len(stack)
  BY TopType DEF TypeOK, WalkRuns, IrqInv, InterruptedInHandler, Top

LEMMA IrqKernel == TypeOK /\ IrqInv /\ Kernel => IrqInv'
<1> SUFFICES ASSUME TypeOK, IrqInv, Kernel PROVE IrqInv'
  OBVIOUS
<1>1. ASSUME NEW n \in Slots, WalkToCallback(n) PROVE IrqInv'
  <2> DEFINE f == [Top EXCEPT !.i = n + 1, !.h = evcb[n].fhandler]
  <2>1. stack # <<>> /\ irq # Len(stack)
    BY <1>1, WalkNotInterrupted DEF WalkToCallback
  <2>2. n + 1 \in Nat /\ evcb[n].fhandler \in Handlers
    BY DEF Slots, TypeOK, TableOK, Evcb
  <2>3. /\ stack' = [stack EXCEPT ![Len(stack)] = f]
        /\ f \in Frames /\ f.by = Top.by
    BY <1>1, <2>1, <2>2, TopType DEF WalkToCallback, Top, Frames, TypeOK, StackOK
  <2>4. QED
    BY <1>1, <2>1, <2>3, IrqReplaceTop DEF WalkToCallback
<1>2. ASSUME HandlerReturns PROVE IrqInv'
  <2> DEFINE f == [Top EXCEPT !.h = NoHandler]
  <2>1. stack # <<>> /\ irq # Len(stack)
    BY <1>2 DEF HandlerReturns, GuestRuns, ExceptionRuns
  <2>2. /\ stack' = [stack EXCEPT ![Len(stack)] = f]
        /\ f \in Frames /\ f.by = Top.by
    BY <1>2, <2>1, TopType DEF HandlerReturns, Top, Frames, Handlers, TypeOK, StackOK
  <2>3. QED
    BY <1>2, <2>1, <2>2, IrqReplaceTop DEF HandlerReturns
<1>3. ASSUME WalkEnds PROVE IrqInv'
  <2>1. stack # <<>> /\ irq # Len(stack)
    BY <1>3, WalkNotInterrupted DEF WalkEnds
  <2>2. /\ stack' = SubSeq(stack, 1, Len(stack) - 1)
        /\ irq' = irq /\ batch' = batch /\ timers' = timers
    BY <1>3 DEF WalkEnds, irqVars
  <2>3. stack \in Seq(Frames) /\ stack' \in Seq(Frames)
        /\ Len(stack') = Len(stack) - 1
    BY <2>1, <2>2, PopType DEF TypeOK, StackOK
  <2>4. \A k \in DOMAIN stack' : k \in DOMAIN stack /\ stack'[k] = stack[k]
    BY <2>2, <2>3
  <2>5. irq \in Int
    BY SizesAssumption DEF TypeOK, InterruptOK, NoIrq
  <2>6. OneInterrupt'
    BY <2>1, <2>2, <2>3, <2>4, <2>5 DEF IrqInv, OneInterrupt
  <2>7. InterruptedInHandler'
    BY <2>2, <2>4 DEF IrqInv, InterruptedInHandler
  <2>8. QED
    BY <2>6, <2>7 DEF IrqInv
<1>4. ASSUME Interrupt PROVE IrqInv'
  <2>1. /\ irq = NoIrq /\ irq' = Len(stack) /\ stack' = stack
        /\ Len(stack) \in Nat /\ GuestRuns
    BY <1>4 DEF Interrupt, TypeOK, StackOK
  <2>2. \A k \in DOMAIN stack : stack[k].by # "irq"
    BY <2>1 DEF IrqInv, OneInterrupt
  <2>3. OneInterrupt'
    BY <2>1, <2>2 DEF OneInterrupt, NoIrq
  <2>4. InterruptedInHandler'
    BY <2>1 DEF InterruptedInHandler, GuestRuns, WalkRuns, Top
  <2>5. QED
    BY <2>3, <2>4 DEF IrqInv
<1>5. ASSUME DeliverAsyncEvent PROVE IrqInv'
  <2>1. Head(batch) \in AsyncEventInfo
    BY <1>5 DEF DeliverAsyncEvent, TypeOK, InterruptOK
  <2>2. Walk(Head(batch).ev, Head(batch).spec, "irq", <<>>) \in Frames
    BY <2>1, WalkType, CardTypes, EmptySeqType DEF AsyncEventInfo
  <2>3. QED
    BY <1>5, <2>2, IrqPush DEF DeliverAsyncEvent
<1>6. ASSUME biosInterrupt PROVE IrqInv'
  <2>1. Head(timers) \in TimerEvents
    BY <1>6 DEF biosInterrupt, TypeOK, InterruptOK
  <2>2. Walk(Head(timers).ev, Head(timers).spec, "irq", <<>>) \in Frames
    BY <2>1, WalkType, EmptySeqType DEF TimerEvents, Classes
  <2>3. QED
    BY <1>6, <2>2, IrqPush DEF biosInterrupt
<1>7. ASSUME InterruptReturns PROVE IrqInv'
  <2>1. /\ irq' = NoIrq /\ stack' = stack /\ batch' = <<>> /\ timers' = <<>>
        /\ irq = Len(stack) /\ stack \in Seq(Frames)
    BY <1>7 DEF InterruptReturns, ExceptionRuns, TypeOK, StackOK
  <2>2. \A k \in DOMAIN stack : stack[k].by # "irq"
    BY <2>1 DEF IrqInv, OneInterrupt
  <2>3. QED
    BY <2>1, <2>2 DEF IrqInv, OneInterrupt, InterruptedInHandler, NoIrq
<1>8. QED
  BY <1>1, <1>2, <1>3, <1>4, <1>5, <1>6, <1>7 DEF Kernel

LEMMA IrqUnchanged ==
  ASSUME IrqInv, UNCHANGED <<stack, irq, batch, timers>>
  PROVE  IrqInv'
  BY DEF IrqInv, OneInterrupt, InterruptedInHandler

LEMMA IrqNext == TypeOK /\ IrqInv /\ [Next]_vars => IrqInv'
<1> SUFFICES ASSUME TypeOK, IrqInv, [Next]_vars PROVE IrqInv'
  OBVIOUS
<1>1. ASSUME NEW a \in OpenArgs, DeliverEvent(a.ev, a.spec) PROVE IrqInv'
  <2>1. Walk(a.ev, a.spec, "guest", <<>>) \in Frames
    BY ArgsAssumption, WalkType, EmptySeqType DEF Classes
  <2>2. QED
    BY <1>1, <2>1, GuestPush DEF DeliverEvent, CanCall, GuestRuns, Walk
<1>2. ASSUME NEW p \in Chans, NEW cards \in CardSets, firstfile(p, cards) PROVE IrqInv'
  <2> DEFINE spec == IF p \in cards THEN END_IO ELSE TIMEOUT
             e == Event(CARD_BIOS, spec, p, 1)
             f == Walk(CARD_HW, spec, "guest", <<e>>)
  <2>1. <<e>> \in Seq(AsyncEventInfo)
    BY EventType, SizesAssumption
  <2>2. f \in Frames
    BY <2>1, CardTypes, WalkType
  <2>3. f.by = "guest"
    BY DEF Walk
  <2>4. Push(f) /\ ~ExceptionRuns /\ UNCHANGED irqVars
    BY <1>2 DEF firstfile, CanCall, GuestRuns
  <2>5. QED
    <3> HIDE DEF f
    <3> QED BY <2>2, <2>3, <2>4, GuestPush
<1>3. ASSUME delete PROVE IrqInv'
  <2>1. Walk(CARD_HW, END_IO, "guest", <<>>) \in Frames
    BY CardTypes, WalkType, EmptySeqType
  <2>2. QED
    BY <1>3, <2>1, GuestPush DEF delete, CanCall, GuestRuns, Walk
<1>4. CASE EventCall
  BY <1>1, <1>4, IrqUnchanged
  DEF EventCall, OpenEvent, UnDeliverEvent, CloseEvent, EnableEvent, DisableEvent,
      TestEvent, WaitEvent, _96_remove, SetConf, tableVars, irqVars
<1>5. CASE CardCall
  BY <1>2, <1>3, <1>5, IrqUnchanged
  DEF CardCall, _card_info_busy, _card_info, _card_load, _card_readwrite,
      readwrite, _bu_init, callVars, irqVars
<1>6. CASE Kernel
  BY <1>6, IrqKernel
<1>7. CASE UNCHANGED vars
  BY <1>7, IrqUnchanged DEF vars
<1>8. QED
  BY <1>4, <1>5, <1>6, <1>7 DEF Next

(* Interrupts are serviced one at a time, and a walk started by the        *)
(* exception handler sits right above the code it interrupted.             *)
THEOREM InterruptsDoNotNest == Spec => []OneInterrupt
<1>1. IrqInv => OneInterrupt
  BY DEF IrqInv
<1>2. QED
  BY <1>1, IrqInit, IrqNext, TypeCorrect, PTL DEF Spec

(* Queued events alone never make a handler run inside itself: of two      *)
(* activations of a handler, one belongs to a synchronous delivery.        *)
THEOREM AsyncHandlersNotReentered == Spec => []ReentryOnlySynchronous
<1>1. TypeOK /\ OneInterrupt => ReentryOnlySynchronous
  <2> SUFFICES ASSUME TypeOK, OneInterrupt,
                      NEW j \in DOMAIN stack, NEW k \in DOMAIN stack, j < k,
                      \A m \in j .. k : stack[m].by # "guest"
               PROVE  FALSE
    BY DEF ReentryOnlySynchronous
  <2>1. /\ stack[j] \in Frames /\ stack[k] \in Frames
        /\ j \in j .. k /\ k \in j .. k
    BY DEF TypeOK, StackOK
  <2>2. stack[j].by = "irq" /\ stack[k].by = "irq"
    BY <2>1 DEF Frames
  <2>3. QED
    BY <2>2 DEF OneInterrupt
<1>2. QED
  BY <1>1, InterruptsDoNotNest, TypeCorrect, PTL
-----------------------------------------------------------------------------
(* Busy ports and the queue.  The invariant is made inductive by adding    *)
(* that what firstfile posts after its walk answers no _card_info.         *)

AfterIsPlain ==
  \A k \in DOMAIN stack : \A j \in DOMAIN stack[k].after :
    stack[k].after[j].info = NoPort

BusyInv == BusyIsPending /\ OneInfoPerPort

(* The queue has only got longer, by events that answer no _card_info.     *)
GrownPlain ==
  /\ \A k \in DOMAIN queue : k \in DOMAIN queue' /\ queue'[k] = queue[k]
  /\ \A k \in DOMAIN queue' : k \in DOMAIN queue \/ queue'[k].info = NoPort

LEMMA EnqueueElements ==
  ASSUME NEW q \in Seq(AsyncEventInfo), NEW e \in AsyncEventInfo
  PROVE  /\ \A k \in DOMAIN q : k \in DOMAIN Enqueue(q, e) /\ Enqueue(q, e)[k] = q[k]
         /\ \A k \in DOMAIN Enqueue(q, e) :
              k \in DOMAIN q \/ (k = Len(q) + 1 /\ Enqueue(q, e)[k] = e)
         /\ Len(q) < QueueSize =>
              /\ Len(q) + 1 \in DOMAIN Enqueue(q, e)
              /\ Enqueue(q, e)[Len(q) + 1] = e
<1>1. CASE Len(q) < QueueSize
  BY <1>1 DEF Enqueue
<1>2. CASE ~(Len(q) < QueueSize)
  BY <1>2 DEF Enqueue
<1>3. QED
  BY <1>1, <1>2

LEMMA Post1Grows ==
  ASSUME QueueOK, NEW e \in AsyncEventInfo, e.info = NoPort, Post1(e)
  PROVE  GrownPlain
  BY EnqueueElements DEF QueueOK, Post1, GrownPlain

LEMMA Post2Grows ==
  ASSUME QueueOK, NEW e \in AsyncEventInfo, NEW f \in AsyncEventInfo,
         e.info = NoPort, f.info = NoPort, Post2(e, f)
  PROVE  GrownPlain
<1> DEFINE q == Enqueue(queue, e)
<1>1. q \in Seq(AsyncEventInfo)
  BY EnqueueType DEF QueueOK
<1>2. /\ \A k \in DOMAIN queue : k \in DOMAIN q /\ q[k] = queue[k]
      /\ \A k \in DOMAIN q : k \in DOMAIN queue \/ q[k].info = NoPort
  BY EnqueueElements DEF QueueOK
<1>3. queue' = Enqueue(q, f)
  BY DEF Post2
<1>4. QED
  <2> HIDE DEF q
  <2>1. /\ \A k \in DOMAIN q : k \in DOMAIN queue' /\ queue'[k] = q[k]
        /\ \A k \in DOMAIN queue' : k \in DOMAIN q \/ queue'[k].info = NoPort
    BY <1>1, <1>3, EnqueueElements
  <2>2. QED
    BY <1>2, <2>1 DEF GrownPlain

(* Such events leave what is known of the busy ports as it was.            *)
LEMMA GrownKeepsBusy ==
  ASSUME BusyInv, GrownPlain, UNCHANGED <<busy, lost>>
  PROVE  BusyInv'
<1>1. BusyIsPending'
  BY DEF BusyInv, BusyIsPending, GrownPlain
<1>2. OneInfoPerPort'
  BY DEF BusyInv, OneInfoPerPort, GrownPlain
<1>3. QED
  BY <1>1, <1>2 DEF BusyInv

LEMMA BusyUnchanged ==
  ASSUME BusyInv, UNCHANGED <<queue, busy, lost>>
  PROVE  BusyInv'
  BY DEF BusyInv, BusyIsPending, OneInfoPerPort

LEMMA PlainEvent ==
  ASSUME NEW ev \in {CARD_HW, CARD_BIOS}, NEW p \in Nat, NEW r \in Nat
  PROVE  Event(ev, END_IO, p, r) \in AsyncEventInfo
         /\ Event(ev, END_IO, p, r).info = NoPort
  BY EventType DEF Event

(* An accepted _card_info: the port was not busy, so no answer to another  *)
(* _card_info of this port is queued.                                      *)
LEMMA CardInfoBusy ==
  ASSUME TypeOK, BusyInv, NEW p \in Chans, NEW cards \in CardSets, _card_info(p, cards)
  PROVE  BusyInv'
<1> DEFINE e == [Event(CARD_BIOS, InfoSpec(p, cards), p, 1) EXCEPT !.info = p]
           f == Event(CARD_HW, END_IO, p, 1)
           q == Enqueue(queue, e)
<1>1. p \in Nat /\ p # NoPort
  BY SizesAssumption DEF NoPort
<1>2. Event(CARD_BIOS, InfoSpec(p, cards), p, 1) \in AsyncEventInfo
  BY <1>1, EventType DEF InfoSpec
<1>3. e \in AsyncEventInfo /\ e.info = p /\ e.port = p % PortMod
  BY <1>1, <1>2 DEF AsyncEventInfo, Event
<1>4. f \in AsyncEventInfo /\ f.info = NoPort
  BY <1>1, PlainEvent
<1>5. /\ queue \in Seq(AsyncEventInfo) /\ Len(queue) \in Nat /\ Len(queue) <= QueueSize
      /\ busy' = busy \cup {p} /\ p \notin busy
      /\ queue' = Enqueue(q, f)
      /\ lost' = IF Len(queue) < QueueSize /\ p < PortMod THEN lost ELSE lost \cup {p}
  BY DEF _card_info, Post2, TypeOK, QueueOK
<1> HIDE DEF e, f
<1>6. /\ \A k \in DOMAIN queue : k \in DOMAIN q /\ q[k] = queue[k]
      /\ \A k \in DOMAIN q : k \in DOMAIN queue \/ (k = Len(queue) + 1 /\ q[k] = e)
      /\ Len(queue) < QueueSize =>
           Len(queue) + 1 \in DOMAIN q /\ q[Len(queue) + 1] = e
  BY <1>3, <1>5, EnqueueElements
<1>7. q \in Seq(AsyncEventInfo)
  BY <1>3, <1>5, EnqueueType
<1> HIDE DEF q
<1>8. /\ \A k \in DOMAIN q : k \in DOMAIN queue' /\ queue'[k] = q[k]
      /\ \A k \in DOMAIN queue' : k \in DOMAIN q \/ queue'[k].info = NoPort
  BY <1>4, <1>5, <1>7, EnqueueElements
<1>9. BusyIsPending'
  <2> SUFFICES ASSUME NEW b \in busy', b \notin lost'
               PROVE  \E k \in DOMAIN queue' : queue'[k].port \in {b, INVALID_PORT}
    BY DEF BusyIsPending
  <2>1. CASE b = p
    <3>1. Len(queue) < QueueSize /\ p < PortMod
      BY <1>5, <2>1
    <3>2. p % PortMod = p
      BY <1>1, <3>1, SizesAssumption
    <3>3. QED
      BY <1>3, <1>6, <1>8, <2>1, <3>1, <3>2
  <2>2. CASE b # p
    <3>1. b \in busy \ lost
      BY <1>5, <2>2
    <3>2. QED
      BY <1>6, <1>8, <3>1 DEF BusyInv, BusyIsPending
  <2>3. QED
    BY <2>1, <2>2
<1>10. OneInfoPerPort'
  <2>1. \A k \in DOMAIN queue : queue[k].info # p
    BY <1>1, <1>5 DEF BusyInv, OneInfoPerPort
  <2>2. \A k \in DOMAIN queue' :
          \/ queue'[k].info = NoPort
          \/ k \in DOMAIN queue /\ queue'[k] = queue[k]
          \/ k = Len(queue) + 1 /\ queue'[k].info = p
    BY <1>3, <1>6, <1>8
  <2>3. QED
    BY <1>5, <2>1, <2>2 DEF BusyInv, OneInfoPerPort
<1>11. QED
  BY <1>9, <1>10 DEF BusyInv

(* The answers to _card_info the interrupt takes on clear the busy bits.   *)
LEMMA InterruptBusy ==
  ASSUME BusyInv, Interrupt
  PROVE  BusyInv'
<1>1. DOMAIN queue' = {}
  BY DEF Interrupt
<1>2. busy' \ lost' = {}
  BY DEF Interrupt, ClearBusy, BusyInv, BusyIsPending
<1>3. QED
  BY <1>1, <1>2 DEF BusyInv, BusyIsPending, OneInfoPerPort

LEMMA BusyEventCall ==
  ASSUME BusyInv, EventCall
  PROVE  BusyInv'
<1>1. ASSUME NEW n \in ConfSizes, SetConf(n) PROVE BusyInv'
  <2>1. DOMAIN queue' = {} /\ busy' \ lost' = {}
    BY <1>1 DEF SetConf
  <2>2. QED
    BY <2>1 DEF BusyInv, BusyIsPending, OneInfoPerPort
<1>2. QED
  BY <1>1, BusyUnchanged
  DEF EventCall, OpenEvent, UnDeliverEvent, DeliverEvent, CloseEvent, EnableEvent,
      DisableEvent, TestEvent, WaitEvent, _96_remove, tableVars, cardVars

LEMMA BusyCardCall ==
  ASSUME TypeOK, BusyInv, CardCall
  PROVE  BusyInv'
<1>1. QueueOK
  BY DEF TypeOK
<1>2. ASSUME NEW p \in Chans, _card_load(p) PROVE BusyInv'
  <2>1. GrownPlain
    BY <1>1, <1>2, PlainEvent, Post2Grows, SizesAssumption DEF _card_load
  <2>2. QED
    BY <1>2, <2>1, GrownKeepsBusy DEF _card_load
<1>3. ASSUME NEW p \in Chans, _card_readwrite(p) PROVE BusyInv'
  <2>1. GrownPlain
    BY <1>1, <1>3, PlainEvent, Post1Grows, SizesAssumption DEF _card_readwrite
  <2>2. QED
    BY <1>3, <2>1, GrownKeepsBusy DEF _card_readwrite
<1>4. ASSUME NEW p \in Chans, NEW r \in Repeats, readwrite(p, r) PROVE BusyInv'
  <2>1. GrownPlain
    BY <1>1, <1>4, PlainEvent, Post2Grows, SizesAssumption DEF readwrite
  <2>2. QED
    BY <1>4, <2>1, GrownKeepsBusy DEF readwrite
<1>5. ASSUME _bu_init PROVE BusyInv'
  <2>1. INVALID_PORT \in Nat
    BY SizesAssumption DEF INVALID_PORT
  <2>2. GrownPlain
    BY <1>1, <1>5, <2>1, PlainEvent, Post2Grows DEF _bu_init
  <2>3. QED
    BY <1>5, <2>2, GrownKeepsBusy DEF _bu_init
<1>6. QED
  BY <1>2, <1>3, <1>4, <1>5, CardInfoBusy, BusyUnchanged
  DEF CardCall, _card_info_busy, firstfile, delete, cardVars

LEMMA BusyKernel ==
  ASSUME TypeOK, AfterIsPlain, BusyInv, Kernel
  PROVE  BusyInv'
<1>1. ASSUME WalkEnds PROVE BusyInv'
  <2>1. CASE Top.after = <<>>
    BY <1>1, <2>1, BusyUnchanged DEF WalkEnds
  <2>2. CASE Top.after # <<>>
    <3>1. Len(stack) \in DOMAIN stack /\ Top.after \in Seq(AsyncEventInfo)
      BY <1>1, TopType DEF WalkEnds, WalkRuns, TypeOK, Frames
    <3>2. Top.after[1] \in AsyncEventInfo /\ 1 \in DOMAIN Top.after
      BY <2>2, <3>1
    <3>3. Top.after[1].info = NoPort
      BY <3>1, <3>2 DEF AfterIsPlain, Top
    <3>4. GrownPlain
      BY <1>1, <2>2, <3>2, <3>3, Post1Grows DEF WalkEnds, TypeOK
    <3>5. QED
      BY <1>1, <3>4, GrownKeepsBusy DEF WalkEnds
  <2>3. QED
    BY <2>1, <2>2
<1>2. QED
  BY <1>1, InterruptBusy, BusyUnchanged
  DEF Kernel, WalkToCallback, HandlerReturns, DeliverAsyncEvent, biosInterrupt,
      InterruptReturns, cardVars

(* A new walk posts plain events, or none.                                 *)
LEMMA PlainPush ==
  ASSUME TypeOK, AfterIsPlain, NEW f \in Frames, Push(f),
         \A j \in DOMAIN f.after : f.after[j].info = NoPort
  PROVE  AfterIsPlain'
<1>1. /\ stack \in Seq(Frames) /\ stack' = Append(stack, f)
  BY DEF TypeOK, StackOK, Push
<1>2. \A k \in DOMAIN stack' : stack'[k] = f \/ (k \in DOMAIN stack /\ stack'[k] = stack[k])
  BY <1>1
<1>3. QED
  BY <1>2 DEF AfterIsPlain

(* A walk going on keeps what it will post.                                *)
LEMMA PlainReplaceTop ==
  ASSUME TypeOK, AfterIsPlain, stack # <<>>, NEW f \in Frames, f.after = Top.after,
         stack' = [stack EXCEPT ![Len(stack)] = f]
  PROVE  AfterIsPlain'
<1>1. /\ Len(stack) \in DOMAIN stack /\ DOMAIN stack' = DOMAIN stack
      /\ \A k \in DOMAIN stack : stack'[k].after = stack[k].after
  BY TopType DEF TypeOK, StackOK, Top
<1>2. QED
  BY <1>1 DEF AfterIsPlain

LEMMA PlainPop ==
  ASSUME TypeOK, AfterIsPlain, stack # <<>>, stack' = SubSeq(stack, 1, Len(stack) - 1)
  PROVE  AfterIsPlain'
<1>1. stack' \in Seq(Frames) /\ Len(stack') = Len(stack) - 1 /\ stack \in Seq(Frames)
  BY PopType DEF TypeOK, StackOK
<1>2. \A k \in DOMAIN stack' : k \in DOMAIN stack /\ stack'[k] = stack[k]
  BY <1>1
<1>3. QED
  BY <1>2 DEF AfterIsPlain

LEMMA PlainUnchanged ==
  ASSUME AfterIsPlain, UNCHANGED stack
  PROVE  AfterIsPlain'
  BY DEF AfterIsPlain

LEMMA PlainCalls ==
  ASSUME TypeOK, AfterIsPlain, EventCall \/ CardCall
  PROVE  AfterIsPlain'
<1>1. ASSUME NEW ev \in Classes, NEW spec \in Nat,
             Push(Walk(ev, spec, "guest", <<>>))
      PROVE  AfterIsPlain'
  <2>1. Walk(ev, spec, "guest", <<>>) \in Frames
    BY WalkType, EmptySeqType
  <2>2. DOMAIN Walk(ev, spec, "guest", <<>>).after = {}
    BY DEF Walk
  <2>3. QED
    BY <1>1, <2>1, <2>2, PlainPush
<1>2. ASSUME NEW a \in OpenArgs, DeliverEvent(a.ev, a.spec) PROVE AfterIsPlain'
  BY <1>1, <1>2, ArgsAssumption DEF DeliverEvent, Classes
<1>3. ASSUME delete PROVE AfterIsPlain'
  BY <1>1, <1>3, CardTypes DEF delete
<1>4. ASSUME NEW p \in Chans, NEW cards \in CardSets, firstfile(p, cards) PROVE AfterIsPlain'
  <2> DEFINE spec == IF p \in cards THEN END_IO ELSE TIMEOUT
             e == Event(CARD_BIOS, spec, p, 1)
             f == Walk(CARD_HW, spec, "guest", <<e>>)
  <2>1. e \in AsyncEventInfo /\ e.info = NoPort
    BY EventType, SizesAssumption DEF Event
  <2>2. <<e>> \in Seq(AsyncEventInfo) /\ \A j \in DOMAIN <<e>> : <<e>>[j].info = NoPort
    BY <2>1
  <2>3. f \in Frames /\ f.after = <<e>>
    BY <2>2, CardTypes, WalkType DEF Walk
  <2>4. Push(f)
    BY <1>4 DEF firstfile
  <2>5. QED
    <3> HIDE DEF e, f
    <3> QED BY <2>2, <2>3, <2>4, PlainPush
<1>5. QED
  BY <1>2, <1>3, <1>4, PlainUnchanged
  DEF EventCall, OpenEvent, UnDeliverEvent, CloseEvent, EnableEvent, DisableEvent,
      TestEvent, WaitEvent, _96_remove, SetConf, tableVars,
      CardCall, _card_info_busy, _card_info, _card_load, _card_readwrite,
      readwrite, _bu_init, callVars

LEMMA PlainKernel ==
  ASSUME TypeOK, AfterIsPlain, Kernel
  PROVE  AfterIsPlain'
<1>1. ASSUME NEW n \in Slots, WalkToCallback(n) PROVE AfterIsPlain'
  <2> DEFINE f == [Top EXCEPT !.i = n + 1, !.h = evcb[n].fhandler]
  <2>1. stack # <<>> /\ n + 1 \in Nat /\ evcb[n].fhandler \in Handlers
    BY <1>1 DEF WalkToCallback, WalkRuns, Slots, TypeOK, TableOK, Evcb
  <2>2. /\ stack' = [stack EXCEPT ![Len(stack)] = f]
        /\ f \in Frames /\ f.after = Top.after
    BY <1>1, <2>1, TopType DEF WalkToCallback, Top, Frames, TypeOK, StackOK
  <2>3. QED
    BY <2>1, <2>2, PlainReplaceTop
<1>2. ASSUME HandlerReturns PROVE AfterIsPlain'
  <2> DEFINE f == [Top EXCEPT !.h = NoHandler]
  <2>1. /\ stack # <<>> /\ stack' = [stack EXCEPT ![Len(stack)] = f]
        /\ f \in Frames /\ f.after = Top.after
    BY <1>2, TopType DEF HandlerReturns, Top, Frames, Handlers, TypeOK, StackOK
  <2>2. QED
    BY <2>1, PlainReplaceTop
<1>3. ASSUME WalkEnds PROVE AfterIsPlain'
  BY <1>3, PlainPop DEF WalkEnds, WalkRuns
<1>4. ASSUME NEW ev \in Classes, NEW spec \in Nat, Push(Walk(ev, spec, "irq", <<>>))
      PROVE  AfterIsPlain'
  <2>1. Walk(ev, spec, "irq", <<>>) \in Frames
    BY WalkType, EmptySeqType
  <2>2. DOMAIN Walk(ev, spec, "irq", <<>>).after = {}
    BY DEF Walk
  <2>3. QED
    BY <1>4, <2>1, <2>2, PlainPush
<1>5. ASSUME DeliverAsyncEvent PROVE AfterIsPlain'
  <2>1. Head(batch) \in AsyncEventInfo
    BY <1>5 DEF DeliverAsyncEvent, TypeOK, InterruptOK
  <2>2. QED
    BY <1>4, <1>5, <2>1, CardTypes DEF DeliverAsyncEvent, AsyncEventInfo
<1>6. ASSUME biosInterrupt PROVE AfterIsPlain'
  <2>1. Head(timers) \in TimerEvents
    BY <1>6 DEF biosInterrupt, TypeOK, InterruptOK
  <2>2. Head(timers).ev \in Classes /\ Head(timers).spec \in Nat
    BY <2>1 DEF TimerEvents, Classes
  <2>3. QED
    BY <1>4, <1>6, <2>2 DEF biosInterrupt
<1>7. QED
  BY <1>1, <1>2, <1>3, <1>5, <1>6, PlainUnchanged
  DEF Kernel, Interrupt, InterruptReturns

LEMMA BusyCorrect == Spec => []BusyInv
<1>1. Init => BusyInv /\ AfterIsPlain
  BY DEF Init, BusyInv, BusyIsPending, OneInfoPerPort, AfterIsPlain
<1>2. ASSUME TypeOK, BusyInv, AfterIsPlain, [Next]_vars
      PROVE  BusyInv' /\ AfterIsPlain'
  <2>1. CASE EventCall
    BY <1>2, <2>1, BusyEventCall, PlainCalls
  <2>2. CASE CardCall
    BY <1>2, <2>2, BusyCardCall, PlainCalls
  <2>3. CASE Kernel
    BY <1>2, <2>3, BusyKernel, PlainKernel
  <2>4. CASE UNCHANGED vars
    BY <1>2, <2>4, BusyUnchanged, PlainUnchanged DEF vars
  <2>5. QED
    BY <1>2, <2>1, <2>2, <2>3, <2>4 DEF Next
<1>3. QED
  BY <1>1, <1>2, TypeCorrect, PTL DEF Spec

(* A port whose _card_info is refused has an answer on its way, unless the *)
(* history says it was lost.                                               *)
THEOREM BusyPortsArePending == Spec => []BusyIsPending
<1>1. BusyInv => BusyIsPending
  BY DEF BusyInv
<1>2. QED
  BY <1>1, BusyCorrect, PTL

(* Two answers to _card_info of one port are never queued together.        *)
THEOREM OneInfoQueuedPerPort == Spec => []OneInfoPerPort
<1>1. BusyInv => OneInfoPerPort
  BY DEF BusyInv
<1>2. QED
  BY <1>1, BusyCorrect, PTL

(* _card_info refuses a port exactly while its answer is outstanding.      *)
THEOREM BusyPortsAgree == Spec => []BusyPorts
BY BusyPortsArePending, OneInfoQueuedPerPort, PTL DEF BusyPorts

(* DeliverEvent's walks nest properly, whatever handlers call.             *)
THEOREM HandlersNestProperly == Spec => []HandlersNest
BY InterruptsDoNotNest, AsyncHandlersNotReentered, CallbacksNeverDelivered, PTL
DEF HandlersNest
-----------------------------------------------------------------------------
(* No walk leaves a waiter behind, where no handler re-arms an event: the  *)
(* three calls that make an event ENABLED are the main program's, which    *)
(* makes them between walks.                                               *)
HandlersRearmNone == HandlerCalls \cap {"EnableEvent", "TestEvent", "UnDeliverEvent"} = {}

(* The walks of this state that are as far as before, or at their start.   *)
WalksStand ==
  \A k \in DOMAIN stack' :
    \/ stack'[k].i = 0
    \/ /\ k \in DOMAIN stack /\ stack'[k].i = stack[k].i
       /\ stack'[k].ev = stack[k].ev /\ stack'[k].spec = stack[k].spec

(* Whether a slot will hit.                                                *)
HitsThen(s, ev, spec) ==
  evcb'[s].status = "ENABLED" /\ evcb'[s].ev = ev /\ evcb'[s].spec = spec

NoneRearmed == \A s \in Slots : evcb'[s].status = "ENABLED" => evcb'[s] = evcb[s]

LEMMA PassStands ==
  ASSUME PassLeavesNoneBehind, WalksStand, NoneRearmed, evcbMax' = evcbMax
  PROVE  PassLeavesNoneBehind'
<1> SUFFICES ASSUME NEW k \in DOMAIN stack', NEW s \in Slots,
                    s < stack'[k].i, s < evcbMax', HitsThen(s, stack'[k].ev, stack'[k].spec)
             PROVE  evcb'[s].mode = "CALLBACK"
  BY DEF PassLeavesNoneBehind, Hit, Matches, HitsThen
<1>1. s \in Nat
  BY SizesAssumption DEF Slots
<1>2. evcb'[s] = evcb[s] /\ evcb[s].status = "ENABLED"
  BY DEF NoneRearmed, HitsThen
<1>3. /\ k \in DOMAIN stack /\ stack'[k].i = stack[k].i
      /\ stack'[k].ev = stack[k].ev /\ stack'[k].spec = stack[k].spec
  BY <1>1 DEF WalksStand
<1>4. Hit(s, stack[k].ev, stack[k].spec)
  BY <1>2, <1>3 DEF Hit, Matches, HitsThen
<1> QED BY <1>2, <1>3, <1>4 DEF PassLeavesNoneBehind

LEMMA PassPush ==
  ASSUME TypeOK, PassLeavesNoneBehind, NEW ev, NEW spec, NEW by, NEW after,
         Push(Walk(ev, spec, by, after)), UNCHANGED <<evcb, evcbMax>>
  PROVE  PassLeavesNoneBehind'
<1> DEFINE f == Walk(ev, spec, by, after)
<1>1. f.i = 0
  BY DEF Walk
<1>2. stack \in Seq(Frames) /\ stack' = Append(stack, f)
  BY DEF TypeOK, StackOK, Push
<1> HIDE DEF f
<1>3. \A k \in DOMAIN stack' : stack'[k] = f \/ (k \in DOMAIN stack /\ stack'[k] = stack[k])
  BY <1>2
<1>4. WalksStand
  BY <1>1, <1>3 DEF WalksStand
<1>5. NoneRearmed
  BY DEF NoneRearmed
<1> QED BY <1>4, <1>5, PassStands

LEMMA PassSame ==
  ASSUME PassLeavesNoneBehind, NoneRearmed, UNCHANGED <<stack, evcbMax>>
  PROVE  PassLeavesNoneBehind'
BY PassStands DEF WalksStand

LEMMA PassCalls ==
  ASSUME HandlersRearmNone, TypeOK, PassLeavesNoneBehind, EventCall \/ CardCall
  PROVE  PassLeavesNoneBehind'
<1>1. evcb \in [Slots -> Evcb]
  BY DEF TypeOK, TableOK
<1>2. ASSUME stack = <<>>, stack' = stack PROVE PassLeavesNoneBehind'
  BY <1>2 DEF PassLeavesNoneBehind
<1>3. ASSUME NEW s \in Slots, EnableEvent(s) \/ TestEvent(s) \/ WaitEvent(s)
      PROVE  PassLeavesNoneBehind'
  BY <1>2, <1>3 DEF EnableEvent, TestEvent, WaitEvent, CanCall, HandlersRearmNone, tableVars
<1>4. ASSUME NEW a \in OpenArgs, UnDeliverEvent(a.ev, a.spec) PROVE PassLeavesNoneBehind'
  BY <1>2, <1>4 DEF UnDeliverEvent, CanCall, HandlersRearmNone, tableVars
<1>5. ASSUME NEW s \in Slots, CloseEvent(s) \/ DisableEvent(s) PROVE PassLeavesNoneBehind'
  <2>1. NoneRearmed
    BY <1>1, <1>5 DEF CloseEvent, DisableEvent, setOpenEventStatus, NoneRearmed, Evcb
  <2> QED BY <1>5, <2>1, PassSame DEF CloseEvent, DisableEvent, tableVars
<1>6. ASSUME NEW a \in OpenArgs, OpenEvent(a) PROVE PassLeavesNoneBehind'
  <2>1. NoneRearmed
    BY <1>1, <1>6 DEF OpenEvent, FreeSlots, NoneRearmed
  <2> QED BY <1>6, <2>1, PassSame DEF OpenEvent, tableVars
<1>7. ASSUME _96_remove PROVE PassLeavesNoneBehind'
  <2>1. NoneRearmed
    BY <1>1, <1>7 DEF _96_remove, NoneRearmed, Evcb
  <2> QED BY <1>7, <2>1, PassSame DEF _96_remove, tableVars
<1>8. ASSUME NEW n \in ConfSizes, SetConf(n) PROVE PassLeavesNoneBehind'
  <2>1. \A s \in Slots : evcb'[s].status = "FREE"
    BY <1>8 DEF SetConf, ZeroEvcb
  <2> QED BY <2>1 DEF PassLeavesNoneBehind, Hit
<1>9. ASSUME UNCHANGED <<stack, evcb, evcbMax>> PROVE PassLeavesNoneBehind'
  BY <1>9 DEF PassLeavesNoneBehind, Hit, Matches
<1>10. ASSUME NEW a \in OpenArgs, DeliverEvent(a.ev, a.spec) PROVE PassLeavesNoneBehind'
  BY <1>10, PassPush DEF DeliverEvent
<1>11. ASSUME NEW p \in Chans, NEW cards \in CardSets, firstfile(p, cards)
       PROVE  PassLeavesNoneBehind'
  BY <1>11, PassPush DEF firstfile
<1>12. ASSUME delete PROVE PassLeavesNoneBehind'
  BY <1>12, PassPush DEF delete
<1>13. CASE EventCall
  BY <1>3, <1>4, <1>5, <1>6, <1>7, <1>8, <1>10, <1>13 DEF EventCall
<1>14. CASE CardCall
  BY <1>9, <1>11, <1>12, <1>14
  DEF CardCall, _card_info_busy, _card_info, _card_load, _card_readwrite, readwrite, _bu_init,
      callVars
<1> QED BY <1>13, <1>14

(* A walk delivers to the slots it passes.                                 *)
LEMMA PassKernel ==
  ASSUME TypeOK, PassLeavesNoneBehind, Kernel
  PROVE  PassLeavesNoneBehind'
<1>1. evcb \in [Slots -> Evcb]
  BY DEF TypeOK, TableOK
<1>2. ASSUME NEW f, NEW n, evcb' = SignalUpTo(f, n)
      PROVE  /\ NoneRearmed
             /\ \A s \in Slots : evcb'[s].mode = evcb[s].mode
             /\ \A s \in Slots : f.i <= s /\ s < n => ~HitsThen(s, f.ev, f.spec)
  <2> SUFFICES ASSUME NEW s \in Slots
               PROVE  /\ evcb'[s].status = "ENABLED" => evcb'[s] = evcb[s]
                      /\ evcb'[s].mode = evcb[s].mode
                      /\ f.i <= s /\ s < n => ~HitsThen(s, f.ev, f.spec)
    BY DEF NoneRearmed
  <2>1. CASE f.i <= s /\ s < n /\ Hit(s, f.ev, f.spec)
    <3>1. evcb'[s] = [evcb[s] EXCEPT !.status = "DELIVERED"] /\ evcb[s] \in Evcb
      BY <1>1, <1>2, <2>1 DEF SignalUpTo
    <3>2. evcb'[s].status = "DELIVERED" /\ evcb'[s].mode = evcb[s].mode
      BY <3>1 DEF Evcb
    <3> QED BY <3>2 DEF HitsThen
  <2>2. CASE ~(f.i <= s /\ s < n /\ Hit(s, f.ev, f.spec))
    <3>1. evcb'[s] = evcb[s]
      BY <1>2, <2>2 DEF SignalUpTo
    <3> QED BY <2>2, <3>1 DEF Hit, Matches, HitsThen
  <2> QED BY <2>1, <2>2
<1>3. ASSUME NEW n \in Slots, WalkToCallback(n) PROVE PassLeavesNoneBehind'
  <2> DEFINE top == Len(stack)
  <2>1. /\ stack \in Seq(Frames) /\ top \in DOMAIN stack /\ stack[top] = Top /\ Top \in Frames
        /\ Top.i \in Nat /\ n \in Nat /\ evcbMax \in Nat
    BY <1>3, TopType, SizesAssumption
    DEF WalkToCallback, WalkRuns, TypeOK, TableOK, StackOK, Top, Frames, Slots
  <2>2. /\ DOMAIN stack' = DOMAIN stack
        /\ \A k \in DOMAIN stack : k # top => stack'[k] = stack[k]
        /\ stack'[top].i = n + 1 /\ stack'[top].ev = Top.ev /\ stack'[top].spec = Top.spec
    BY <1>3, <2>1 DEF WalkToCallback, Frames
  <2>3. /\ NoneRearmed
        /\ \A s \in Slots : evcb'[s].mode = evcb[s].mode
        /\ \A s \in Slots : Top.i <= s /\ s < n => ~HitsThen(s, Top.ev, Top.spec)
    BY <1>2, <1>3 DEF WalkToCallback
  <2>4. evcb[n].mode = "CALLBACK" /\ evcbMax' = evcbMax
    BY <1>3 DEF WalkToCallback, Callbacks
  <2> SUFFICES ASSUME NEW k \in DOMAIN stack', NEW s \in Slots,
                      s < stack'[k].i, s < evcbMax', HitsThen(s, stack'[k].ev, stack'[k].spec)
               PROVE  evcb'[s].mode = "CALLBACK"
    BY <2>4 DEF PassLeavesNoneBehind, Hit, Matches, HitsThen
  <2>5. s \in Nat
    BY SizesAssumption DEF Slots
  <2>6. evcb'[s] = evcb[s]
    BY <2>3 DEF NoneRearmed, HitsThen
  <2>7. Hit(s, stack'[k].ev, stack'[k].spec)
    BY <2>6 DEF Hit, Matches, HitsThen
  <2>8. CASE k # top
    BY <2>2, <2>4, <2>6, <2>7, <2>8 DEF PassLeavesNoneBehind
  <2>9. CASE k = top
    <3>1. HitsThen(s, Top.ev, Top.spec) /\ Hit(s, Top.ev, Top.spec)
      BY <2>2, <2>7, <2>6, <2>9 DEF Hit, Matches, HitsThen
    <3>2. s < Top.i \/ s = n
      BY <2>1, <2>2, <2>3, <2>5, <2>9, <3>1
    <3>3. CASE s = n
      BY <2>4, <2>6, <3>3
    <3>4. CASE s < Top.i
      BY <2>1, <2>4, <2>6, <3>1, <3>4 DEF PassLeavesNoneBehind
    <3> QED BY <3>2, <3>3, <3>4
  <2> QED BY <2>8, <2>9
<1>4. CASE WalkEnds
  <2>1. NoneRearmed /\ evcbMax' = evcbMax
    BY <1>2, <1>4 DEF WalkEnds
  <2>2. stack' \in Seq(Frames) /\ Len(stack') = Len(stack) - 1 /\ stack \in Seq(Frames)
        /\ stack' = SubSeq(stack, 1, Len(stack) - 1)
    BY <1>4, PopType DEF TypeOK, StackOK, WalkEnds, WalkRuns
  <2>3. \A k \in DOMAIN stack' : k \in DOMAIN stack /\ stack'[k] = stack[k]
    BY <2>2
  <2>4. WalksStand
    BY <2>3 DEF WalksStand
  <2> QED BY <2>1, <2>4, PassStands
<1>5. CASE HandlerReturns
  <2>1. \A k \in DOMAIN stack : stack[k] \in Frames
    BY DEF TypeOK, StackOK
  <2>2. WalksStand
    BY <1>5, <2>1 DEF HandlerReturns, WalksStand, Frames
  <2> QED BY <1>5, <2>2, PassStands DEF HandlerReturns, NoneRearmed
<1>6. CASE DeliverAsyncEvent \/ biosInterrupt
  BY <1>6, PassPush DEF DeliverAsyncEvent, biosInterrupt
<1>7. CASE Interrupt \/ InterruptReturns
  BY <1>7 DEF Interrupt, InterruptReturns, PassLeavesNoneBehind, Hit, Matches
<1> QED BY <1>3, <1>4, <1>5, <1>6, <1>7 DEF Kernel

(* However deep the walks are nested, and whatever else their handlers do, *)
(* a walk leaves no waiter behind: only handlers that re-arm events could  *)
(* make it.                                                                *)
THEOREM PassesLeaveNoneBehind ==
  ASSUME HandlersRearmNone PROVE Spec => []PassLeavesNoneBehind
<1>1. Init => PassLeavesNoneBehind
  BY DEF Init, PassLeavesNoneBehind
<1>2. ASSUME TypeOK, PassLeavesNoneBehind, [Next]_vars PROVE PassLeavesNoneBehind'
  <2>1. CASE UNCHANGED vars
    BY <1>2, <2>1 DEF vars, PassLeavesNoneBehind, Hit, Matches
  <2> QED BY <1>2, <2>1, PassCalls, PassKernel DEF Next
<1> QED BY <1>1, <1>2, TypeCorrect, PTL DEF Spec
-----------------------------------------------------------------------------
(* Events implements AsyncChannel.  First what is owed for a batch and a   *)
(* queue, one entry for each of their events.                              *)
Owed(b, q) == AllOccurrences(b \o q)

Owing == {Occurrences(e) : e \in AsyncEventInfo}

LEMMA OwedEach ==
  ASSUME NEW b \in Seq(AsyncEventInfo), NEW q \in Seq(AsyncEventInfo)
  PROVE  /\ Owed(b, q) \in Seq(Owing) /\ Len(Owed(b, q)) = Len(b) + Len(q)
         /\ \A k \in 1 .. Len(b) + Len(q) :
              /\ k <= Len(b) => Owed(b, q)[k] = Occurrences(b[k])
              /\ ~(k <= Len(b)) => Owed(b, q)[k] = Occurrences(q[k - Len(b)])
<1>1. /\ b \o q \in Seq(AsyncEventInfo) /\ Len(b \o q) = Len(b) + Len(q)
      /\ \A k \in 1 .. Len(b) + Len(q) : (b \o q)[k] = IF k <= Len(b) THEN b[k] ELSE q[k - Len(b)]
  BY ConcatProperties, Zenon
<1>2. PICK s \in Seq(AsyncEventInfo) :
        /\ s = b \o q /\ Len(s) = Len(b) + Len(q)
        /\ \A k \in 1 .. Len(b) + Len(q) : s[k] = IF k <= Len(b) THEN b[k] ELSE q[k - Len(b)]
  BY <1>1, Zenon
<1>3. Owed(b, q) = [k \in DOMAIN s |-> Occurrences(s[k])]
  BY <1>2 DEF Owed, AllOccurrences
<1>4. DOMAIN s = 1 .. Len(s) /\ Len(s) \in Nat /\ \A k \in DOMAIN s : s[k] \in AsyncEventInfo
  OBVIOUS
<1>5. Owed(b, q) \in [1 .. Len(s) -> Owing]
  BY <1>3, <1>4 DEF Owing
<1>6. Owed(b, q) \in Seq(Owing) /\ Len(Owed(b, q)) = Len(s)
  BY <1>4, <1>5, SeqDef, LenProperties
<1>7. \A k \in 1 .. Len(s) : Owed(b, q)[k] = Occurrences(s[k])
  BY <1>3, <1>4
<1> QED BY <1>2, <1>6, <1>7

(* Events posted at the end of the queue are owed behind all others.       *)
LEMMA OwedAdded ==
  ASSUME NEW b \in Seq(AsyncEventInfo), NEW q \in Seq(AsyncEventInfo),
         NEW p \in Seq(AsyncEventInfo), \A k \in DOMAIN q : k \in DOMAIN p /\ p[k] = q[k]
  PROVE  \/ Owed(b, p) = Owed(b, q)
         \/ /\ Len(Owed(b, p)) > Len(Owed(b, q))
            /\ SubSeq(Owed(b, p), 1, Len(Owed(b, q))) = Owed(b, q)
<1>1. PICK o \in Seq(Owing) :
        /\ o = Owed(b, q) /\ Len(o) = Len(b) + Len(q)
        /\ \A k \in 1 .. Len(b) + Len(q) :
             /\ k <= Len(b) => o[k] = Occurrences(b[k])
             /\ ~(k <= Len(b)) => o[k] = Occurrences(q[k - Len(b)])
  BY OwedEach
<1>2. PICK n \in Seq(Owing) :
        /\ n = Owed(b, p) /\ Len(n) = Len(b) + Len(p)
        /\ \A k \in 1 .. Len(b) + Len(p) :
             /\ k <= Len(b) => n[k] = Occurrences(b[k])
             /\ ~(k <= Len(b)) => n[k] = Occurrences(p[k - Len(b)])
  BY OwedEach
<1>3. Len(q) <= Len(p) /\ Len(b) \in Nat /\ Len(q) \in Nat /\ Len(p) \in Nat
  <2>1. CASE Len(q) = 0
    BY <2>1
  <2>2. CASE Len(q) # 0
    <3>1. Len(q) \in DOMAIN q
      BY <2>2
    <3> QED BY <3>1
  <2> QED BY <2>1, <2>2
<1>4. ASSUME NEW k \in 1 .. Len(o) PROVE n[k] = o[k]
  <2>1. CASE k <= Len(b)
    BY <1>1, <1>2, <1>3, <2>1
  <2>2. CASE ~(k <= Len(b))
    <3>1. k - Len(b) \in DOMAIN q
      BY <1>1, <1>3, <2>2
    <3> QED BY <1>1, <1>2, <1>3, <2>2, <3>1
  <2> QED BY <2>1, <2>2
<1>5. SubSeq(n, 1, Len(o)) \in Seq(Owing) /\ Len(SubSeq(n, 1, Len(o))) = Len(o)
      /\ \A k \in 1 .. Len(o) : SubSeq(n, 1, Len(o))[k] = n[k]
  BY <1>1, <1>2, <1>3
<1>6. SubSeq(n, 1, Len(o)) = o
  BY <1>1, <1>4, <1>5, SeqEqual
<1>7. CASE Len(p) = Len(q)
  BY <1>1, <1>2, <1>3, <1>4, <1>7, SeqEqual
<1>8. CASE Len(p) # Len(q)
  BY <1>1, <1>2, <1>3, <1>6, <1>8
<1> QED BY <1>7, <1>8

(* Without the queue there is owed what is left of the batch.              *)
LEMMA OwedTaken ==
  ASSUME NEW b \in Seq(AsyncEventInfo), NEW q \in Seq(AsyncEventInfo)
  PROVE  Owed(b, <<>>) = SubSeq(Owed(b, q), 1, Len(b)) /\ Owed(<<>>, q) = Owed(q, <<>>)
<1>1. PICK o \in Seq(Owing) :
        /\ o = Owed(b, q) /\ Len(o) = Len(b) + Len(q)
        /\ \A k \in 1 .. Len(b) + Len(q) :
             /\ k <= Len(b) => o[k] = Occurrences(b[k])
             /\ ~(k <= Len(b)) => o[k] = Occurrences(q[k - Len(b)])
  BY OwedEach
<1>2. PICK e \in Seq(AsyncEventInfo) : e = <<>> /\ Len(e) = 0
  BY EmptySeqType
<1>3. PICK n \in Seq(Owing) :
        /\ n = Owed(b, e) /\ Len(n) = Len(b) + Len(e)
        /\ \A k \in 1 .. Len(b) + Len(e) :
             /\ k <= Len(b) => n[k] = Occurrences(b[k])
             /\ ~(k <= Len(b)) => n[k] = Occurrences(e[k - Len(b)])
  BY OwedEach
<1>4. SubSeq(o, 1, Len(b)) \in Seq(Owing) /\ Len(SubSeq(o, 1, Len(b))) = Len(b)
      /\ \A k \in 1 .. Len(b) : SubSeq(o, 1, Len(b))[k] = o[k]
  BY <1>1
<1>5. Len(n) = Len(b) /\ \A k \in 1 .. Len(b) : n[k] = o[k]
  BY <1>1, <1>2, <1>3
<1>6. n = SubSeq(o, 1, Len(b))
  BY <1>3, <1>4, <1>5, SeqEqual
<1>7. <<>> \o q = q /\ q \o <<>> = q
  OBVIOUS
<1> QED BY <1>1, <1>2, <1>3, <1>6, <1>7 DEF Owed

(* Delivering the head of the batch once is handing over one occurrence.   *)
LEMMA OwedOnce ==
  ASSUME NEW b \in Seq(AsyncEventInfo), NEW q \in Seq(AsyncEventInfo), b # <<>>
  PROVE  LET o == Owed(b, q)
             n == Owed(DeliveredOnce(b), q)
         IN  IF o[1].times > 1
             THEN n = [o EXCEPT ![1].times = @ - 1] /\ Len(DeliveredOnce(b)) = Len(b)
             ELSE n = Tail(o) /\ Len(DeliveredOnce(b)) = Len(b) - 1
<1>1. PICK o \in Seq(Owing) :
        /\ o = Owed(b, q) /\ Len(o) = Len(b) + Len(q)
        /\ \A k \in 1 .. Len(b) + Len(q) :
             /\ k <= Len(b) => o[k] = Occurrences(b[k])
             /\ ~(k <= Len(b)) => o[k] = Occurrences(q[k - Len(b)])
  BY OwedEach
<1>2. PICK d \in Seq(AsyncEventInfo) : d = DeliveredOnce(b)
  BY DeliveredOnceType
<1>3. PICK n \in Seq(Owing) :
        /\ n = Owed(d, q) /\ Len(n) = Len(d) + Len(q)
        /\ \A k \in 1 .. Len(d) + Len(q) :
             /\ k <= Len(d) => n[k] = Occurrences(d[k])
             /\ ~(k <= Len(d)) => n[k] = Occurrences(q[k - Len(d)])
  BY OwedEach
<1>4. /\ Len(b) \in Nat \ {0} /\ Len(q) \in Nat /\ Head(b) = b[1] /\ b[1] \in AsyncEventInfo
      /\ o[1] = Occurrences(b[1])
  BY <1>1
<1>5. b[1].repeat \in Nat /\ o[1].times = IF b[1].repeat = 0 THEN 1 ELSE b[1].repeat
  BY <1>4 DEF Occurrences, AsyncEventInfo
<1>6. CASE b[1].repeat > 1
  <2>1. d = [b EXCEPT ![1].repeat = @ - 1]
    BY <1>2, <1>4, <1>6 DEF DeliveredOnce
  <2>2. Len(d) = Len(b) /\ d[1] = [b[1] EXCEPT !.repeat = @ - 1]
        /\ \A k \in 1 .. Len(b) : k # 1 => d[k] = b[k]
    BY <1>4, <2>1
  <2>3. Occurrences(d[1]) = [Occurrences(b[1]) EXCEPT !.times = @ - 1]
    <3>1. d[1].ev = b[1].ev /\ d[1].spec = b[1].spec /\ d[1].repeat = b[1].repeat - 1
      BY <1>4, <2>2 DEF AsyncEventInfo
    <3> DEFINE w == <<b[1].ev, b[1].spec>>
               t == b[1].repeat
    <3>2. Occurrences(b[1]) = [what |-> w, times |-> t]
      <4>1. (IF b[1].repeat = 0 THEN 1 ELSE b[1].repeat) = t
        BY <1>6, <1>5
      <4> QED BY <4>1, Zenon DEF Occurrences
    <3>3. Occurrences(d[1]) = [what |-> w, times |-> t - 1]
      <4>1. (IF d[1].repeat = 0 THEN 1 ELSE d[1].repeat) = t - 1
        BY <1>6, <1>5, <3>1
      <4>2. <<d[1].ev, d[1].spec>> = w
        BY <3>1
      <4> HIDE DEF w, t
      <4> QED BY <4>1, <4>2, Zenon DEF Occurrences
    <3> HIDE DEF w, t
    <3>4. [[what |-> w, times |-> t] EXCEPT !.times = @ - 1] = [what |-> w, times |-> t - 1]
      OBVIOUS
    <3> QED BY <3>2, <3>3, <3>4
  <2>4. n[1] = [o[1] EXCEPT !.times = @ - 1]
    <3>1. n[1] = Occurrences(d[1])
      <4>1. 1 \in 1 .. Len(d) + Len(q) /\ 1 <= Len(d)
        BY <1>4, <2>2
      <4> QED BY <1>3, <4>1, Zenon
    <3> QED BY <1>4, <2>3, <3>1, Zenon
  <2>6. ASSUME NEW k \in 1 .. Len(o), k # 1 PROVE n[k] = o[k]
    <3>1. CASE k <= Len(b)
      BY <1>1, <1>3, <1>4, <2>2, <2>6, <3>1
    <3>2. CASE ~(k <= Len(b))
      BY <1>1, <1>3, <1>4, <2>2, <2>6, <3>2
    <3> QED BY <3>1, <3>2
  <2>5. n = [o EXCEPT ![1] = [o[1] EXCEPT !.times = @ - 1]]
    <3> DEFINE m == [o EXCEPT ![1] = n[1]]
    <3>1. m \in Seq(Owing) /\ Len(m) = Len(o) /\ m[1] = n[1]
          /\ \A k \in 1 .. Len(o) : k # 1 => m[k] = o[k]
      BY <1>1, <1>3, <1>4, <2>2
    <3>2. Len(n) = Len(m) /\ \A k \in 1 .. Len(n) : n[k] = m[k]
      BY <1>1, <1>3, <2>2, <2>6, <3>1
    <3> HIDE DEF m
    <3>3. n = m
      BY <1>3, <3>1, <3>2, SeqEqual
    <3> QED BY <2>4, <3>3 DEF m
  <2> QED BY <1>1, <1>2, <1>3, <1>5, <1>6, <2>2, <2>5
<1>7. CASE ~(b[1].repeat > 1)
  <2>1. d = Tail(b)
    BY <1>2, <1>4, <1>7 DEF DeliveredOnce
  <2>2. Len(d) = Len(b) - 1 /\ \A k \in 1 .. Len(d) : d[k] = b[k + 1]
    BY <1>4, <2>1
  <2>3. Tail(o) \in Seq(Owing) /\ Len(Tail(o)) = Len(o) - 1
        /\ \A k \in 1 .. Len(o) - 1 : Tail(o)[k] = o[k + 1]
    <3>1. Len(o) \in Nat \ {0} /\ o # <<>>
      BY <1>1, <1>4, EmptySeq
    <3> QED BY <3>1, HeadTailProperties, Zenon
  <2>4. Len(n) = Len(o) - 1 /\ \A k \in 1 .. Len(o) - 1 : n[k] = o[k + 1]
    <3>1. Len(n) = Len(o) - 1
      BY <1>1, <1>3, <1>4, <2>2
    <3>2. ASSUME NEW k \in 1 .. Len(o) - 1 PROVE n[k] = o[k + 1]
      <4>1. CASE k <= Len(d)
        BY <1>1, <1>3, <1>4, <2>2, <3>1, <4>1, SMTT(30)
      <4>2. CASE ~(k <= Len(d))
        <5>1. k - Len(d) = (k + 1) - Len(b) /\ ~(k + 1 <= Len(b))
          BY <1>4, <2>2, <4>2
        <5>2. n[k] = Occurrences(q[k - Len(d)])
          BY <1>3, <1>4, <3>1, <4>2
        <5>3. o[k + 1] = Occurrences(q[(k + 1) - Len(b)])
          BY <1>1, <1>4, <3>1, <5>1
        <5> QED BY <5>1, <5>2, <5>3, Zenon
      <4> QED BY <4>1, <4>2
    <3> QED BY <3>1, <3>2
  <2>5. n = Tail(o)
    BY <1>3, <2>3, <2>4, SeqEqual
  <2> QED BY <1>1, <1>2, <1>3, <1>5, <1>7, <2>2, <2>5
<1> QED BY <1>6, <1>7
(* The queue grows at its end.                                             *)
Grown == \A k \in DOMAIN queue : k \in DOMAIN queue' /\ queue'[k] = queue[k]

LEMMA GrownBy2 ==
  ASSUME QueueOK, NEW e \in AsyncEventInfo, NEW f \in AsyncEventInfo, Post2(e, f)
  PROVE  Grown
<1>1. PICK q \in Seq(AsyncEventInfo) :
        q = Enqueue(queue, e) /\ \A k \in DOMAIN queue : k \in DOMAIN q /\ q[k] = queue[k]
  BY EnqueueElements, EnqueueType DEF QueueOK
<1>2. queue' = Enqueue(q, f) /\ \A k \in DOMAIN q : k \in DOMAIN queue' /\ queue'[k] = q[k]
  BY <1>1, EnqueueElements DEF Post2
<1> QED BY <1>1, <1>2 DEF Grown

LEMMA GrownByInfo ==
  ASSUME TypeOK, NEW p \in Chans, NEW cards \in CardSets, _card_info(p, cards)
  PROVE  Grown
<1> DEFINE e == [Event(CARD_BIOS, InfoSpec(p, cards), p, 1) EXCEPT !.info = p]
           f == Event(CARD_HW, END_IO, p, 1)
<1>1. p \in Nat
  BY SizesAssumption
<1>2. Event(CARD_BIOS, InfoSpec(p, cards), p, 1) \in AsyncEventInfo
  BY <1>1, EventType DEF InfoSpec
<1>3. e \in AsyncEventInfo /\ f \in AsyncEventInfo
  BY <1>1, <1>2, PlainEvent DEF AsyncEventInfo
<1>4. Post2(e, f)
  BY DEF _card_info
<1> HIDE DEF e, f
<1> QED BY <1>3, <1>4, GrownBy2 DEF TypeOK

LEMMA CardCallsGrow ==
  ASSUME TypeOK, CardCall
  PROVE  Grown /\ UNCHANGED batch
<1>1. QueueOK
  BY DEF TypeOK
<1>2. CASE UNCHANGED <<queue, batch>>
  BY <1>2 DEF Grown
<1>3. ASSUME NEW p \in Chans, _card_load(p) PROVE Grown
  BY <1>1, <1>3, PlainEvent, GrownBy2, SizesAssumption DEF _card_load
<1>4. ASSUME NEW p \in Chans, _card_readwrite(p) PROVE Grown
  BY <1>1, <1>4, PlainEvent, EnqueueElements, SizesAssumption
     DEF _card_readwrite, Post1, QueueOK, Grown
<1>5. ASSUME NEW p \in Chans, NEW r \in Repeats, readwrite(p, r) PROVE Grown
  BY <1>1, <1>5, PlainEvent, GrownBy2, SizesAssumption DEF readwrite
<1>6. ASSUME _bu_init PROVE Grown
  <2>1. INVALID_PORT \in Nat
    BY SizesAssumption DEF INVALID_PORT
  <2> QED BY <1>1, <1>6, <2>1, PlainEvent, GrownBy2 DEF _bu_init
<1>7. UNCHANGED batch
  BY DEF CardCall, _card_info_busy, _card_load, _card_readwrite, readwrite, _card_info,
         firstfile, _bu_init, delete, callVars, irqVars
<1> QED BY <1>2, <1>3, <1>4, <1>5, <1>6, <1>7, GrownByInfo
        DEF CardCall, _card_info_busy, firstfile, delete, cardVars

LEMMA WalkEndGrows ==
  ASSUME TypeOK, WalkEnds
  PROVE  Grown
<1>1. CASE Top.after = <<>>
  BY <1>1 DEF WalkEnds, Grown
<1>2. CASE Top.after # <<>>
  <2>1. Top.after \in Seq(AsyncEventInfo)
    BY TopType DEF TypeOK, WalkEnds, WalkRuns, Frames
  <2>2. Top.after[1] \in AsyncEventInfo
    BY <1>2, <2>1
  <2> QED BY <1>2, <2>2, EnqueueElements DEF WalkEnds, Post1, TypeOK, QueueOK, Grown
<1> QED BY <1>1, <1>2
-----------------------------------------------------------------------------
(* The steps of the channel.                                               *)

LEMMA StepAdds ==
  ASSUME TypeOK, TypeOK', UNCHANGED batch, Grown
  PROVE  [Channel!Next]_(Channel!vars)
<1>1. batch \in Seq(AsyncEventInfo) /\ queue \in Seq(AsyncEventInfo) /\ queue' \in Seq(AsyncEventInfo)
  BY DEF TypeOK, QueueOK, InterruptOK
<1>2. \/ Owed(batch, queue') = Owed(batch, queue)
      \/ /\ Len(Owed(batch, queue')) > Len(Owed(batch, queue))
         /\ SubSeq(Owed(batch, queue'), 1, Len(Owed(batch, queue))) = Owed(batch, queue)
  BY <1>1, OwedAdded DEF Grown
<1>3. AllOccurrences(batch \o queue)' = Owed(batch, queue')
  BY DEF Owed, AllOccurrences
<1>4. AllOccurrences(batch \o queue) = Owed(batch, queue)
  BY DEF Owed
<1> QED BY <1>2, <1>3, <1>4 DEF Channel!Next, Channel!Add, Channel!vars

LEMMA StepTakesOn ==
  ASSUME TypeOK, OneInterrupt, Interrupt
  PROVE  [Channel!Next]_(Channel!vars)
<1>1. batch = <<>> /\ queue \in Seq(AsyncEventInfo) /\ batch' = queue /\ queue' = <<>>
  BY DEF TypeOK, QueueOK, OneInterrupt, Interrupt
<1>2. AllOccurrences(batch \o queue)' = Owed(queue, <<>>)
  BY <1>1 DEF Owed, AllOccurrences
<1>3. AllOccurrences(batch \o queue) = Owed(<<>>, queue)
  BY <1>1 DEF Owed
<1>4. Owed(<<>>, queue) = Owed(queue, <<>>) /\ Len(Owed(<<>>, queue)) = Len(queue)
  BY <1>1, OwedTaken, OwedEach, EmptySeqType
<1> QED BY <1>1, <1>2, <1>3, <1>4, EmptySeqType DEF Channel!Next, Channel!TakeOn

LEMMA StepHandsOver ==
  ASSUME TypeOK, DeliverAsyncEvent
  PROVE  [Channel!Next]_(Channel!vars)
<1>1. batch \in Seq(AsyncEventInfo) /\ queue \in Seq(AsyncEventInfo) /\ batch # <<>>
      /\ batch' = DeliveredOnce(batch) /\ queue' = queue
  BY DEF TypeOK, QueueOK, InterruptOK, DeliverAsyncEvent, cardVars
<1>2. AllOccurrences(batch \o queue)' = Owed(DeliveredOnce(batch), queue)
  BY <1>1 DEF Owed, AllOccurrences
<1>3. AllOccurrences(batch \o queue) = Owed(batch, queue)
  BY DEF Owed
<1>4. Len(batch) > 0
  BY <1>1
<1>5. IF Owed(batch, queue)[1].times > 1
      THEN /\ Owed(DeliveredOnce(batch), queue) = [Owed(batch, queue) EXCEPT ![1].times = @ - 1]
           /\ Len(DeliveredOnce(batch)) = Len(batch)
      ELSE /\ Owed(DeliveredOnce(batch), queue) = Tail(Owed(batch, queue))
           /\ Len(DeliveredOnce(batch)) = Len(batch) - 1
  BY <1>1, OwedOnce, Zenon
<1> QED BY <1>1, <1>2, <1>3, <1>4, <1>5, Zenon DEF Channel!Next, Channel!HandOver

LEMMA StepResets ==
  ASSUME TypeOK, NEW n \in ConfSizes, SetConf(n)
  PROVE  [Channel!Next]_(Channel!vars)
<1>1. batch \in Seq(AsyncEventInfo) /\ queue \in Seq(AsyncEventInfo)
      /\ batch' = batch /\ queue' = <<>>
  BY DEF TypeOK, QueueOK, InterruptOK, SetConf, irqVars
<1>2. AllOccurrences(batch \o queue)' = Owed(batch, <<>>)
  BY <1>1 DEF Owed, AllOccurrences
<1>3. AllOccurrences(batch \o queue) = Owed(batch, queue)
  BY DEF Owed
<1> QED BY <1>1, <1>2, <1>3, OwedTaken DEF Channel!Next, Channel!Reset

LEMMA StepInit == Init => Channel!Init
<1>1. ASSUME Init PROVE AllOccurrences(batch \o queue) = <<>> /\ Len(batch) = 0
  BY <1>1 DEF Init, AllOccurrences
<1> QED BY <1>1 DEF Channel!Init

LEMMA StepNext ==
  TypeOK /\ TypeOK' /\ OneInterrupt /\ [Next]_vars => [Channel!Next]_(Channel!vars)
<1> SUFFICES ASSUME TypeOK, TypeOK', OneInterrupt, [Next]_vars
             PROVE  [Channel!Next]_(Channel!vars)
  OBVIOUS
<1>1. CASE UNCHANGED <<queue, batch>>
  BY <1>1, StepAdds DEF Grown
<1>2. CASE CardCall
  BY <1>2, CardCallsGrow, StepAdds
<1>3. CASE WalkEnds
  BY <1>3, WalkEndGrows, StepAdds DEF WalkEnds, irqVars
<1> QED BY <1>1, <1>2, <1>3, StepTakesOn, StepHandsOver, StepResets
        DEF Next, vars, EventCall, Kernel, OpenEvent, UnDeliverEvent, DeliverEvent, CloseEvent,
            EnableEvent, DisableEvent, TestEvent, WaitEvent, _96_remove, tableVars, cardVars,
            irqVars, WalkToCallback, HandlerReturns, biosInterrupt, InterruptReturns

(* Queued events are delivered in posting order, each the right number of  *)
(* times, and never in the interrupt that is running when they are posted. *)
THEOREM EventsAreChannel == Spec => ChannelSpec
  BY TypeCorrect, InterruptsDoNotNest, StepInit, StepNext, PTL
  DEF Spec, ChannelSpec, Channel!Spec
=============================================================================
