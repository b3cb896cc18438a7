------------------------------- MODULE Events -------------------------------
(***************************************************************************)
(* Events of the PSX kernel (psxbios_event.cpp) and the memory card calls  *)
(* of psxbios.cpp that raise them.                                         *)
(*                                                                         *)
(* An event lives in a slot of the EVCB table.  DeliverEvent(ev, spec)     *)
(* walks the table: a matching ENABLED slot becomes DELIVERED, or, if it   *)
(* was opened in CALLBACK mode, its handler (guest code) is run at once by *)
(* softCall, in the middle of the walk.  The handler may make BIOS calls,  *)
(* among them calls that change the table or deliver again.  The calls     *)
(* that answer later post to a bounded queue (PostAsyncEvent); the queue   *)
(* is taken and delivered at the next interrupt (DeliverAsyncEvent).       *)
(* busy_card_info has one bit per port, set by an accepted _card_info and  *)
(* cleared when a queue holding an answer for that port is taken.          *)
(*                                                                         *)
(* One atomic step is what runs between two points where guest code can    *)
(* run: a whole BIOS call, or a stretch of a table walk up to the next     *)
(* handler.                                                                *)
(***************************************************************************)
EXTENDS Integers, Sequences, FiniteSets

CONSTANTS
  MaxSlots,      \* entries of the largest EVCB table
  ConfSizes,     \* the EVCB_MAX a SetConf call may ask for
  OpenArgs,      \* the arguments OpenEvent is called with: [ev, spec, mode, fhandler]
  QueueSize,     \* countof(async_events)
  Chans,         \* the ports (a0 >> 4) card calls are made for
  PortMod,       \* 2^(width of AsyncEventInfo.port)
  Repeats,       \* number of 128 byte sectors an asynchronous read or write covers
  CardSets,      \* the sets of ports that may have a card in (VmcEnabled)
  IrqEvents,     \* the sequences of timer events biosInterrupt may deliver
  MainCalls,     \* the BIOS calls the main program makes
  HandlerCalls,  \* the BIOS calls event handlers make
  MaxDepth,      \* bound on nested walks of the table
  NoHandler      \* a frame whose walk is not inside a handler

Slots == 0 .. MaxSlots - 1
NoSlot == -1
NoIrq == -1
NoPort == -1
INVALID_PORT == PortMod - 1

ASSUME SizesAssumption ==
  /\ MaxSlots \in Nat \ {0} /\ ConfSizes \subseteq 1 .. MaxSlots
  /\ QueueSize \in Nat \ {0} /\ MaxDepth \in Nat
  /\ PortMod \in Nat \ {0} /\ Chans \subseteq Nat /\ Repeats \subseteq Nat

VARIABLES
  evcb,      \* the EVCB table
  evcbMax,   \* EVCB_MAX, kept equal to G_EVENTS_SIZE / SIZEOF_EVCB
  queue,     \* async_events[0 .. async_event_nb - 1]
  busy,      \* the ports whose bit of busy_card_info is set
  stack,     \* the DeliverEvent walks in progress, innermost last
  irq,       \* depth of the stack when the current interrupt came in, or NoIrq
  batch,     \* events[] of DeliverAsyncEvent, what is left to deliver
  timers,    \* timer events biosInterrupt still has to deliver
  waiting,   \* the slot the main program is spinning on in WaitEvent
  lost       \* history: busy ports whose answer was dropped, wiped or misrouted

vars == <<evcb, evcbMax, queue, busy, stack, irq, batch, timers, waiting, lost>>

cardVars == <<queue, busy, lost>>
irqVars  == <<irq, batch, timers>>
-----------------------------------------------------------------------------
(* Types.  A status is an EVENT_STATUS; a mode is CALLBACK, NO_CALLBACK or *)
(* any other word the guest passed to OpenEvent.                           *)

Statuses == {"FREE", "DISABLED", "ENABLED", "DELIVERED"}
CARD_HW == "CARD_HW"
CARD_BIOS == "CARD_BIOS"
END_IO == 4
TIMEOUT == 256

ZeroEvcb == [status |-> "FREE", ev |-> "none", spec |-> 0,
             mode |-> "none", fhandler |-> NoHandler]

Handlers == {NoHandler} \cup {a.fhandler : a \in OpenArgs}

TimerEvents == [ev : {"TIMER0", "TIMER1", "TIMER2", "TIMER3"}, spec : {2}]

Classes == {"none", CARD_HW, CARD_BIOS, "TIMER0", "TIMER1", "TIMER2", "TIMER3"}
             \cup {a.ev : a \in OpenArgs}

Modes == {"none"} \cup {a.mode : a \in OpenArgs}

Evcb == [status : Statuses, ev : Classes, spec : Nat, mode : Modes, fhandler : Handlers]

ASSUME ArgsAssumption ==
  /\ \A a \in OpenArgs : a.spec \in Nat
  /\ IrqEvents \subseteq Seq(TimerEvents)

AsyncEventInfo ==
  [ev : {CARD_HW, CARD_BIOS}, spec : Nat, port : 0 .. PortMod - 1,
   repeat : Nat, info : Nat \cup {NoPort}]

(* One walk of the table: what is delivered, the next slot to look at, the *)
(* handler being run, who asked for it, and what the caller posts after.   *)
Frames == [ev : Classes, spec : Nat, i : Nat, h : Handlers,
           by : {"guest", "irq"}, after : Seq(AsyncEventInfo)]
-----------------------------------------------------------------------------
(* Helpers on the table.                                                   *)

Matches(s, ev, spec) == evcb[s].ev = ev /\ evcb[s].spec = spec

Hit(s, ev, spec) == evcb[s].status = "ENABLED" /\ Matches(s, ev, spec)

isValidSlot(s) == s < evcbMax

(* setOpenEventStatus: a FREE slot stays FREE.                             *)
setOpenEventStatus(s, st) ==
  IF isValidSlot(s) /\ evcb[s].status # "FREE"
  THEN [evcb EXCEPT ![s].status = st]
  ELSE evcb

(* A successful WaitEvent or TestEvent re-arms a NO_CALLBACK event.        *)
Consume(s) ==
  IF isValidSlot(s) /\ evcb[s].status = "DELIVERED" /\ evcb[s].mode = "NO_CALLBACK"
  THEN [evcb EXCEPT ![s].status = "ENABLED"]
  ELSE evcb

FreeSlots == {s \in Slots : s < evcbMax /\ evcb[s].status = "FREE"}

(* The callbacks a walk standing at slot f.i has ahead.                    *)
Callbacks(f) ==
  {s \in Slots : /\ f.i <= s /\ s < evcbMax
                 /\ Hit(s, f.ev, f.spec) /\ evcb[s].mode = "CALLBACK"}

(* Mutant: the walk misses the first slot.                                 *)
SignalUpToSkipping(f, n) ==
  [s \in Slots |->
     IF f.i < s /\ s < n /\ Hit(s, f.ev, f.spec)
     THEN [evcb[s] EXCEPT !.status = "DELIVERED"]
     ELSE evcb[s]]

(* The table once the walk f has gone from slot f.i to slot n, excluded.   *)
SignalUpTo(f, n) ==
  [s \in Slots |->
     IF f.i <= s /\ s < n /\ Hit(s, f.ev, f.spec)
     THEN [evcb[s] EXCEPT !.status = "DELIVERED"]
     ELSE evcb[s]]
-----------------------------------------------------------------------------
(* Helpers on the queue.                                                   *)

(* An element of the queue; the port is cut to the width of its bit field. *)
(* info is history: the port whose _card_info this event answers.          *)
Event(ev, spec, p, r) ==
  [ev |-> ev, spec |-> spec, port |-> p % PortMod, repeat |-> r, info |-> NoPort]

(* Mutant: the test of the queue's capacity is off by one.                 *)
EnqueueOneTooMany(q, e) == IF Len(q) <= QueueSize THEN Append(q, e) ELSE q

(* One PostAsyncEvent: the event is dropped when the queue is full.        *)
Enqueue(q, e) == IF Len(q) < QueueSize THEN Append(q, e) ELSE q

(* The calls of PostAsyncEvent that one BIOS call makes.                   *)
Post1(e) == queue' = Enqueue(queue, e)

Post2(e, f) == queue' = Enqueue(Enqueue(queue, e), f)

(* Mutant: async commands are not marked as done.                          *)
ClearBusyForgotten(q, b) == b

(* "mark async command as done": an INVALID_PORT event clears every bit.   *)
ClearBusy(q, b) ==
  IF \E k \in DOMAIN q : q[k].port = INVALID_PORT
  THEN {}
  ELSE b \ {q[k].port : k \in DOMAIN q}

(* Mutant: the repeat count is ignored.                                    *)
DeliveredOnceForAll(b) == Tail(b)

(* Delivering the head of a batch once: max(repeat, 1) times in all.       *)
DeliveredOnce(b) ==
  IF Head(b).repeat > 1
  THEN [b EXCEPT ![1].repeat = @ - 1]
  ELSE Tail(b)
-----------------------------------------------------------------------------
(* Who runs.  The exception handler runs when the stack is as deep as when *)
(* the interrupt came in; a walk runs when its frame is on top with no     *)
(* handler; else guest code does.  IRQs are masked during an exception.    *)

Top == stack[Len(stack)]
ExceptionRuns == irq = Len(stack)
WalkRuns == stack # <<>> /\ Top.h = NoHandler
GuestRuns == ~ExceptionRuns /\ ~WalkRuns

CanCall(op) ==
  /\ GuestRuns
  /\ IF stack = <<>>
     THEN waiting = NoSlot /\ op \in MainCalls
     ELSE op \in HandlerCalls

Walk(ev, spec, by, after) ==
  [ev |-> ev, spec |-> spec, i |-> 0, h |-> NoHandler, by |-> by, after |-> after]

Init ==
  /\ evcbMax \in ConfSizes
  /\ evcb = [s \in Slots |-> ZeroEvcb]
  /\ queue = <<>> /\ busy = {} /\ lost = {}
  /\ stack = <<>> /\ irq = NoIrq /\ batch = <<>> /\ timers = <<>>
  /\ waiting = NoSlot
-----------------------------------------------------------------------------
(* The walk of DeliverEvent.                                               *)

(* The loop reaches the callback at slot n: softCall(fhandler).            *)
WalkToCallback(n) ==
  /\ WalkRuns
  /\ n \in Callbacks(Top) /\ \A t \in Callbacks(Top) : n <= t
  /\ evcb' = SignalUpTo(Top, n)
  /\ stack' = [stack EXCEPT ![Len(stack)].i = n + 1,
                            ![Len(stack)].h = evcb[n].fhandler]
  /\ UNCHANGED <<evcbMax, cardVars, irqVars, waiting>>

(* The loop ends and the caller goes on: firstfile posts its second event. *)
WalkEnds ==
  /\ WalkRuns
  /\ Callbacks(Top) = {}
  /\ evcb' = SignalUpTo(Top, evcbMax)
  /\ stack' = SubSeq(stack, 1, Len(stack) - 1)
  /\ IF Top.after = <<>> THEN UNCHANGED queue ELSE Post1(Top.after[1])
  /\ UNCHANGED <<evcbMax, busy, lost, irqVars, waiting>>

(* The guest handler returns to softCall.                                  *)
HandlerReturns ==
  /\ GuestRuns /\ stack # <<>>
  /\ stack' = [stack EXCEPT ![Len(stack)].h = NoHandler]
  /\ UNCHANGED <<evcb, evcbMax, cardVars, irqVars, waiting>>

Push(f) == Len(stack) < MaxDepth /\ stack' = Append(stack, f)
-----------------------------------------------------------------------------
(* The interrupt: DeliverAsyncEvent, then the timers of biosInterrupt.     *)

(* Mutant: nothing is delivered when no command is marked as pending.      *)
InterruptWhenBusy ==
  /\ GuestRuns /\ irq = NoIrq /\ Len(stack) < MaxDepth
  /\ irq' = Len(stack)
  /\ batch' = IF busy = {} THEN <<>> ELSE queue
  /\ queue' = IF busy = {} THEN queue ELSE <<>>
  /\ busy' = ClearBusy(queue, busy)
  /\ lost' = lost \cap ClearBusy(queue, busy)
  /\ timers' \in IrqEvents
  /\ UNCHANGED <<evcb, evcbMax, stack, waiting>>

(* DeliverAsyncEvent moves the queue aside and marks its commands done;    *)
(* the timers whose IRQ is raised are known when biosInterrupt starts.     *)
Interrupt ==
  /\ GuestRuns /\ irq = NoIrq /\ Len(stack) < MaxDepth
  /\ irq' = Len(stack)
  /\ batch' = queue
  /\ queue' = <<>>
  /\ busy' = ClearBusy(queue, busy)
  /\ lost' = lost \cap ClearBusy(queue, busy)
  /\ timers' \in IrqEvents
  /\ UNCHANGED <<evcb, evcbMax, stack, waiting>>

DeliverAsyncEvent ==
  /\ ExceptionRuns /\ batch # <<>>
  /\ Push(Walk(Head(batch).ev, Head(batch).spec, "irq", <<>>))
  /\ batch' = DeliveredOnce(batch)
  /\ UNCHANGED <<evcb, evcbMax, cardVars, irq, timers, waiting>>

biosInterrupt ==
  /\ ExceptionRuns /\ batch = <<>> /\ timers # <<>>
  /\ Push(Walk(Head(timers).ev, Head(timers).spec, "irq", <<>>))
  /\ timers' = Tail(timers)
  /\ UNCHANGED <<evcb, evcbMax, cardVars, irq, batch, waiting>>

(* Mutant: the exception returns after the first event.                    *)
InterruptReturnsEarly ==
  /\ ExceptionRuns /\ timers = <<>>
  /\ irq' = NoIrq
  /\ UNCHANGED <<evcb, evcbMax, cardVars, stack, batch, timers, waiting>>

(* Mutant: DeliverAsyncEvent drains the live queue instead of a copy.      *)
InterruptReturnsDrained ==
  /\ ExceptionRuns /\ batch = <<>> /\ timers = <<>>
  /\ irq' = IF queue = <<>> THEN NoIrq ELSE irq
  /\ batch' = queue
  /\ queue' = <<>>
  /\ UNCHANGED <<evcb, evcbMax, busy, lost, stack, timers, waiting>>

InterruptReturns ==
  /\ ExceptionRuns /\ batch = <<>> /\ timers = <<>>
  /\ irq' = NoIrq
  /\ UNCHANGED <<evcb, evcbMax, cardVars, stack, batch, timers, waiting>>
-----------------------------------------------------------------------------
(* BIOS calls on events.                                                   *)

tableVars == <<evcbMax, cardVars, stack, irqVars>>

OpenEvent(a) ==
  /\ CanCall("OpenEvent")
  /\ \/ /\ FreeSlots = {}                 \* returns -1
        /\ UNCHANGED evcb
     \/ \E s \in FreeSlots :
          /\ \A t \in FreeSlots : s <= t
          /\ evcb' = [evcb EXCEPT ![s] =
                        [status |-> "DISABLED", ev |-> a.ev, spec |-> a.spec,
                         mode |-> a.mode, fhandler |-> a.fhandler]]
  /\ UNCHANGED <<tableVars, waiting>>

CloseEvent(s) ==
  /\ CanCall("CloseEvent")
  /\ evcb' = setOpenEventStatus(s, "FREE")
  /\ UNCHANGED <<tableVars, waiting>>

EnableEvent(s) ==
  /\ CanCall("EnableEvent")
  /\ evcb' = setOpenEventStatus(s, "ENABLED")
  /\ UNCHANGED <<tableVars, waiting>>

DisableEvent(s) ==
  /\ CanCall("DisableEvent")
  /\ evcb' = setOpenEventStatus(s, "DISABLED")
  /\ UNCHANGED <<tableVars, waiting>>

TestEvent(s) ==
  /\ CanCall("TestEvent")
  /\ evcb' = Consume(s)
  /\ UNCHANGED <<tableVars, waiting>>

(* Mutant: the event is re-armed before its status is looked at.           *)
WaitEventRearmsFirst(s) ==
  /\ stack = <<>> /\ GuestRuns
  /\ CanCall("WaitEvent") \/ waiting = s
  /\ waiting' = IF isValidSlot(s) /\ Consume(s)[s].status = "ENABLED" THEN s ELSE NoSlot
  /\ evcb' = Consume(s)
  /\ UNCHANGED tableVars

(* WaitEvent of the main program: while the slot is ENABLED the call jumps *)
(* back to the B0 vector and is made again.                                *)
WaitEvent(s) ==
  /\ stack = <<>> /\ GuestRuns
  /\ CanCall("WaitEvent") \/ waiting = s
  /\ waiting' = IF isValidSlot(s) /\ evcb[s].status = "ENABLED" THEN s ELSE NoSlot
  /\ evcb' = Consume(s)
  /\ UNCHANGED tableVars

UnDeliverEvent(ev, spec) ==
  /\ CanCall("UnDeliverEvent")
  /\ evcb' = [s \in Slots |->
                IF /\ s < evcbMax /\ evcb[s].status = "DELIVERED"
                   /\ Matches(s, ev, spec) /\ evcb[s].mode = "NO_CALLBACK"
                THEN [evcb[s] EXCEPT !.status = "ENABLED"]
                ELSE evcb[s]]
  /\ UNCHANGED <<tableVars, waiting>>

DeliverEvent(ev, spec) ==
  /\ CanCall("DeliverEvent")
  /\ Push(Walk(ev, spec, "guest", <<>>))
  /\ UNCHANGED <<evcb, evcbMax, cardVars, irqVars, waiting>>

(* _96_remove closes the first five slots (s_remove_cdrom_events).         *)
_96_remove ==
  /\ CanCall("_96_remove")
  /\ evcb' = [s \in Slots |-> IF s < 5 /\ isValidSlot(s)
                              THEN [evcb[s] EXCEPT !.status = "FREE"]
                              ELSE evcb[s]]
  /\ UNCHANGED <<tableVars, waiting>>

(* SetConf rebuilds the kernel tables; initEvents empties the queue but    *)
(* leaves busy_card_info alone.                                            *)
SetConf(n) ==
  /\ CanCall("SetConf")
  /\ evcbMax' = n
  /\ evcb' = [s \in Slots |-> ZeroEvcb]
  /\ queue' = <<>>
  /\ lost' = busy
  /\ UNCHANGED <<busy, stack, irqVars, waiting>>
-----------------------------------------------------------------------------
(* BIOS calls on memory cards.                                             *)

(* The spec of the answer of _card_info: 1 << ret cut to 16 bits, with ret *)
(* 2 (card present), 8 (no card) or 0x11 (unknown port).                   *)
InfoSpec(p, cards) ==
  IF cards = {} THEN TIMEOUT
  ELSE IF p \notin {0, 1} THEN 0
  ELSE IF p \in cards THEN END_IO ELSE TIMEOUT

callVars == <<evcb, evcbMax, stack, irqVars, waiting>>

_card_info_busy(p) ==
  /\ CanCall("_card_info")
  /\ p \in busy
  /\ UNCHANGED <<callVars, cardVars>>

(* An accepted command: result first, end of transfer second.              *)
_card_info(p, cards) ==
  /\ CanCall("_card_info")
  /\ p \notin busy
  /\ busy' = busy \cup {p}
  /\ Post2([Event(CARD_BIOS, InfoSpec(p, cards), p, 1) EXCEPT !.info = p],
           Event(CARD_HW, END_IO, p, 1))
  /\ lost' = IF Len(queue) < QueueSize /\ p < PortMod THEN lost ELSE lost \cup {p}
  /\ UNCHANGED callVars

_card_load(p) ==
  /\ CanCall("_card_load")
  /\ Post2(Event(CARD_BIOS, END_IO, p, 1), Event(CARD_HW, END_IO, p, 1))
  /\ UNCHANGED <<callVars, busy, lost>>

(* _card_read and _card_write of a valid sector.                           *)
_card_readwrite(p) ==
  /\ CanCall("_card_readwrite")
  /\ Post1(Event(CARD_HW, END_IO, p, 1))
  /\ UNCHANGED <<callVars, busy, lost>>

(* read and write of a file opened in asynchronous mode.                   *)
readwrite(p, r) ==
  /\ CanCall("readwrite")
  /\ p \in {0, 1}
  /\ Post2(Event(CARD_HW, END_IO, p, r), Event(CARD_BIOS, END_IO, p, 1))
  /\ UNCHANGED <<callVars, busy, lost>>

_bu_init ==
  /\ CanCall("_bu_init")
  /\ Post2(Event(CARD_HW, END_IO, INVALID_PORT, 1),
           Event(CARD_BIOS, END_IO, INVALID_PORT, 1))
  /\ UNCHANGED <<callVars, busy, lost>>

(* firstfile on "bu00" or "bu10": delivers the first event before it       *)
(* returns and posts the second one.                                       *)
firstfile(p, cards) ==
  /\ CanCall("firstfile")
  /\ p \in {0, 1}
  /\ LET spec == IF p \in cards THEN END_IO ELSE TIMEOUT
     IN  Push(Walk(CARD_HW, spec, "guest", <<Event(CARD_BIOS, spec, p, 1)>>))
  /\ UNCHANGED <<evcb, evcbMax, cardVars, irqVars, waiting>>

(* delete on "bu00" or "bu10".                                             *)
delete ==
  /\ CanCall("delete")
  /\ Push(Walk(CARD_HW, END_IO, "guest", <<>>))
  /\ UNCHANGED <<evcb, evcbMax, cardVars, irqVars, waiting>>
-----------------------------------------------------------------------------
EventCall ==
  \/ \E a \in OpenArgs : OpenEvent(a) \/ UnDeliverEvent(a.ev, a.spec) \/ DeliverEvent(a.ev, a.spec)
  \/ \E s \in Slots : \/ CloseEvent(s) \/ EnableEvent(s) \/ DisableEvent(s)
                      \/ TestEvent(s) \/ WaitEvent(s)
  \/ _96_remove
  \/ \E n \in ConfSizes : SetConf(n)

CardCall ==
  \/ \E p \in Chans : \/ _card_info_busy(p) \/ _card_load(p) \/ _card_readwrite(p)
                      \/ \E r \in Repeats : readwrite(p, r)
                      \/ \E cards \in CardSets : _card_info(p, cards) \/ firstfile(p, cards)
  \/ _bu_init \/ delete

Kernel ==
  \/ \E n \in Slots : WalkToCallback(n)
  \/ WalkEnds \/ HandlerReturns
  \/ Interrupt \/ DeliverAsyncEvent \/ biosInterrupt \/ InterruptReturns

Next == EventCall \/ CardCall \/ Kernel

Spec == Init /\ [][Next]_vars

(* The emulator runs its own code (walks, the exception handler, the retry *)
(* of WaitEvent) without stopping; vsync interrupts keep coming and the    *)
(* guest does not mask them for ever; a guest handler returns.             *)
Fairness ==
  /\ WF_vars(WalkEnds \/ \E n \in Slots : WalkToCallback(n))
  /\ WF_vars(DeliverAsyncEvent \/ biosInterrupt \/ InterruptReturns)
  /\ SF_vars(Interrupt)
  /\ \A s \in Slots : SF_vars(waiting = s /\ WaitEvent(s))
  /\ \A d \in 1 .. MaxDepth : SF_vars(Len(stack) = d /\ HandlerReturns)

FairSpec == Spec /\ Fairness
-----------------------------------------------------------------------------
(* Types of all variables: the queue never outgrows async_events[], ports  *)
(* fit their bit field, the nesting of walks stays within the bound.       *)
TableOK ==
  /\ evcb \in [Slots -> Evcb]
  /\ evcbMax \in ConfSizes
  /\ waiting \in Slots \cup {NoSlot}

QueueOK ==
  /\ queue \in Seq(AsyncEventInfo)
  /\ Len(queue) <= QueueSize
  /\ busy \subseteq Chans
  /\ lost \subseteq Chans

StackOK ==
  /\ stack \in Seq(Frames)
  /\ Len(stack) <= MaxDepth

InterruptOK ==
  /\ irq \in (0 .. MaxDepth) \cup {NoIrq}
  /\ batch \in Seq(AsyncEventInfo)
  /\ timers \in Seq(TimerEvents)

TypeOK == TableOK /\ QueueOK /\ StackOK /\ InterruptOK

(* A port refused by _card_info ("pending card_info") has an event in the  *)
(* queue that will clear its bit, unless its answer was lost: the queue    *)
(* was full, SetConf emptied it, or the port does not fit the bit field.   *)
BusyIsPending ==
  \A p \in busy \ lost : \E k \in DOMAIN queue : queue[k].port \in {p, INVALID_PORT}

(* The busy bit does its job: as long as an answer to a _card_info is      *)
(* queued the port is busy, so two commands of one port are never queued   *)
(* together.                                                               *)
OneInfoPerPort ==
  /\ \A k \in DOMAIN queue : queue[k].info # NoPort => queue[k].info \in busy
  /\ \A k, l \in DOMAIN queue :
       queue[k].info = queue[l].info /\ queue[k].info # NoPort => k = l

(* "An handler plugged on an event might not be reentrant" (PostAsyncEvent *)
(* caveat 1): a handler is entered while it is already running only if a   *)
(* BIOS call delivering synchronously lies in between, never because of    *)
(* queued events alone.                                                    *)
ReentryOnlySynchronous ==
  \A j, k \in DOMAIN stack :
    j < k /\ stack[j].h = stack[k].h /\ stack[j].h # NoHandler
      => \E m \in j .. k : stack[m].by = "guest"

(* One interrupt is serviced at a time: a walk started by the exception    *)
(* handler sits right above the code it interrupted.                       *)
OneInterrupt ==
  /\ \A k \in DOMAIN stack : stack[k].by = "irq" => k = irq + 1 /\ irq # NoIrq
  /\ irq = NoIrq => batch = <<>> /\ timers = <<>>
  /\ irq # NoIrq => irq <= Len(stack)

(* A walk leaves no waiter behind: a slot it has passed that still matches *)
(* and is ENABLED is a callback.  (The handlers do not re-arm events.)     *)
PassLeavesNoneBehind ==
  \A k \in DOMAIN stack : \A s \in Slots :
    s < stack[k].i /\ s < evcbMax /\ Hit(s, stack[k].ev, stack[k].spec)
      => evcb[s].mode = "CALLBACK"

(* Callback events are never left DELIVERED: WaitEvent would hang on them, *)
(* TestEvent would report them for ever.                                   *)
CallbackNeverDelivered ==
  \A s \in Slots : evcb[s].mode = "CALLBACK" => evcb[s].status # "DELIVERED"

(* Deliveries in the middle of deliveries: queued events are delivered     *)
(* outside of one another and of their own handlers, and no walk, of       *)
(* whatever depth, leaves a callback event DELIVERED.                      *)
HandlersNest == OneInterrupt /\ ReentryOnlySynchronous /\ CallbackNeverDelivered

(* What busy_card_info says of the queue: a port is busy only while an     *)
(* answer will free it, and while one is queued no second one is.          *)
BusyPorts == BusyIsPending /\ OneInfoPerPort

(* A handler that posts events does not keep the interrupt going ("you can *)
(* infinite loop", caveat 2): every interrupt returns.                     *)
InterruptsReturn == irq # NoIrq ~> irq = NoIrq

(* A port does not stay busy unless its answer was lost.                   *)
BusyClears == \A p \in Chans : p \in busy ~> p \notin busy \/ p \in lost

(* A program that waits on an event whose occurrence is queued is woken.   *)
WaiterWakes ==
  \A s \in Slots :
    /\ waiting = s /\ evcb[s].mode # "CALLBACK"
    /\ \E k \in DOMAIN queue : Matches(s, queue[k].ev, queue[k].spec)
    ~> waiting # s
=============================================================================
