----------------------------- MODULE Interrupts -----------------------------
(***************************************************************************)
(* What psxBiosException80 does about an interrupt (psxbios.cpp): queued   *)
(* events first, then biosInterrupt, which polls the pads and delivers the *)
(* events of the vertical blank and of the root counters, then the chains  *)
(* of handlers, and at last either the hook of HookEntryInt or the way     *)
(* back to the program.  With it, the calls that decide what an interrupt  *)
(* does: root counters, pads, memory card driver, entry hook.              *)
(*                                                                         *)
(* The kernel runs in one step between two pieces of guest code.  Guest    *)
(* code, the program, callbacks, handlers and the hook, may make any call  *)
(* and write I_STAT and I_MASK; interrupts come in at any moment.          *)
(***************************************************************************)
EXTENDS Naturals, Sequences

CONSTANTS
  Rising,      \* the sources whose interrupts come in
  Timers,      \* the root counters that calls are about, 3 is the vertical blank
  PortBuffers, \* buffers InitPAD is called with, 0 is none
  WordBuffers, \* buffers PAD_init is called with
  PadIds       \* identification bytes a pad may answer with

(* Bit 0 of I_STAT, bits 4 to 6, and any other bit.                        *)
Sources == {"vsync", "rcnt0", "rcnt1", "rcnt2", "device"}

(* The source of root counter i.                                           *)
Source(i) == <<"rcnt0", "rcnt1", "rcnt2", "vsync">>[i + 1]

(* The order in which biosInterrupt serves the root counters.              *)
Order == <<3, 0, 1, 2>>

ASSUME ArgumentsAssumption ==
  /\ Rising \subseteq Sources /\ Timers \subseteq 0 .. 3
  /\ PortBuffers \subseteq Nat /\ WordBuffers \subseteq Nat \ {0}
  /\ PadIds \subseteq 0 .. 255

VARIABLES
  istat, imask,  \* the bits set in I_STAT and in I_MASK
  autoAck,       \* the words at TIMER_IRQ_AUTO_ACK
  pads,          \* pad_started, pad_buf, pad_buf1, pad_buf2
  jmpInt,        \* g_hle->jmp_int is set
  sr,            \* CP0 status
  tcbSr,         \* the one saved in the TCB
  stage,         \* whose guest code runs
  at,            \* which of Order has its event delivered
  due,           \* istat of biosInterrupt: bits pending and unmasked when it began
  served,        \* history: the root counters this interrupt delivered events of
  tick,          \* history: what became of the last interrupt of a source
  asked          \* history: buffers the last initialisation of the pads named

registers == <<istat, imask, autoAck>>
calls == <<autoAck, pads, asked, jmpInt>>
exception == <<tcbSr, stage, at, due, served>>
vars == <<registers, pads, asked, jmpInt, sr, exception, tick>>
-----------------------------------------------------------------------------
(* "program": no exception is served.  "async", "event", "chains": guest   *)
(* code called by DeliverAsyncEvent, by biosInterrupt, from the chains.    *)
Stages == {"program", "async", "event", "chains", "hook"}

(* A tick that is not served yet; one that was served and is to stay       *)
(* pending; one that was acknowledged, by the kernel or by guest code.     *)
Ticks == {"none", "new", "left", "acked"}

(* CP0 status: interrupt enable now, before the exception and before that,  *)
(* interrupt mask.  An exception pushes, CP0_RFE pops.                     *)
Status == [c : BOOLEAN, p : BOOLEAN, o : BOOLEAN, im : BOOLEAN]

Enter(s) == [c |-> FALSE, p |-> s.c, o |-> s.p, im |-> s.im]
Rfe(s)   == [c |-> s.p, p |-> s.o, o |-> s.o, im |-> s.im]

NoPads == [started |-> FALSE, buf |-> 0, buf1 |-> 0, buf2 |-> 0]

Init ==
  /\ istat = {} /\ imask = {"device"}
  /\ autoAck = [i \in 0 .. 3 |-> TRUE]
  /\ pads = NoPads /\ asked = {}
  /\ jmpInt = FALSE /\ stage = "program" /\ at = 0
  /\ sr = [c |-> FALSE, p |-> FALSE, o |-> FALSE, im |-> FALSE] /\ tcbSr = sr
  /\ due = {} /\ served = <<>>
  /\ tick = [s \in Sources |-> "none"]
-----------------------------------------------------------------------------
(* The registers.                                                          *)

(* A bit rises, or was still set: the register cannot tell two from one.   *)
Rise(s) ==
  /\ istat' = istat \cup {s}
  /\ tick' = [tick EXCEPT ![s] = "new"]
  /\ UNCHANGED <<imask, calls, sr, exception>>

(* Guest code writes I_STAT: a write clears the bits that are 0 in it.     *)
Acknowledge(s) ==
  /\ s \in istat
  /\ istat' = istat \ {s}
  /\ tick' = [tick EXCEPT ![s] = "acked"]
  /\ UNCHANGED <<imask, calls, sr, exception>>

StartRCnt(i) ==
  /\ imask' = imask \cup {Source(i)}
  /\ UNCHANGED <<istat, calls, sr, exception, tick>>

StopRCnt(i) ==
  /\ imask' = imask \ {Source(i)}
  /\ UNCHANGED <<istat, calls, sr, exception, tick>>

ChangeClearRCnt(i, on) ==
  /\ autoAck' = [autoAck EXCEPT ![i] = on]
  /\ UNCHANGED <<istat, imask, pads, asked, jmpInt, sr, exception, tick>>

InitRCnt ==
  /\ autoAck' = [i \in 0 .. 3 |-> TRUE]
  /\ UNCHANGED <<istat, imask, pads, asked, jmpInt, sr, exception, tick>>

(* EnterCriticalSection and ExitCriticalSection, of the program.           *)
CriticalSection(on) ==
  /\ stage = "program"
  /\ tcbSr' = Enter(sr)
  /\ sr' = Rfe([Enter(sr) EXCEPT !.p = on, !.im = on])
  /\ UNCHANGED <<registers, pads, asked, jmpInt, stage, at, due, served, tick>>
-----------------------------------------------------------------------------
(* The calls about pads and the entry hook.                                *)

PadCall == UNCHANGED <<istat, autoAck, jmpInt, exception, tick>>

(* Mutant: a word buffer given to PAD_init stays in use.                   *)
InitPADKeepsWord(b1, b2) ==
  /\ pads' = [pads EXCEPT !.started = TRUE, !.buf1 = b1, !.buf2 = b2]
  /\ asked' = {b1, b2} \ {0}
  /\ UNCHANGED <<imask, sr>> /\ PadCall

InitPAD(b1, b2) ==
  /\ pads' = [started |-> TRUE, buf |-> 0, buf1 |-> b1, buf2 |-> b2]
  /\ asked' = {b1, b2} \ {0}
  /\ UNCHANGED <<imask, sr>> /\ PadCall

(* StartPAD and PAD_init set the current enable bit: they are the program's. *)
StartPAD ==
  /\ stage = "program"
  /\ pads' = [pads EXCEPT !.started = TRUE]
  /\ imask' = imask \cup {"vsync"}
  /\ sr' = [sr EXCEPT !.c = TRUE, !.im = TRUE]
  /\ UNCHANGED asked /\ PadCall

StopPAD ==
  /\ pads' = [pads EXCEPT !.started = FALSE]
  /\ UNCHANGED <<imask, sr, asked>> /\ PadCall

PAD_init(b) ==
  /\ stage = "program"
  /\ pads' = [started |-> TRUE, buf |-> b, buf1 |-> 0, buf2 |-> 0]
  /\ asked' = {b}
  /\ imask' = imask \cup {"vsync"}
  /\ sr' = [sr EXCEPT !.c = TRUE, !.im = TRUE]
  /\ PadCall

(* Whether the card driver shares the port with the pads starts or stops   *)
(* them.                                                                   *)
InitCARD(withPads) ==
  /\ pads' = [pads EXCEPT !.started = withPads]
  /\ UNCHANGED <<imask, sr, asked>> /\ PadCall

HookEntryInt(on) ==
  /\ jmpInt' = on
  /\ UNCHANGED <<registers, pads, asked, sr, exception, tick>>
-----------------------------------------------------------------------------
(* Polling: what biosInterrupt writes to the program's memory before it     *)
(* delivers events.  A write is the buffer, the ports it shows, its length. *)

Write(b, ports, len) == [buf |-> b, ports |-> ports, len |-> len]

(* Two bytes of status, and the data the identification announces.         *)
PADpoll(b, port, id) ==
  Write(b, {port}, 2 + (IF id = 255 THEN 0
                        ELSE IF id % 16 = 0 THEN 32 ELSE 2 * (id % 16)))

(* One word for both ports, and one buffer for each.                       *)
Poll(ids) ==
  IF ~pads.started THEN {}
  ELSE {w \in {Write(pads.buf, {0, 1}, 4), PADpoll(pads.buf1, 0, ids[1]),
               PADpoll(pads.buf2, 1, ids[2])} : w.buf # 0}
-----------------------------------------------------------------------------
(* An interrupt.                                                           *)

Pending == istat \cap imask

Interrupt ==
  /\ stage = "program" /\ sr.c /\ sr.im /\ Pending # {}
  /\ tcbSr' = Enter(sr) /\ sr' = Enter(sr)
  /\ stage' = "async"
  /\ UNCHANGED <<registers, pads, asked, jmpInt, at, due, served, tick>>

(* The next root counter behind place k whose bit is in d has its event    *)
(* delivered; behind the last one the chains are walked.                   *)
Serve(k, d, before) ==
  LET ahead == {j \in k + 1 .. 4 : Source(Order[j]) \in d} IN
  \/ /\ ahead = {}
     /\ stage' = "chains" /\ at' = 0 /\ served' = before
  \/ \E j \in ahead :
       /\ \A l \in ahead : j <= l
       /\ stage' = "event" /\ at' = j /\ served' = Append(before, Order[j])

(* The tick whose event is delivered now, if guest code has not            *)
(* acknowledged it in the meantime.                                        *)
Seen(t) ==
  [s \in Sources |-> IF stage' = "event" /\ s = Source(Order[at']) /\ t[s] = "new"
                     THEN "left" ELSE t[s]]

(* The queued events are delivered; biosInterrupt reads I_STAT and I_MASK  *)
(* and polls the pads before it delivers the first event.                  *)
biosInterrupt ==
  /\ stage = "async"
  /\ due' = Pending
  /\ Serve(0, due', <<>>)
  /\ tick' = Seen(tick)
  /\ UNCHANGED <<registers, pads, asked, jmpInt, sr, tcbSr>>

(* Mutant: the register is written with the bit, not with its complement.  *)
OthersAcked(i) == IF i < 3 /\ autoAck[i] THEN Sources \ {Source(i)} ELSE {}

(* The vertical blank has no auto-acknowledge.                             *)
AutoAcked(i) == IF i < 3 /\ autoAck[i] THEN {Source(i)} ELSE {}

(* The acknowledgement is due if the counter has auto-acknowledge; the     *)
(* tick it stands for is over then.                                        *)
Settled(i) ==
  IF i < 3 /\ autoAck[i] THEN [tick EXCEPT ![Source(i)] = "acked"] ELSE tick

(* Mutant: I_STAT is read again for each root counter.                     *)
EventReturnsRereading ==
  /\ stage = "event"
  /\ istat' = istat \ AutoAcked(Order[at])
  /\ Serve(at, istat' \cap imask, served)
  /\ tick' = Seen(Settled(Order[at]))
  /\ UNCHANGED <<imask, calls, sr, tcbSr, due>>

(* Mutant: an interrupt serves one root counter.                           *)
EventReturnsOnce ==
  /\ stage = "event"
  /\ istat' = istat \ AutoAcked(Order[at])
  /\ Serve(at, {}, served)
  /\ tick' = Seen(Settled(Order[at]))
  /\ UNCHANGED <<imask, calls, sr, tcbSr, due>>

(* The callbacks of an event have returned.                                *)
EventReturns ==
  /\ stage = "event"
  /\ istat' = istat \ AutoAcked(Order[at])
  /\ Serve(at, due, served)
  /\ tick' = Seen(Settled(Order[at]))
  /\ UNCHANGED <<imask, calls, sr, tcbSr, due>>

(* Writing 0xffffffff to I_STAT acknowledges nothing.                      *)
ToHook ==
  /\ stage = "chains" /\ jmpInt
  /\ stage' = "hook" /\ due' = {} /\ served' = <<>>
  /\ UNCHANGED <<registers, pads, asked, jmpInt, sr, tcbSr, at, tick>>

(* The hook's code ends in ReturnFromException.                            *)
ReturnFromException ==
  /\ stage = "hook"
  /\ sr' = Rfe(tcbSr)
  /\ stage' = "program"
  /\ UNCHANGED <<registers, pads, asked, jmpInt, tcbSr, at, due, served, tick>>

(* Mutant: the status is left as it was in the exception.                  *)
ReturnToEpcMasked ==
  /\ stage = "chains" /\ ~jmpInt
  /\ istat' = {}
  /\ tick' = [s \in Sources |-> IF s \in istat THEN "acked" ELSE tick[s]]
  /\ stage' = "program" /\ due' = {} /\ served' = <<>>
  /\ UNCHANGED <<imask, calls, sr, tcbSr, at>>

(* With no hook, 0 is written to I_STAT.                                   *)
ReturnToEpc ==
  /\ stage = "chains" /\ ~jmpInt
  /\ istat' = {}
  /\ tick' = [s \in Sources |-> IF s \in istat THEN "acked" ELSE tick[s]]
  /\ sr' = Rfe(sr)
  /\ stage' = "program" /\ due' = {} /\ served' = <<>>
  /\ UNCHANGED <<imask, calls, tcbSr, at>>
-----------------------------------------------------------------------------
Kernel ==
  \/ Interrupt \/ biosInterrupt \/ EventReturns
  \/ ToHook \/ ReturnFromException \/ ReturnToEpc

Calls ==
  \/ \E i \in Timers : StartRCnt(i) \/ StopRCnt(i)
  \/ \E i \in Timers, on \in BOOLEAN : ChangeClearRCnt(i, on)
  \/ \E on \in BOOLEAN : CriticalSection(on) \/ InitCARD(on) \/ HookEntryInt(on)
  \/ \E b1, b2 \in PortBuffers : InitPAD(b1, b2)
  \/ \E b \in WordBuffers : PAD_init(b)
  \/ InitRCnt \/ StartPAD \/ StopPAD

Next == Kernel \/ Calls \/ \E s \in Rising : Rise(s) \/ Acknowledge(s)

Spec == Init /\ [][Next]_vars

(* The CPU takes an interrupt that it finds pending time and again; guest  *)
(* code that serves an exception returns.                                  *)
Fairness ==
  /\ SF_vars(Interrupt)
  /\ WF_vars(biosInterrupt) /\ WF_vars(EventReturns)
  /\ WF_vars(ToHook \/ ReturnToEpc) /\ WF_vars(ReturnFromException)

FairSpec == Spec /\ Fairness
-----------------------------------------------------------------------------
(* Types; what is served is a root counter, and its bit was due.           *)
TypeOK ==
  /\ istat \subseteq Sources /\ imask \subseteq Sources /\ due \subseteq Sources
  /\ autoAck \in [0 .. 3 -> BOOLEAN]
  /\ pads \in [started : BOOLEAN, buf : Nat, buf1 : Nat, buf2 : Nat]
  /\ asked \subseteq Nat \ {0}
  /\ jmpInt \in BOOLEAN /\ sr \in Status /\ tcbSr \in Status
  /\ stage \in Stages /\ at \in 0 .. 4 /\ (stage = "event" <=> at # 0)
  /\ served \in Seq(0 .. 3)
  /\ \A k \in 1 .. Len(served) : Source(served[k]) \in due
  /\ tick \in [Sources -> Ticks]

(* s holds those of the first n of Order that are in d, in their order.    *)
ServedUpTo(n, d, s) ==
  /\ \A m \in 1 .. n : Source(Order[m]) \in d <=> \E k \in 1 .. Len(s) : s[k] = Order[m]
  /\ \A k \in 1 .. Len(s) : \E m \in 1 .. n : s[k] = Order[m]
  /\ \A k, l \in 1 .. Len(s) : k < l =>
       \E m, o \in 1 .. n : m < o /\ s[k] = Order[m] /\ s[l] = Order[o]

(* Every root counter that was pending and unmasked when biosInterrupt     *)
(* began has its event delivered, once and in the order of Order, whatever *)
(* callbacks acknowledge, mask or start in between.                        *)
ServedInOrder ==
  /\ stage = "event" => ServedUpTo(at, due, served)
  /\ stage = "chains" => ServedUpTo(4, due, served)

(* What biosInterrupt serves is what was due, in order, and nothing else.  *)
EventsAsDue == TypeOK /\ ServedInOrder

(* A bit of I_STAT is set exactly until its last tick is acknowledged: by  *)
(* guest code, by the kernel after the callbacks of a root counter that    *)
(* has auto-acknowledge, or on the way back where there is no hook.  The   *)
(* kernel takes no other tick away, the hook finds what handlers left.     *)
TickPending == \A s \in Sources : s \in istat <=> tick[s] \in {"new", "left"}

(* An interrupt writes pad data exactly to the buffers the last InitPAD or *)
(* PAD_init named, if pads are started: a buffer a program has given up    *)
(* for another is its own again.  A pad buffer takes 34 bytes at most,     *)
(* whatever the pad answers.                                               *)
PadsWrittenAsAsked ==
  stage = "async" =>
    \A id1, id2 \in PadIds : LET writes == Poll(<<id1, id2>>) IN
      /\ {w.buf : w \in writes} = (IF pads.started THEN asked ELSE {})
      /\ \A w \in writes : w.len <= 34

(* An interrupt, and a critical section in the program before it, leave    *)
(* the interrupts enabled, with a hook and without one.                    *)
InterruptsStayEnabled == [][stage' = "program" /\ stage # "program" => sr'.c /\ sr'.im]_vars

(* Served although it comes in at an awkward moment: if the program enables *)
(* interrupts time and again, a root counter that is pending has its event *)
(* delivered, unless guest code acknowledges or masks it first.            *)
PendingIsServed ==
  []<>(stage = "program" /\ sr.c /\ sr.im) =>
    \A i \in 0 .. 3 :
      Source(i) \in Pending ~> (Source(i) \notin Pending \/ (stage = "event" /\ Order[at] = i))
=============================================================================
