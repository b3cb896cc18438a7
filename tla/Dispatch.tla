------------------------------ MODULE Dispatch ------------------------------
(***************************************************************************)
(* What a program puts in place, and what reads it (psxbios.cpp): its own  *)
(* functions in the kernel's table of calls, its code at the exception     *)
(* vector, its heap, its hook and its pad buffers.  All of it goes through *)
(* savestates: those of this BIOS, old ones among them, and those of       *)
(* OpenBIOS, from whose code and variables HleHookAfterLoadState has to    *)
(* find it.                                                                *)
(*                                                                         *)
(* A game runs whose functions a conversion copies (Legend), one whose pad *)
(* buffers are known as Legend's are, or any other.                        *)
(***************************************************************************)
EXTENDS Integers, Sequences

CONSTANTS
  CALL_MALLOC, CALL_INIT_HEAP,   \* 0x33, 0x39
  Regions, Hooks,                \* what programs give InitHeap and HookEntryInt
  KnownPads,                     \* the pad buffers of a known game
  Codes, Handlers                \* OpenBIOS's InitHeap and its exception handler

(* The calls of table A0 that the kernel has functions for.                *)
psxBiosInit_StdLib ==
  0 .. 4 \cup {\h0A} \cup \h0C .. \h11 \cup \h13 .. \h31 \cup {\h33, \h34}
  \cup \h37 .. \h39 \cup {\h3B, \h3C, \h3E, \h3F, \h44}

psxBiosInit_Lib ==
  {8, 9, \h42, \h43} \cup \h46 .. \h4D
  \cup {\h51, \h70, \h9C, \h9D, \h9F, \hA6, \hAB, \hAC, \hAD}

psxBiosInitFull == {\h71, \h72}

Implemented == psxBiosInit_StdLib \cup psxBiosInit_Lib \cup psxBiosInitFull

(* Calls that programs may have functions of their own for.                *)
Replaceable == CALL_MALLOC .. CALL_INIT_HEAP
Calls == Replaceable \cup Implemented

None == "none"
NoHeap == [at |-> 0, size |-> 0]
NoPads == [started |-> FALSE, buf |-> None, ports |-> None]
AllPads == [started : BOOLEAN, buf : {None, KnownPads}, ports : {None, KnownPads}]

VARIABLES
  game,       \* "legend", "known" or "other"
  table,      \* TABLE_A0: whose function a call has
  vector,     \* at KERNEL_EXCEPTION_VECTOR: the trampoline, "HLE", or own code
  heap,       \* g_hle->heap_addr, heap_size
  hook,       \* g_hle->jmp_int
  pads,       \* g_hle->pad_started, pad_buf, pad_buf1 and pad_buf2
  asked       \* history: what the program has put in place

kept == <<table, vector, heap, hook, pads>>
vars == <<game, kept, asked>>

Fresh ==
  [table |-> [c \in Replaceable |-> "kernel"], vector |-> "trampoline",
   heap |-> NoHeap, hook |-> None, pads |-> NoPads]

Becomes(s) ==
  /\ table' = s.table /\ vector' = s.vector /\ heap' = s.heap
  /\ hook' = s.hook /\ pads' = s.pads

AskedNothing == [own |-> {}, vector |-> FALSE, heap |-> NoHeap, hook |-> None, polled |-> {}]

Init ==
  /\ game \in {"legend", "known", "other"}
  /\ table = Fresh.table /\ vector = Fresh.vector /\ heap = Fresh.heap
  /\ hook = Fresh.hook /\ pads = Fresh.pads /\ asked = AskedNothing
-----------------------------------------------------------------------------
(* Whose function a call runs.                                             *)
psxbios_invoke_any(call) ==
  IF call \in Replaceable /\ table[call] = "program" THEN "program"
  ELSE IF call \in Implemented THEN "kernel"
  ELSE "abort"

(* Where the CPU arrives: does HleDispatchCall handle the exception there, *)
(* or does the code run that stands there?                                 *)
HleDispatchCall(pc) == pc = "handler" \/ (pc = "vector" /\ vector = "HLE")

(* Where that code goes on: the trampoline to the handler, a program's     *)
(* code to its copy of the trampoline.                                     *)
GoesTo(pc) == IF pc = "vector" /\ vector = "program" THEN "own" ELSE "handler"

(* The places an exception passes on its way: the vector, and where each   *)
(* that does not handle it goes on to.                                     *)
Passed ==
  {pc \in {"vector", "own", "handler"} :
     \A way \in SUBSET {"vector", "own", "handler"} :
       "vector" \in way /\ (\A q \in way : HleDispatchCall(q) \/ GoesTo(q) \in way)
         => pc \in way}

(* Which pads the interrupt polls.                                         *)
Polled(p) == {x \in {"buf", "ports"} : p.started /\ p[x] # None}
-----------------------------------------------------------------------------
(* The program.                                                            *)

(* Only the game whose functions a conversion copies replaces calls.       *)
Install(call) ==
  /\ game = "legend"
  /\ table' = [table EXCEPT ![call] = "program"]
  /\ asked' = [asked EXCEPT !.own = @ \cup {call}]
  /\ UNCHANGED <<game, vector, heap, hook, pads>>

InitHeap(r) ==
  /\ psxbios_invoke_any(CALL_INIT_HEAP) = "kernel"
  /\ heap' = r
  /\ asked' = [asked EXCEPT !.heap = r]
  /\ UNCHANGED <<game, table, vector, hook, pads>>

HookEntryInt(h) ==
  /\ hook' = h
  /\ asked' = [asked EXCEPT !.hook = h]
  /\ UNCHANGED <<game, table, vector, heap, pads>>

ResetEntryInt ==
  /\ hook' = None
  /\ asked' = [asked EXCEPT !.hook = None]
  /\ UNCHANGED <<game, table, vector, heap, pads>>

InitPAD ==
  /\ pads' = [started |-> TRUE, buf |-> None, ports |-> KnownPads]
  /\ asked' = [asked EXCEPT !.polled = {"ports"}]
  /\ UNCHANGED <<game, table, vector, heap, hook>>

PAD_init ==
  /\ pads' = [started |-> TRUE, buf |-> KnownPads, ports |-> None]
  /\ asked' = [asked EXCEPT !.polled = {"buf"}]
  /\ UNCHANGED <<game, table, vector, heap, hook>>

StopPAD ==
  /\ pads' = [pads EXCEPT !.started = FALSE]
  /\ asked' = [asked EXCEPT !.polled = {}]
  /\ UNCHANGED <<game, table, vector, heap, hook>>

ReplaceVector ==
  /\ vector' = "program"
  /\ asked' = [asked EXCEPT !.vector = TRUE]
  /\ UNCHANGED <<game, table, heap, hook, pads>>

Reset == Becomes(Fresh) /\ asked' = AskedNothing /\ UNCHANGED game
-----------------------------------------------------------------------------
(* Savestates.  A state of this version is loaded as it was.               *)

Upgraded(p) == IF p.buf # None THEN [p EXCEPT !.started = TRUE] ELSE p

(* Version 0 polled the one buffer whether the pads were started or not.   *)
PolledThen(p) == Polled(p) \cup (Polled([p EXCEPT !.started = TRUE]) \cap {"buf"})

(* A state that version 0 saved, with one or the other pad buffers, and    *)
(* maybe with "HLE" at the vector.  (Its version stays 0: saved again and  *)
(* loaded it would be upgraded again, and pads stopped since be started.)  *)
LoadOld(p, magic) ==
  /\ p.buf = None \/ p.ports = None
  /\ magic => ~asked.vector
  /\ vector' = IF magic THEN "HLE" ELSE vector
  /\ pads' = Upgraded(p)
  /\ asked' = [asked EXCEPT !.polled = PolledThen(p)]
  /\ UNCHANGED <<game, table, heap, hook>>

CopiedTable(old) ==
  [c \in Replaceable |-> IF game = "legend" /\ old[c] = "program" THEN "program" ELSE "kernel"]

(* An instruction of OpenBIOS is known by what it does to which variable:  *)
(* it stores the start or the end of the heap, or has in a0 the address of *)
(* the hook or of something else; or it is of no interest.                 *)
First(places) == CHOOSE p \in places : \A q \in places : p <= q

(* The stores among the first 16 instructions of its InitHeap.             *)
Stores(code) == {p \in 1 .. 16 : code[p] \in {"sw_start", "sw_end"}}

(* The first is taken for that of the start, the next for that of the end. *)
(* A program's InitHeap is not looked into.                                *)
FoundHeap(old, code, value) ==
  LET first == First(Stores(code))
      rest == Stores(code) \ {first}
      at == IF Stores(code) = {} THEN 0 ELSE value[code[first]]
      end == IF rest = {} THEN at ELSE value[code[First(rest)]]
  IN IF old[CALL_INIT_HEAP] = "program" THEN NoHeap ELSE [at |-> at, size |-> end - at]

(* Mutant: the handler's beginning is not passed over.                     *)
LoadsFromStart(handler) == {p \in 1 .. 125 : handler[p] \in {"a0_hook", "a0_other"}}

(* The additions to a0 among the 25 instructions that follow the first 100 *)
(* of the exception handler.                                               *)
Loads(handler) == {p \in 101 .. 125 : handler[p] \in {"a0_hook", "a0_other"}}

(* The first is taken for that of the hook.                                *)
FoundHook(handler, value) ==
  IF Loads(handler) = {} THEN None ELSE value[handler[First(Loads(handler))]]

DefaultPads ==
  IF game = "other" THEN NoPads
  ELSE [started |-> TRUE, buf |-> None, ports |-> KnownPads]

(* Programs whose state converts poll the known buffers, or no pads.       *)
MayConvert == asked.polled = IF game = "other" THEN {} ELSE {"ports"}

(* rel_check: the code at the vector is OpenBIOS's, which has the address  *)
(* of the handler; with a program's code there the load is given up.       *)
VectorTells == ~asked.vector

(* A state in which the program has put in place under OpenBIOS what it    *)
(* has now, so that OpenBIOS's variables hold it.                          *)
LoadForeign(code, handler) ==
  LET old == [c \in Replaceable |-> IF c \in asked.own THEN "program" ELSE "openbios"]
      value == [sw_start |-> asked.heap.at, sw_end |-> asked.heap.at + asked.heap.size,
                a0_hook |-> asked.hook, a0_other |-> "unknown"]
  IN /\ MayConvert /\ VectorTells
     /\ Becomes([Fresh EXCEPT
          !.table = CopiedTable(old),
          !.heap = FoundHeap(old, code, value),
          !.hook = FoundHook(handler, value),
          !.pads = DefaultPads])
     /\ UNCHANGED <<game, asked>>

Next ==
  \/ \E c \in Replaceable : Install(c)
  \/ \E r \in Regions : InitHeap(r)
  \/ \E h \in Hooks : HookEntryInt(h)
  \/ ResetEntryInt \/ InitPAD \/ PAD_init \/ StopPAD \/ ReplaceVector \/ Reset
  \/ \E p \in AllPads, magic \in BOOLEAN : LoadOld(p, magic)
  \/ \E code \in Codes, handler \in Handlers : LoadForeign(code, handler)

Spec == Init /\ [][Next]_vars
-----------------------------------------------------------------------------
(* What a program has put in place is what is used, whatever states were   *)
(* loaded since: its functions are run where it has any and only there, an *)
(* exception goes through its code on the way to the kernel's handler, its *)
(* heap and hook are those it gave, the pads that are polled are those     *)
(* that were.                                                              *)
KeptAsAsked ==
  /\ \A c \in Calls : psxbios_invoke_any(c) = "program" <=> c \in asked.own
  /\ "own" \in Passed <=> asked.vector
  /\ CALL_INIT_HEAP \notin asked.own => heap = asked.heap
  /\ hook = asked.hook
  /\ Polled(pads) = asked.polled
=============================================================================
