------------------------------ MODULE Services -------------------------------
(***************************************************************************)
(* Parts of the kernel that share no state, side by side: qsort, the calls *)
(* on memory and strings, the output, the font, the GPU, the descriptors,  *)
(* and what programs put in place.                                         *)
(***************************************************************************)
EXTENDS Qsort

CONSTANTS
  Size, Bytes,                                  \* see Library
  Formats, Strings, Arguments, MaxText, MaxShown,   \* see Console
  Widths, Heights, Packets,                     \* see Gpu
  Length, FileBytes,                            \* see Descriptors
  CALL_MALLOC, CALL_INIT_HEAP,                  \* see Dispatch
  Regions, Hooks, KnownPads, Codes, Handlers

VARIABLES
  ram,                                                       \* see Library
  stdoutbuf, shown, text,                                    \* see Console
  char, glyph,                                               \* see Fonts
  awaits, pixels, misread, direction, enabled, busy, channel, writing,   \* see Gpu
  present, data, fdesc, answer, due, view,                   \* see Descriptors
  game, table, vector, heap, hook, pads, asked               \* see Dispatch

Memory == INSTANCE Library
Output == INSTANCE Console
Font == INSTANCE Fonts
Gpus == INSTANCE Gpu
Files == INSTANCE Descriptors WITH Bytes <- FileBytes
Placed == INSTANCE Dispatch

ASSUME MemoryAssumption == Size \in Nat /\ Bytes \subseteq 0 .. 255 /\ 0 \in Bytes

ASSUME OutputAssumption ==
  /\ Formats \subseteq Seq(STRING) /\ Strings \subseteq Seq(STRING)
  /\ Arguments \subseteq [char : STRING, string : Seq(STRING)]

ASSUME GpuAssumption == Widths \subseteq Nat /\ Heights \subseteq Nat /\ Packets \subseteq Nat

ASSUME FilesAssumption == Length \in Nat \ {0} /\ FileBytes \subseteq 0 .. 255

(* Pad buffers have addresses.  OpenBIOS's InitHeap stores the start of    *)
(* the heap and then its end, and nothing before; behind the first 100     *)
(* instructions of its handler the hook is the first address added to a0.  *)
ASSUME PlacedAssumption ==
  /\ CALL_MALLOC \in Nat /\ CALL_INIT_HEAP \in Nat /\ CALL_MALLOC <= CALL_INIT_HEAP
  /\ Regions \subseteq [at : Nat, size : Nat]
  /\ KnownPads # Placed!None
  /\ \A code \in Codes : \E p, q \in 1 .. 16 :
       /\ p < q /\ code[p] = "sw_start" /\ code[q] = "sw_end"
       /\ \A k \in 1 .. q - 1 : k # p => code[k] = "other"
  /\ \A handler \in Handlers : \E p \in 101 .. 125 :
       handler[p] = "a0_hook" /\ \A k \in 101 .. p - 1 : handler[k] = "other"
-----------------------------------------------------------------------------
(* Those of Library, Console, Gpu, Descriptors and Dispatch, which say     *)
(* what they mean.  Where no memory is looked at there is no window.       *)
MemoryAsDefined == ram # <<>> => Memory!MemoryAsDefined
LinesInOrder == Output!LinesInOrder
WordsAsMeant == Gpus!WordsAsMeant
AnswersDue == Files!AnswersDue
KeptAsAsked == Placed!KeptAsAsked
=============================================================================
