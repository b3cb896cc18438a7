--------------------------------- MODULE Gpu ----------------------------------
(***************************************************************************)
(* The kernel's GPU calls (psxbios.cpp, 1337-1446): words written to the   *)
(* port of the GPU, and transfers handed to the DMA controller, which go   *)
(* on after the call has returned.                                         *)
(*                                                                         *)
(* The GPU and the controller are the emulator's: the GPU takes a word for *)
(* what it awaits (Taken), the controller writes a word of its transfer    *)
(* once its channel was started and while it may (Transfer).  A word of    *)
(* the GPU is known by what it is meant as, one of the controller by the   *)
(* bits that are set.                                                      *)
(*                                                                         *)
(* A call writes its words one by one (Write); nothing happens in between. *)
(***************************************************************************)
EXTENDS Integers, Sequences

CONSTANTS
  Widths, Heights,   \* of the images programs upload
  Packets            \* the numbers of commands they send

Command == [kind |-> "command"]
Upload == [kind |-> "upload"]                            \* 0xa0000000
Position == [kind |-> "position"]
Dimensions(w, h) == [kind |-> "size", pixels |-> w * h]
Pixels == [kind |-> "pixels"]

BlockWords == 16

(* The channel's control words, as their sets of bits.                     *)
ImageControl == {24, 9, 0}      \* 0x01000201
ListControl == {28, 10, 0}      \* 0x010000401, with one zero too many
StopControl == {10, 0}          \* 0x00000401

VARIABLES
  awaits,     \* what the GPU takes the next word for
  pixels,     \* the words of an image it still awaits
  misread,    \* it has taken a word for another thing than was meant
  direction,  \* the GPU's DMA direction
  enabled,    \* the controller's channel is enabled
  busy,       \* its start bit is set: it transfers
  channel,    \* the words it was given, those transferred left out
  writing     \* the words the call that runs has still to write

gpu == <<awaits, pixels, misread>>
dma == <<direction, enabled, busy, channel>>
vars == <<gpu, dma, writing>>

Init ==
  /\ awaits = "command" /\ pixels = 0 /\ misread = FALSE
  /\ direction = "off" /\ enabled = FALSE /\ busy = FALSE
  /\ channel = <<>> /\ writing = <<>>
-----------------------------------------------------------------------------
(* The GPU takes a word; an image has two pixels in a word.                *)
Taken(word) ==
  \/ /\ awaits = "command"
     /\ awaits' = IF word.kind = "upload" THEN "position" ELSE "command"
     /\ misread' = (misread \/ word.kind \notin {"command", "upload"})
     /\ UNCHANGED pixels
  \/ /\ awaits = "position"
     /\ awaits' = "size"
     /\ misread' = (misread \/ word.kind # "position")
     /\ UNCHANGED pixels
  \/ /\ awaits = "size"
     /\ awaits' = "pixels"
     /\ misread' = (misread \/ word.kind # "size")
     /\ pixels' = IF word.kind = "size" THEN (word.pixels + 1) \div 2 ELSE 1
  \/ /\ awaits = "pixels"
     /\ awaits' = IF pixels = 1 THEN "command" ELSE "pixels"
     /\ misread' = (misread \/ word.kind # "pixels")
     /\ pixels' = pixels - 1

GPU_writeData(words) == writing' = words /\ UNCHANGED gpu

Write ==
  /\ writing # <<>>
  /\ Taken(Head(writing)) /\ writing' = Tail(writing)
  /\ UNCHANGED dma

Times(word, n) == [k \in 1 .. n |-> word]

Words(w, h) == (w * h + 1) \div 2

Header(w, h) == <<Upload, Position, Dimensions(w, h)>>
-----------------------------------------------------------------------------
(* Programs write nothing to the GPU before a transfer has ended.          *)
MayWrite == ~busy /\ writing = <<>>

(* They upload no empty images, of which the loop would find no end.       *)
GPU_dw(w, h) ==
  /\ MayWrite /\ w * h > 0
  /\ GPU_writeData(Header(w, h) \o Times(Pixels, Words(w, h)))
  /\ UNCHANGED dma

GPU_cw ==
  /\ MayWrite
  /\ GPU_writeData(<<Command>>)
  /\ UNCHANGED dma

GPU_cwb(n) ==
  /\ MayWrite
  /\ GPU_writeData(Times(Command, n))
  /\ UNCHANGED dma

(* GP1(04h) sets the direction; other words of the program leave it.       *)
SendGPU(to) ==
  /\ MayWrite
  /\ direction' = to
  /\ UNCHANGED <<gpu, enabled, busy, channel, writing>>

(* Bit 24 of a control word starts the channel, or stops it.               *)
Control(word) == busy' = (24 \in word)

(* Mutant: the direction is left as it is.                                 *)
HandOverUndirected(words, word) ==
  enabled' = TRUE /\ channel' = words /\ Control(word) /\ UNCHANGED direction

(* What the GPU is told and the controller gets.                           *)
HandOver(words, word) ==
  direction' = "toGpu" /\ enabled' = TRUE /\ channel' = words /\ Control(word)

(* Blocks of 16 words: of other sizes the rest would not be transferred.   *)
MayTransfer(w, h) == w * h > 0 /\ Words(w, h) % BlockWords = 0

mem2vram(w, h) ==
  /\ MayWrite /\ MayTransfer(w, h)
  /\ GPU_writeData(Header(w, h))
  /\ HandOver(Times(Pixels, (Words(w, h) \div BlockWords) * BlockWords), ImageControl)

(* A list of packets, here of single commands.  Its control word does not  *)
(* start the channel: the list is never transferred.                       *)
GPU_SendPackets(n) ==
  /\ MayWrite
  /\ HandOver(Times(Command, n), ListControl)
  /\ UNCHANGED <<gpu, writing>>

(* Programs break off no images.                                           *)
sys_a0_4c ==
  /\ awaits = "command" /\ writing = <<>>
  /\ Control(StopControl)
  /\ GPU_writeData(Times(Command, 3))
  /\ UNCHANGED <<direction, enabled, channel>>

(* When all is transferred the start bit is cleared.                       *)
Transfer ==
  /\ busy /\ channel # <<>> /\ enabled /\ direction = "toGpu" /\ writing = <<>>
  /\ Taken(Head(channel)) /\ channel' = Tail(channel) /\ busy' = (Tail(channel) # <<>>)
  /\ UNCHANGED <<direction, enabled, writing>>

Next ==
  \/ \E w \in Widths, h \in Heights : GPU_dw(w, h) \/ mem2vram(w, h)
  \/ \E n \in Packets : GPU_cwb(n) \/ GPU_SendPackets(n)
  \/ \E to \in {"off", "toGpu", "toCpu"} : SendGPU(to)
  \/ GPU_cw \/ sys_a0_4c \/ Write \/ Transfer

Spec == Init /\ [][Next]_vars
-----------------------------------------------------------------------------
(* The GPU never takes a word for another thing than was meant; a transfer *)
(* that was started can go on, whatever the program had told the GPU       *)
(* before, and it is one of pixels (GPU_SendPackets starts none); pixels   *)
(* that are still awaited when the call has returned are those that the    *)
(* channel has under way; and when nothing is under way a command is       *)
(* awaited.                                                                *)
WordsAsMeant ==
  /\ ~misread
  /\ busy => /\ enabled /\ direction = "toGpu" /\ channel # <<>>
             /\ \A k \in 1 .. Len(channel) : channel[k].kind = "pixels"
  /\ awaits = "pixels" /\ writing = <<>> => busy /\ Len(channel) = pixels
  /\ MayWrite => awaits = "command"
=============================================================================
