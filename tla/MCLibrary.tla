----------------------------- MODULE MCLibrary ------------------------------
(***************************************************************************)
(* The parts of the kernel that share no state, one family of calls at a   *)
(* time.                                                                   *)
(***************************************************************************)
EXTENDS Services, SequencesExt

VARIABLE family      \* the calls this behaviour is about

MCStrings == {<<>>, <<"b">>, <<"n">>, <<"b", "n">>, <<"r", "n", "b">>}
MCArguments ==
  {[char |-> "b", string |-> <<"b", "n">>], [char |-> "n", string |-> <<>>]}
MCFormats ==
  SeqOf({"%", "d", "s", "c", "b", "1"}, 3) \cup SeqOf({"n", "%", "s"}, 4)

(* Values for Services.                                                    *)
MCRegions == {[at |-> 16, size |-> 8], [at |-> 32, size |-> 4]}
MCCode(ops) == [k \in 1 .. 130 |-> IF k \in DOMAIN ops THEN ops[k] ELSE "other"]
MCCodes ==
  {MCCode(<<"other", "sw_start", "sw_end", "sw_start">>),
   MCCode((1 :> "sw_start") @@ (16 :> "sw_end") @@ (17 :> "sw_start"))}
MCHandlers ==
  {MCCode((7 :> "a0_other") @@ (101 :> "a0_hook") @@ (110 :> "a0_other")),
   MCCode((100 :> "a0_other") @@ (125 :> "a0_hook") @@ (126 :> "a0_other"))}

onSort == vars
onPrint == <<stdoutbuf, shown, text>>
onFont == <<char, glyph>>
onGpu == <<awaits, pixels, misread, direction, enabled, busy, channel, writing>>
onFiles == <<present, data, fdesc, answer, due, view>>
onPlaced == <<game, table, vector, heap, hook, pads, asked>>
all == <<family, onSort, ram, onPrint, onFont, onGpu, onFiles, onPlaced>>

(* Where a family is not looked at, it stays in one of its initial states. *)
MCInit ==
  /\ family \in {"sort", "memory", "print", "font", "gpu", "files", "placed"}
  /\ (family = "font" \/ char = [row |-> 1, cell |-> 1]) /\ Font!Init
  /\ (family = "files" \/ present = {}) /\ Files!Init
  /\ (family = "placed" \/ game = "other") /\ Placed!Init
  /\ Init /\ Output!Init /\ Gpus!Init
  /\ IF family = "memory" THEN Memory!Init ELSE ram = <<>>

Sorting ==
  /\ family = "sort" /\ Next
  /\ UNCHANGED <<family, ram, onPrint, onFont, onGpu, onFiles, onPlaced>>
OnMemory ==
  /\ family = "memory" /\ Memory!Next
  /\ UNCHANGED <<family, onSort, onPrint, onFont, onGpu, onFiles, onPlaced>>
Printing ==
  /\ family = "print" /\ Output!Next
  /\ UNCHANGED <<family, onSort, ram, onFont, onGpu, onFiles, onPlaced>>
AskingGlyphs ==
  /\ family = "font" /\ Font!Ask
  /\ UNCHANGED <<family, onSort, ram, onPrint, onGpu, onFiles, onPlaced>>
Drawing ==
  /\ family = "gpu" /\ Gpus!Next
  /\ UNCHANGED <<family, onSort, ram, onPrint, onFont, onFiles, onPlaced>>
OnFiles ==
  /\ family = "files" /\ Files!Next
  /\ UNCHANGED <<family, onSort, ram, onPrint, onFont, onGpu, onPlaced>>
Placing ==
  /\ family = "placed" /\ Placed!Next
  /\ UNCHANGED <<family, onSort, ram, onPrint, onFont, onGpu, onFiles>>

MCNext ==
  Sorting \/ OnMemory \/ Printing \/ AskingGlyphs \/ Drawing \/ OnFiles \/ Placing

(* The comparison function returns (see Qsort!FairSpec).                   *)
MCSpec ==
  /\ MCInit /\ [][MCNext]_all
  /\ WF_all(family = "sort" /\ Sort
            /\ UNCHANGED <<family, ram, onPrint, onFont, onGpu, onFiles, onPlaced>>)
-----------------------------------------------------------------------------
(* That of Fonts.                                                          *)
GlyphsInOrder == family = "font" => Font!GlyphsInOrder
=============================================================================
