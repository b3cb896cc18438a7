------------------------------ MODULE MCEvents ------------------------------
(***************************************************************************)
(* Instances of Events for TLC.                                            *)
(***************************************************************************)
EXTENDS EventsRefinement

CONSTANTS h1, h2

Arg(ev, spec, mode, h) == [ev |-> ev, spec |-> spec, mode |-> mode, fhandler |-> h]

MC_Waiter == Arg(CARD_HW, END_IO, "NO_CALLBACK", NoHandler)
MC_Callback == Arg(CARD_HW, END_IO, "CALLBACK", h1)
MC_BiosWaiter == Arg(CARD_BIOS, END_IO, "NO_CALLBACK", NoHandler)
MC_BiosCallback == Arg(CARD_BIOS, END_IO, "CALLBACK", h2)
MC_Sticky == Arg(CARD_BIOS, TIMEOUT, "other", NoHandler)

MC_SyncArgs == {MC_Callback, MC_BiosCallback, MC_Waiter, MC_Sticky}
MC_LiveArgs == {MC_BiosWaiter, MC_Callback}

MC_Vsync == [ev |-> "TIMER3", spec |-> 2]
MC_NoTimers == {<<>>}
MC_Timers == {<<>>, <<MC_Vsync>>}
MC_Cards01 == {{0, 1}}
=============================================================================
