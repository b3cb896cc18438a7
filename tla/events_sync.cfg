\* The event table and synchronous deliveries, with callbacks that open, close,
\* disable and deliver events in the middle of a walk, and queued events that
\* come in between.
CONSTANTS
  MaxSlots = 2
  ConfSizes = {1, 2}
  OpenArgs <- MC_SyncArgs
  QueueSize = 2
  Chans = {0}
  PortMod = 16
  Repeats = {0, 2}
  CardSets <- MC_Cards01
  IrqEvents <- MC_Timers
  MainCalls = {"OpenEvent", "CloseEvent", "EnableEvent", "DisableEvent", "TestEvent", "UnDeliverEvent", "DeliverEvent", "_96_remove", "SetConf", "firstfile", "delete", "readwrite", "_card_load", "_card_readwrite"}
  HandlerCalls = {"OpenEvent", "CloseEvent", "DisableEvent", "DeliverEvent", "firstfile"}
  MaxDepth = 3
  NoHandler = NoHandler
  h1 = h1
  h2 = h2
SPECIFICATION Spec
INVARIANTS HandlersNest PassLeavesNoneBehind
