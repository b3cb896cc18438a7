\* The queue: commands and their busy bits, a port wider than its field, posts by
\* handlers, repeats, SetConf, waiters.
CONSTANTS
  MaxSlots = 2
  ConfSizes = {2}
  OpenArgs <- MC_LiveArgs
  QueueSize = 3
  Chans = {0, 4}
  PortMod = 4
  Repeats = {2}
  CardSets <- MC_Cards01
  IrqEvents <- MC_NoTimers
  MainCalls = {"OpenEvent", "EnableEvent", "_card_info", "readwrite", "WaitEvent", "SetConf"}
  HandlerCalls = {"_card_info", "_bu_init"}
  MaxDepth = 2
  NoHandler = NoHandler
  h1 = h1
  h2 = h2
SPECIFICATION FairSpec
INVARIANTS TypeOK BusyPorts
PROPERTIES ChannelSpec ChannelFairness InterruptsReturn BusyClears WaiterWakes
