\* Boots, SetConf, allocations, moved tables and savestates in any order.
CONSTANTS
  Kernel <- MCKernel
  Heap <- MCHeap
  Magic <- MCMagic
  SizeOf <- MCSizeOf
  Defaults <- MCDefaults
  Counts = {2}
  Requests = {5}
  Arenas <- MCArenas
  Moves <- MCMoves
  Foreigns <- MCForeigns
  Unset = Unset
  NoState = NoState
  Wrap = 1024
SPECIFICATION Spec
INVARIANTS MemoryApart GlobalsAgree OwnStatesLoad
