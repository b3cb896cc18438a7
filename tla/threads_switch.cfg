\* Threads, interrupts and syscalls, handlers that switch threads.
CONSTANTS
  MaxThreads = 2
  ConfSizes = {1, 2}
  Period = 2
  SwitchIn = {"int", "hook"}
  ReuseOwnSlot = FALSE
  Handler = Handler
SPECIFICATION Spec
INVARIANTS ExceptionMasked
PROPERTIES CoroutineSpec
