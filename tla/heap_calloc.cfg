\* calloc when the memory is short.
CONSTANTS
  Base = 8
  Top = 40
  Wrap = 128
  HeapSizes = {20, 60}
  Requests = {0, 1, 6, 12}
  Counts = {2}
  CallocMayFail = TRUE
  Null = Null
SPECIFICATION Spec
INVARIANTS LowMemoryKept
