\* Blocks of one to three words in heaps of five and eight words.
CONSTANTS
  Base = 8
  Top = 44
  Wrap = 128
  HeapSizes = {20, 60}
  Requests = {0, 1, 6, 12}
  Counts = {2}
  CallocMayFail = FALSE
  Null = Null
SPECIFICATION Spec
INVARIANTS BlocksInHeap
PROPERTIES AllocatorSpec
