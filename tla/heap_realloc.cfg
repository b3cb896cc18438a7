\* realloc of no block, in a program that asks for one size only.
CONSTANTS
  Base = 8
  Top = 44
  Wrap = 128
  HeapSizes = {20, 60}
  Requests = {4}
  Counts = {}
  CallocMayFail = FALSE
  Null = Null
SPECIFICATION Spec
PROPERTIES ReallocNoneAllocates
