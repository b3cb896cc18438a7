\* See MCLibrary: families of calls that share no state.
CONSTANTS
  N = 4
  Keys = {0, 1, 2}
  Size = 4
  Bytes = {0, 32, 43, 45, 49, 200}
  Formats <- MCFormats
  Strings <- MCStrings
  Arguments <- MCArguments
  MaxText = 2
  MaxShown = 4
  Widths = {0, 1, 3, 31}
  Heights = {1, 2, 3}
  Packets = {0, 1, 2}
  Length = 2
  FileBytes = {1, 255}
  CALL_MALLOC = 55
  CALL_INIT_HEAP = 57
  Regions <- MCRegions
  Hooks = {"hook"}
  KnownPads = "known"
  Codes <- MCCodes
  Handlers <- MCHandlers
SPECIFICATION MCSpec
INVARIANTS SortsInPlace DepthBounded MemoryAsDefined LinesInOrder GlyphsInOrder
INVARIANTS WordsAsMeant AnswersDue KeptAsAsked
PROPERTY SortEnds
CHECK_DEADLOCK FALSE
