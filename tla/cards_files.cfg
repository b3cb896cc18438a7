\* One card of three blocks, files of one to three.
CONSTANTS
  Ports = {0}
  NumSlots = 3
  BlockSize = 1
  SizeMod = 8
  Names = {a, b}
  NoName = NoName
  Values = {0, 1}
  Blank = 0
  Patterns = {{b}}
  a = a
  b = b
SPECIFICATION Spec
INVARIANTS FilesWhole SearchComplete
PROPERTIES FileStoreSpec
