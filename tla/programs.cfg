SPECIFICATION Spec
CONSTANTS
  d1 = d1
  d2 = d2
  Main = Main
  Dir = Dir
  Sub = Sub
  Psx = Psx
  Cdrom = Cdrom
  NoMount = NoMount
  NoName = NoName
  Discs <- MC_Discs
  Listings <- MC_Listings
  BootPath <- MC_BootPath
  PsxExe <- MC_PsxExe
  NoPath = NoPath
  Paths <- MC_Paths
  Directories <- MC_Directories
  Headers = {h1}
  ExecHeader = x
  NoHeader = NoHeader
  Buffers = {b1}
  NoContext = NoContext
  NoProgram = NoProgram
  Versions = {1, 2}
  Period = 2
  MaxFrames = 3
  SwapFrames = 1
INVARIANTS FilesFound RunsAsAsked
PROPERTY CallStackSpec
CHECK_DEADLOCK FALSE
