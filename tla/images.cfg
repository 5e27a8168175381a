CONSTANTS
  a = a
  b = b
  k1 = k1
  NFrames = 16
  FramesPerByte = 2
  BootFrames = 1
  PageSize = 2
  PagesPerTable = 4
  Process = {p1, p2}
  Image <- MCImage
  HeapPage = {12, 13}
  ModulePage = {16}
  StackBase = 4
  UserHeap = 8
  Address = {1, 5, 18}
  Increment = {2}
  MaxBrk = 19
  Nil = Nil
  Archive <- MCArchive
  Block = 4
  Object <- MCObject
  Modtab <- MCModtab
  Hash <- MCHash
  ModBase = 100
  ModPage = 4
  Drives <- MCDrives
  Sectors <- MCSectors
  PartTable <- MCPartTable
  CountWrap = 4
  LowWrap = 8
  ExtAbove = 16
  SectCount = {1, 2, 3, 5}
  SectOffset = {0, 1, 3, 6}
  NoDrive = NoDrive
  Size = 3
  Wrap = 6
  Byte = {a, b}
  NoByte = NoByte
  Meta = {"CTRL", "SHIFT", "CAPSLOCK"}
  Key = {k1}
  Lower <- MCLower
  Upper <- MCUpper
  Escape <- MCEscape
  BufLen = 2
  MaxTyped = 6
SPECIFICATION ImagesSpec
INVARIANTS FrameOwnedOnce FreeFrameFound ModulesWellFormed SymbolsRight ArchiveListed DiskReadRight TypedInOrder KeymapAgrees
PROPERTIES WritableKept
