CONSTANTS
  Nil = Nil
  MaxFd = 1
  FdList <- MCFdList
  Task = {t1, t2}
  First = t1
  OpenPath <- MCOpenPath
  ChangePath <- MCChangePath
  BootDir <- MCBootDir
  Device <- MCDevice
  Offset <- MCOffset
  Length = {2, 3}
  BlockSize = 2
  Caches <- MCCaches
  MaxSize = 16
  PageSize = 16
  Word = 1
  Unsigned = 64
  MaxInode = 5
  MaxPos = 17
  FatType = {12, 16, 32}
  BytesPerSect = 4
  SectPerClus = 1
  ReservedSects = 1
  Fats = 2
  SectsPerFat = 9
  BpbDirents = 4
  RootClus = 2
  Table <- MCTable
  End = End
  Dirents <- MCDirents
  FatPath <- MCFatPath
  FatLength = {9}
  FatOffset = {0}
  NBuckets = 2
  MaxReferences = 2
  Garbage = {255}
SPECIFICATION FilesSpec
INVARIANTS VfsTypeOK TreeWellFormed DeviceStable ReadsWritten OpenFileCached FatReadCorrect
