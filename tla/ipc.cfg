CONSTANTS
  t1 = t1
  t2 = t2
  a = a
  b = b
  Size = 3
  Wrap = 6
  Byte = {a, b}
  NoByte = NoByte
  Task = {t1, t2}
  Shell = t1
  Pipe = {p1}
  MaxFd = 3
  Nil = Nil
  FdList <- MCFdList
  Message <- MCMessage
  Length = {1}
SPECIFICATION PipesSpec
INVARIANTS PipesTypeOK EndsCounted EofFinal
PROPERTIES ImplementsQueue ReaderReturns
