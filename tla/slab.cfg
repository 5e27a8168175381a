CONSTANTS
  NPages = 4
  NoPage = null
  MapBits = 4
  BlockPages = 2
  MaxFree = 1
SPECIFICATION Spec
INVARIANTS TypeOK LiveOwned StatusAgrees ListsWellFormed CountsAgree
PROPERTIES ImplementsAllocator
