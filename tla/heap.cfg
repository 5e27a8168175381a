CONSTANTS
  NBytes = 3
  ByteBits = 2
  PageSize = 4
  BlockPages = 2
  Sizes = {2, 5, 9}
SPECIFICATION Spec
INVARIANTS TypeOK OwnersDisjoint OwnedMapped
