CONSTANTS
  NBytes = 2
  ByteBits = 4
  PageSize = 4
  BlockPages = 2
  Sizes = {2, 4}
SPECIFICATION Spec
INVARIANTS LargeFits
