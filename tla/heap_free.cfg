CONSTANTS
  NBytes = 2
  ByteBits = 4
  PageSize = 4
  BlockPages = 2
  Sizes = {2, 5}
SPECIFICATION Spec
PROPERTIES FreeUnmapsBlock
