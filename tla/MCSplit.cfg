SPECIFICATION SplitSpec
CONSTANTS
  \* Chunker
  Texts <- OneText
  SepLength <- BlankLineAndSpace
  Options <- SmallOptions
  \* Sources
  Sources = {d1}
  BlocksOf <- ThreeBlocks
  ChunkPageSize = 1
  MaxIngestions = 0
PROPERTY ChunksComeOut
CHECK_DEADLOCK FALSE
