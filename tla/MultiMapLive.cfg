SPECIFICATION FairSpec
CONSTANTS
  MapNum = 4
  ChunkSize = 2
  Occ = {free}
  Empty = Empty
  NeedQuery = NeedQuery
  MaxAdrs = 3
  MaxNet = 3
  MaxListId = 1
  MaxChunks <- OneChunk
PROPERTIES EventuallyShared
CHECK_DEADLOCK FALSE
