SPECIFICATION Spec
CONSTANTS
  MapNum = 3
  ChunkSize = 2
  Occ = {free, occupied}
  Empty = Empty
  NeedQuery = NeedQuery
  MaxAdrs = 3
  MaxNet = 1
  MaxListId = 5
  MaxChunks <- OneOwner
INVARIANTS TypeOK ListsExact ListOpsExact SameContents
PROPERTIES GossipImplemented
CHECK_DEADLOCK FALSE
