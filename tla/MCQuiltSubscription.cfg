\* One client, two chunks, two tiles, two commits, one lost connection; or the choice of rooms
\* of two patches.
SPECIFICATION SceneSpec
CONSTANTS
  Chunk = {k1, k2}
  Tile = {inner, wide}
  ChunksOf <- Chunks
  Evicts = TRUE
  MaxRevision = 2
  MaxMoves = 1
  MaxDrops = 1
  MaxEdits = 2
  Patch = {a, b}
  RoomRequest <- RoomRequests
  Canonical <- Addresses
  Nowhere = Nowhere
  Row <- Rows
  NoPolicy = NoPolicy
  MaxRequests = 3
  MaxRooms = 2
  MaxChunks = 2
  MaxChurn = 3
  PatchSize = 78
  PatchCount = 4
  ChunkSize = 20
  a = a
  b = b
  k1 = k1
  k2 = k2
  k3 = k3
  inner = inner
  wide = wide
INVARIANTS
  TypeOK
  HonestCursor
  PinsAreExplained
  WithinBudgets
  JoinedAsAnswered
PROPERTIES
  CacheNeverGoesBack
  OwnTilesStay
ACTION_CONSTRAINT
  TwoOfThree
CHECK_DEADLOCK FALSE
