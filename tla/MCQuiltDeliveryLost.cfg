\* The finding: an acknowledged cursor whose snapshot never arrived.
SPECIFICATION Spec
CONSTANTS
  Chunk = {k1, k2}
  Tile = {inner, wide}
  ChunksOf <- Chunks
  Evicts = FALSE
  MaxRevision = 2
  MaxMoves = 1
  MaxDrops = 1
  MaxEdits = 0
  k1 = k1
  k2 = k2
  inner = inner
  wide = wide
INVARIANTS
  RequiredSnapshotsAreSent
CHECK_DEADLOCK FALSE
