\* Patches of 31.2, chunks of 8, tiles of 0.8 and a viewport of 16, in units of 0.4.
SPECIFICATION Spec
CONSTANTS
  PatchSize = 78
  PatchCount = 4
  ChunkSize = 20
  TileSpan = 2
  ViewSpan = 40
  Place <- Places
  Camera <- Cameras
INVARIANTS
  NearbyTilesAreLoaded
CONSTRAINT
  TwoTiles
CHECK_DEADLOCK FALSE
