\* Two connections, two patches of two owners, five requests.
SPECIFICATION Spec
CONSTANTS
  Patch = {1, 2}
  Tile = {near1, near2, across}
  Principal = {u1, u2}
  Operation = {o1, o2, o3, o4}
  Footprint <- Footprints
  Clash <- Clashes
  FirstOwner <- Owners
  Tx <- Connections
  Request <- Requests
  Reach <- Reaches
  MaxTransfers <- Transfers
  c1 = c1
  c2 = c2
  u1 = u1
  u2 = u2
  near1 = near1
  near2 = near2
  across = across
  o1 = o1
  o2 = o2
  o3 = o3
  o4 = o4
SYMMETRY Symmetry
INVARIANTS
  TypeOK
  NoTilesClash
  HistoryRebuildsTiles
  NoLockCycle
PROPERTIES
  RetriesAgree
  ImplementsLog
