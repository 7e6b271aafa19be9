---------------------------- MODULE QuiltTopology ----------------------------
(***************************************************************************)
(* The arithmetic of the torus, on one axis: wrapping of coordinates, the   *)
(* patches and chunks a tile lies in, the chunks and patches a viewport     *)
(* asks for, and the images of a tile that show.  The axes are independent: *)
(* what the code does to a rectangle is the product of what it does to its  *)
(* two sides.                                                               *)
(*                                                                         *)
(* Coordinates are integers of a unit fine enough for the case at hand.     *)
(* Number.EPSILON, which the code takes from the upper end of a rectangle,  *)
(* is absorbed by every double of 4 or more, so by every border.            *)
(***************************************************************************)
EXTENDS Integers, Sequences, FiniteSets

CONSTANTS
  PatchSize,   \* patchWidth or patchHeight
  PatchCount,  \* patchColumns or patchRows
  ChunkSize    \* CHUNK_WORLD_SIZE

ASSUME QuiltTopologyAssumption ==
  /\ PatchSize \in Nat \ {0}
  /\ PatchCount \in Nat \ {0}
  /\ ChunkSize \in Nat \ {0}

Period == PatchSize * PatchCount

Least(a, b) == IF a <= b THEN a ELSE b

-----------------------------------------------------------------------------
(* Points *)

\* The operator % of the language: the sign is the dividend's.
Remainder(v, m) == IF v >= 0 THEN v % m ELSE -((-v) % m)

PositiveModulo(v, m) == Remainder(Remainder(v, m) + m, m)

\* The patch of a canonical coordinate, kept on the axis.
PatchAt(c) == Least(c \div PatchSize, PatchCount - 1)

ResolveCanonicalPoint(x) ==
  LET c == PositiveModulo(x, Period) IN
  [point |-> c, patch |-> PatchAt(c), local |-> c - PatchAt(c) * PatchSize]

\* The way from a reference to the nearest image of a point, for an even period.
NearestImageDelta(delta, period) ==
  PositiveModulo(delta + period \div 2, period) - period \div 2

-----------------------------------------------------------------------------
(* Intervals *)

\* The part of the axis from min to max, cut at the seam.
DecomposeAxis(min, max, period) ==
  LET low  == PositiveModulo(min, period)
      high == low + (max - min) IN
  IF max - min >= period THEN {<<0, period>>}
  ELSE IF high <= period THEN {<<low, high>>}
  ELSE {<<low, period>>, <<0, high - period>>}

\* rectPatchAddresses
PatchesAlong(i) == PatchAt(i[1]) .. PatchAt(i[2])

ChunksAlong(i) == (i[1] \div ChunkSize) .. (i[2] \div ChunkSize)

\* The patches a placement locks, and those whose owner it needs.
AffectedPatches(min, max) ==
  UNION {PatchesAlong(i) : i \in DecomposeAxis(min, max, Period)}

\* The rows of tile_spatial_refs: each patch of a rectangle with each of its chunks.
SpatialRefs(min, max) ==
  UNION {PatchesAlong(i) \X ChunksAlong(i) : i \in DecomposeAxis(min, max, Period)}

\* The images of [lo, hi] that show between min and max, by the lap they are on.
PeriodicImages(lo, hi, min, max) ==
  ((min - hi) \div Period) + 1 .. -((lo - max) \div Period) - 1

-----------------------------------------------------------------------------
(* What the client asks for *)

ChunkCount == -((-Period) \div ChunkSize)

\* The chunks of a viewport, which the caller has widened by the prefetch ring.
ViewportChunks(min, max) ==
  {PositiveModulo(k, ChunkCount) :
     k \in UNION {ChunksAlong(i) : i \in DecomposeAxis(min, max, Period)}}

\* A chunk is asked of the one patch its lower corner lies in.
PatchOfChunk(k) == PositiveModulo((k * ChunkSize) \div PatchSize, PatchCount)

Subscribed(chunks) == {<<PatchOfChunk(k), k>> : k \in chunks}

\* A subscription delivers a tile when they have a patch and chunk in common: the snapshot
\* is filtered by the references, and an event goes to the rooms they name.
Delivers(chunks, min, max) == Subscribed(chunks) \cap SpatialRefs(min, max) # {}
=============================================================================
