------------------------------ MODULE QuiltView ------------------------------
(***************************************************************************)
(* What a client loads of the tiles others place while it moves over the    *)
(* torus, on one axis; on the other axis tiles lie well within their patch  *)
(* and chunk.  Messages are neither late nor lost here: QuiltDelivery is     *)
(* about those.                                                            *)
(***************************************************************************)
EXTENDS QuiltTopology

CONSTANTS
  TileSpan,   \* the width of a tile
  ViewSpan,   \* the width of the viewport
  Place,      \* where tiles are placed: canonical coordinates of their lower ends
  Camera      \* the lower ends the viewport takes, canonical or laps away

PrefetchRing == 1

VARIABLES
  tiles,      \* the lower ends of the stored tiles
  camera,     \* the lower end of the viewport
  loaded      \* the tiles the client has been sent

vars == <<tiles, camera, loaded>>

Asked(v) == ViewportChunks(v - PrefetchRing * ChunkSize, v + ViewSpan + PrefetchRing * ChunkSize)

Reaches(v, t) == Delivers(Asked(v), t, t + TileSpan)

Init == tiles = {} /\ camera \in Camera /\ loaded = {}

\* Someone places a tile: the event goes to the rooms of its references.
PlaceTile(t) ==
  /\ t \notin tiles
  /\ tiles' = tiles \cup {t}
  /\ loaded' = IF Reaches(camera, t) THEN loaded \cup {t} ELSE loaded
  /\ UNCHANGED camera

\* The viewport moves: snapshots of the chunks it asks for arrive.
Move(v) ==
  /\ v # camera
  /\ camera' = v
  /\ loaded' = loaded \cup {t \in tiles : Reaches(v, t)}
  /\ UNCHANGED tiles

Next == (\E t \in Place : PlaceTile(t)) \/ (\E v \in Camera : Move(v))

Spec == Init /\ [][Next]_vars

-----------------------------------------------------------------------------
\* Every tile of which an image shows in the viewport has been loaded.
NearbyTilesAreLoaded ==
  \A t \in tiles :
    PeriodicImages(t, t + TileSpan, camera, camera + ViewSpan) # {} => t \in loaded
=============================================================================
