--------------------------- MODULE MCQuiltDelivery ---------------------------
(* A small instance of QuiltDelivery for TLC: a tile within a chunk and one over two. *)
EXTENDS QuiltDelivery, TLC

CONSTANTS k1, k2, inner, wide

Chunks == inner :> {k1} @@ wide :> {k1, k2}

\* Of moved views, edits and lost connections a behaviour has two kinds at most; a view that
\* moves does so before the connection is lost, and beside one edit.
TwoOfThree ==
  /\ moves' = 0 \/ edits' = 0 \/ drops' = 0
  /\ moves' > moves => drops = 0
  /\ edits' = 2 => moves' = 0
=============================================================================
