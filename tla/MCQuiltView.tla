----------------------------- MODULE MCQuiltView -----------------------------
(* QuiltView on the columns of the quilt of the contracts, in units of 0.4. *)
EXTENDS QuiltView

\* A tile every unit and a half or so, in all four patches, and a viewport anywhere on two laps.
Places  == {4 * n : n \in 0 .. (Period - 1) \div 4}
Cameras == {20 * n : n \in -(Period \div 20) .. Period \div 20}

TwoTiles == Cardinality(tiles) <= 2
=============================================================================
