--------------------------- MODULE MCQuiltMutation ---------------------------
(* A small instance of QuiltMutation for TLC: two patches side by side. *)
EXTENDS QuiltMutation, TLC

CONSTANTS c1, c2, u1, u2, near1, near2, across, o1, o2, o3, o4

Connections == {c1, c2}

\* near1 and near2 face each other over the border and overlap; across lies over it,
\* away from both.
Footprints == near1 :> {1} @@ near2 :> {2} @@ across :> {1, 2}
Reaches    == near1 :> {1, 2} @@ near2 :> {1, 2} @@ across :> {1, 2}
Clashes    == {{near1}, {near2}, {across}, {near1, near2}}
Owners     == 1 :> u1 @@ 2 :> u2
Transfers  == 1 :> 0 @@ 2 :> 1

Ask(o, kind, u, t) == [operation |-> o, kind |-> kind, actor |-> u, tile |-> t]

\* Two neighbours, two removals of one tile, a seam tile, and an operation id used twice.
Requests == {Ask(o1, "place", u1, near1), Ask(o2, "place", u2, near2),
             Ask(o3, "remove", u1, near1), Ask(o4, "remove", u1, near1),
             Ask(o4, "place", u1, across)}

Symmetry == Permutations(Connections)
=============================================================================
