------------------------ MODULE MCQuiltSubscription ------------------------
(* A small instance for TLC of a subscription: what QuiltDelivery delivers to the rooms of *)
(* one patch, and how QuiltRooms chooses the rooms. They share nothing but the request,    *)
(* so that each is explored with the other at rest.                                       *)
EXTENDS MCQuiltDelivery, QuiltRooms, QuiltTopology

CONSTANTS a, b, k3

\* Which of the two moves.
VARIABLE choosing

\* The row of a patch whose tiles are hidden and whose events are not: as its owner and as
\* a visitor reads it, and deleted.
Of(state, member) ==
  [state |-> state, member |-> member,
   policy |-> [x \in Surface |-> IF x = "fineData" THEN "hidden" ELSE "authenticated"]]

Rows == {Of("active", TRUE), Of("active", FALSE), Of("deleted", FALSE)}

\* The patches a and b, another lap of a, and beyond the quilt.
Addresses == 1 :> a @@ 2 :> b @@ 3 :> a @@ 4 :> Nowhere

For(x, k, cs) == [address |-> x, kind |-> k, chunks |-> cs]

RoomRequests ==
  {For(1, "fine", {k1}), For(3, "fine", {k2}), For(1, "fine", {k2, k3}),
   For(2, "events", {k1}), For(1, "presence", {}), For(4, "fine", {k1})}

SceneInit ==
  /\ choosing \in BOOLEAN /\ Init /\ RoomsInit
  /\ patchRow[b] = Of("active", TRUE) /\ (~choosing => patchRow[a] = patchRow[b])

SceneNext ==
  /\ UNCHANGED choosing
  /\ \/ choosing /\ RoomsNext /\ UNCHANGED <<vars, patchRow[b]>>
     \/ ~choosing /\ Next /\ UNCHANGED roomVars

SceneSpec == SceneInit /\ [][SceneNext]_<<choosing, vars, roomVars>>
=============================================================================
