------------------------------- MODULE QuiltLog -------------------------------
(***************************************************************************)
(* What the quilt promises of its tiles, each operation in one step: a      *)
(* tile lies in one or more patches, only the owner of all of them places   *)
(* or removes it, tiles never clash, every operation takes effect at most   *)
(* once, and each patch it touches gets one entry in its history, numbered  *)
(* with the revision the patch has after it.                                *)
(***************************************************************************)
EXTENDS Naturals, Sequences

CONSTANTS
  Patch, Tile, Principal, Operation,
  Footprint,     \* the patches a tile's geometry intersects
  Clash,         \* pairs of tiles whose geometry overlaps, as sets; a tile clashes with itself
  FirstOwner     \* who owns each patch initially

ASSUME QuiltLogAssumption ==
  /\ Footprint \in [Tile -> (SUBSET Patch) \ {{}}]
  /\ Clash \subseteq SUBSET Tile
  /\ \A t \in Tile : {t} \in Clash
  /\ FirstOwner \in [Patch -> Principal]

VARIABLES
  owner,       \* patches.owner_principal_id
  revision,    \* patches.revision
  history,     \* patch_operations of each patch, in op_seq order
  placed       \* the tiles table, with its spatial references

logVars == <<owner, revision, history, placed>>

Entry == [seq : Nat, operation : Operation, kind : {"placed", "removed"}, tile : Tile]

LogInit ==
  /\ owner = FirstOwner
  /\ revision = [p \in Patch |-> 0]
  /\ history = [p \in Patch |-> << >>]
  /\ placed = {}

\* One operation entry and one revision for every patch in F.
Append1(F, o, kind, t) ==
  /\ revision' = [p \in Patch |-> IF p \in F THEN revision[p] + 1 ELSE revision[p]]
  /\ history' = [p \in Patch |->
       IF p \in F
       THEN Append(history[p], [seq |-> revision[p] + 1, operation |-> o, kind |-> kind, tile |-> t])
       ELSE history[p]]

Unused(o) == \A p \in Patch : \A i \in DOMAIN history[p] : history[p][i].operation # o
Owns(u, t) == \A p \in Footprint[t] : owner[p] = u

Place(u, o, t) ==
  /\ \A s \in placed : {s, t} \notin Clash
  /\ placed' = placed \cup {t}
  /\ Owns(u, t) /\ Unused(o)
  /\ Append1(Footprint[t], o, "placed", t)
  /\ UNCHANGED owner

Remove(u, o, t) ==
  /\ t \in placed
  /\ placed' = placed \ {t}
  /\ Owns(u, t) /\ Unused(o)
  /\ Append1(Footprint[t], o, "removed", t)
  /\ UNCHANGED owner

\* A claim, transfer or abandonment: the revision moves, the history does not.
ChangeHands(p, u) ==
  /\ u # owner[p]
  /\ owner' = [owner EXCEPT ![p] = u]
  /\ revision' = [revision EXCEPT ![p] = @ + 1]
  /\ UNCHANGED <<history, placed>>

LogNext ==
  \/ \E u \in Principal, o \in Operation, t \in Tile : Place(u, o, t) \/ Remove(u, o, t)
  \/ \E p \in Patch, u \in Principal : ChangeHands(p, u)

LogSpec == LogInit /\ [][LogNext]_logVars

-----------------------------------------------------------------------------
\* No two tiles of the quilt overlap, whoever placed them in whichever patches.
NoTilesClash == \A s, t \in placed : s # t => {s, t} \notin Clash

\* The tiles a replay of a patch's history leaves.
Replayed(p) ==
  {t \in Tile : \E i \in DOMAIN history[p] :
     /\ history[p][i].tile = t /\ history[p][i].kind = "placed"
     /\ \A j \in DOMAIN history[p] : j > i => history[p][j].tile # t}

\* The history of a patch and the tiles in it are two accounts of the same thing: its
\* entries are numbered upwards, never beyond the revision, a tile is placed and removed
\* in turns, and a replay leaves the tiles the tables hold.
HistoryRebuildsTiles ==
  \A p \in Patch :
    /\ Replayed(p) = {t \in placed : p \in Footprint[t]}
    /\ \A i, j \in DOMAIN history[p] :
         i < j => /\ history[p][i].seq < history[p][j].seq
                  /\ (history[p][i].tile = history[p][j].tile
                      /\ \A k \in (i + 1)..(j - 1) : history[p][k].tile # history[p][i].tile)
                       => history[p][i].kind # history[p][j].kind
    /\ \A i \in DOMAIN history[p] : history[p][i].seq <= revision[p]
=============================================================================
