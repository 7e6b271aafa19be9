----------------------------- MODULE QuiltRooms -----------------------------
(***************************************************************************)
(* The rooms of one connection: each subscription asks for rooms, a patch   *)
(* and a kind of data each, with the chunks of interest.  Requests are      *)
(* answered one by one within the limits and the visibility of the patches, *)
(* the snapshots of the accepted rooms are loaded, and the connection moves *)
(* from its old rooms to the new ones.                                      *)
(*                                                                         *)
(* The requests of a subscription are chosen one at a time, as they are     *)
(* answered; the code answers them in one turn of the event loop.           *)
(***************************************************************************)
EXTENDS Naturals, FiniteSets

CONSTANTS
  Patch,        \* the canonical addresses of the quilt
  RoomRequest,  \* what a client may ask for: records of address, kind and chunks
  Canonical,    \* the patch of an address, also of its aliases, or Nowhere
  Nowhere,
  Row,          \* what the tables may say of a patch: its state, policy, and membership
  NoPolicy,     \* no policy, or one that is not well formed
  MaxRequests, MaxRooms, MaxChunks, MaxChurn

Surface == {"existence", "fineData", "aggregateData", "presence", "durableEvents"}
Level   == {"public", "authenticated", "hidden"}
Kind    == {"fine", "aggregate", "presence", "events"}
State   == {"unclaimed", "active", "suspended", "deletion_requested", "deleted"}

Room == Patch \X Kind

ChunkAsked == UNION {q.chunks : q \in RoomRequest}

ASSUME QuiltRoomsAssumption ==
  /\ MaxRequests \in Nat /\ MaxRooms \in Nat /\ MaxChunks \in Nat /\ MaxChurn \in Nat
  /\ \A q \in RoomRequest : /\ Canonical[q.address] \in Patch \cup {Nowhere}
                            /\ q.kind \in Kind /\ IsFiniteSet(q.chunks)
  /\ Nowhere \notin Patch
  /\ Row \subseteq [state : State, member : BOOLEAN, policy : [Surface -> Level] \cup {NoPolicy}]

VARIABLES
  patchRow,   \* the tables' row of each patch, for the principal of the connection
  rooms,      \* quiltRoomIds
  scope,      \* quiltAdapterRoomIds: the chunks of each room
  churn,      \* roomChurnInWindow
  told,       \* the requests the last completed subscription was told are accepted
  \* The subscription in flight:
  phase,      \* "none", "resolving" or "loading"
  visible,    \* the rooms the principal could see when it began
  count,      \* how many of its requests have been answered
  requested,  \* requestedChurn
  accepted,   \* the accepted rooms
  chunks,     \* and their chunks
  answers,    \* the requests answered as accepted
  loaded,     \* the rooms whose snapshots have been loaded
  dropped     \* those whose snapshots were too large

connection == <<rooms, scope, churn, told>>
resolution == <<count, requested, accepted, chunks, answers>>
snapshots  == <<loaded, dropped>>
roomVars   == <<patchRow, connection, phase, visible, resolution, snapshots>>

-----------------------------------------------------------------------------
(* Visibility *)

LifecycleAllows(surface, state) ==
  /\ state # "deleted"
  /\ state = "deletion_requested" => surface = "aggregateData"
  /\ state = "suspended" => surface # "presence"

CanAccess(surface, row) ==
  /\ row.policy # NoPolicy
  /\ LifecycleAllows(surface, row.state)
  /\ row.policy[surface] = "hidden" => row.member

SurfaceOf ==
  [k \in Kind |-> CASE k = "fine" -> "fineData" [] k = "aggregate" -> "aggregateData"
                    [] k = "presence" -> "presence" [] k = "events" -> "durableEvents"]

\* hasAccess, with the existence of the patch
Visible(room, row) ==
  /\ row.state \notin {"deleted", "deletion_requested"}
  /\ CanAccess("existence", row)
  /\ CanAccess(SurfaceOf[room[2]], row)

\* The snapshot is authorized again; all kinds but one ask for the fine data.
Authorized(room) ==
  CanAccess(IF room[2] = "aggregate" THEN "aggregateData" ELSE "fineData", patchRow[room[1]])

-----------------------------------------------------------------------------
(* A subscription *)

NoChunks == [r \in Room |-> {}]

\* No subscription, or one of which nothing is resolved.
Fresh(p) ==
  /\ phase' = p
  /\ count' = 0 /\ requested' = 0 /\ accepted' = {} /\ chunks' = NoChunks /\ answers' = {}
  /\ loaded' = {} /\ dropped' = {}

\* The patches are read, and the window of the churn starts anew if a minute has passed.
\* A subscription that arrives while one is in flight is refused and changes nothing.
Begin(lapsed) ==
  /\ phase = "none" /\ Fresh("resolving")
  /\ visible' = {r \in Room : Visible(r, patchRow[r[1]])}
  /\ churn' = IF lapsed THEN 0 ELSE churn
  /\ UNCHANGED <<patchRow, rooms, scope, told>>

Target(q) == <<Canonical[q.address], q.kind>>

WellFormed(q) ==
  /\ Canonical[q.address] # Nowhere
  /\ q.kind # "presence" => q.chunks # {}

Fits(S) == Cardinality(S) <= MaxChunks

\* Fault: the rooms accepted before are not counted.
HasSpaceAlone(r) == r \in rooms \/ Cardinality(rooms) < MaxRooms

HasSpace(r) == r \in rooms \/ Cardinality(rooms) + Cardinality(accepted) < MaxRooms

\* The limits and rules a request meets before its churn is counted.
Admissible(q) ==
  LET r == Target(q) IN
  /\ WellFormed(q) /\ Fits(q.chunks)
  /\ r \in accepted => Fits(chunks[r] \cup q.chunks)
  /\ r \notin accepted => r \in visible /\ HasSpace(r)

RequestedBy(q) == requested + (IF Target(q) \in rooms THEN 0 ELSE 1)

\* Fault: the chunks of a merged request replace those of the first.
ReplacedBy(q) == [chunks EXCEPT ![Target(q)] = q.chunks]
MergedWith(q) == [chunks EXCEPT ![Target(q)] = @ \cup q.chunks]

Accepted(q) ==
  /\ accepted' = accepted \cup {Target(q)}
  /\ chunks' = MergedWith(q)
  /\ answers' = answers \cup {<<Target(q), q.chunks>>}

Refuse(q) == ~Admissible(q) /\ UNCHANGED <<requested, accepted, chunks, answers>>

\* Another request, often by an alias, was for the same room.
Merge(q) == Admissible(q) /\ Target(q) \in accepted /\ Accepted(q) /\ UNCHANGED requested

\* A room refused for its churn still counts for those after it, also for rooms the
\* connection is in.
TooMuchChurn(q) ==
  /\ Admissible(q) /\ Target(q) \notin accepted
  /\ churn + RequestedBy(q) > MaxChurn
  /\ requested' = RequestedBy(q)
  /\ UNCHANGED <<accepted, chunks, answers>>

Admit(q) ==
  /\ Admissible(q) /\ Target(q) \notin accepted
  /\ churn + RequestedBy(q) <= MaxChurn
  /\ requested' = RequestedBy(q)
  /\ Accepted(q)

\* Requests beyond the limit are refused and leave no trace.
Resolve(q) ==
  /\ phase = "resolving" /\ count < MaxRequests
  /\ count' = count + 1
  /\ Refuse(q) \/ Merge(q) \/ TooMuchChurn(q) \/ Admit(q)
  /\ UNCHANGED <<patchRow, connection, phase, visible, snapshots>>

Resolved ==
  /\ phase = "resolving" /\ phase' = "loading"
  /\ UNCHANGED <<patchRow, connection, visible, resolution, snapshots>>

\* The snapshot of an accepted room is loaded; if it is too large the room is dropped.
LoadSnapshot(r, large) ==
  /\ phase = "loading" /\ r \in accepted \ loaded
  /\ Authorized(r)
  /\ large => r[2] # "presence"
  /\ loaded' = loaded \cup {r}
  /\ dropped' = IF large THEN dropped \cup {r} ELSE dropped
  /\ UNCHANGED <<patchRow, connection, phase, visible, resolution>>

\* A patch that is not visible any more, or the database, fails the whole subscription.
Fail ==
  /\ phase = "loading" /\ loaded # accepted
  /\ Fresh("none") /\ visible' = {}
  /\ UNCHANGED <<patchRow, connection>>

Enter ==
  LET next == accepted \ dropped IN
  /\ phase = "loading" /\ loaded = accepted
  /\ rooms' = next
  /\ scope' = [r \in Room |-> IF r \in next THEN chunks[r] ELSE {}]
  /\ churn' = churn + Cardinality(next \ rooms)
  /\ told' = {a \in answers : a[1] \in next}
  /\ Fresh("none") /\ visible' = {}
  /\ UNCHANGED patchRow

\* Patches change hands, and their states.
Change(p, row) ==
  /\ patchRow' = [patchRow EXCEPT ![p] = row]
  /\ UNCHANGED <<connection, phase, visible, resolution, snapshots>>

RoomsInit ==
  /\ patchRow \in [Patch -> Row]
  /\ rooms = {} /\ scope = NoChunks /\ churn = 0 /\ told = {}
  /\ phase = "none" /\ visible = {}
  /\ count = 0 /\ requested = 0 /\ accepted = {} /\ chunks = NoChunks /\ answers = {}
  /\ loaded = {} /\ dropped = {}

RoomsNext ==
  \/ \E lapsed \in BOOLEAN : Begin(lapsed)
  \/ \E q \in RoomRequest : Resolve(q)
  \/ Resolved \/ Fail \/ Enter
  \/ \E r \in Room, large \in BOOLEAN : LoadSnapshot(r, large)
  \/ \E p \in Patch, row \in Row : Change(p, row)

RoomsSpec == RoomsInit /\ [][RoomsNext]_roomVars

-----------------------------------------------------------------------------
\* The rooms of a set of answers, and the chunks they name of one.
RoomsOf(S) == {a[1] : a \in S}
ScopeOf(S, r) == UNION {a[2] : a \in {b \in S : b[1] = r}}

\* However a connection moves, by aliases, with old rooms and new ones, it has at most
\* MaxRooms rooms of at most MaxChunks chunks, and has entered MaxChurn in a window.
WithinBudgets ==
  /\ Cardinality(rooms) <= MaxRooms
  /\ churn <= MaxChurn
  /\ \A r \in rooms : Cardinality(scope[r]) <= MaxChunks

\* A connection is in exactly the rooms and chunks whose requests it was last told are
\* accepted, also when they were merged, dropped for their size, or failed.
JoinedAsAnswered ==
  /\ rooms = RoomsOf(told)
  /\ \A r \in Room : scope[r] = ScopeOf(told, r)

\* The connection and its subscription are well formed.
RoomsTypeOK ==
  /\ patchRow \in [Patch -> Row]
  /\ rooms \subseteq Room
  /\ scope \in [Room -> SUBSET ChunkAsked]
  /\ churn \in Nat
  /\ told \subseteq Room \X SUBSET ChunkAsked
  /\ phase \in {"none", "resolving", "loading"}
  /\ visible \subseteq Room
  /\ count \in Nat /\ requested \in Nat
  /\ accepted \subseteq Room
  /\ chunks \in [Room -> SUBSET ChunkAsked]
  /\ answers \subseteq Room \X SUBSET ChunkAsked
  /\ loaded \subseteq Room /\ dropped \subseteq Room
=============================================================================
