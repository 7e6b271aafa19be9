---------------------------- MODULE QuiltMutation ----------------------------
(***************************************************************************)
(* persistQuiltTilePlacement and persistQuiltTileRemoval of                 *)
(* apps/server/src/db/repository.ts: the transactions that place and remove *)
(* tiles, statement by statement, with the advisory lock of the operation   *)
(* id and the row locks of the patches, against each other, against retries *)
(* and against changes of ownership.  Together they implement QuiltLog.     *)
(***************************************************************************)
EXTENDS QuiltLog, FiniteSets

CONSTANTS
  Tx,            \* connections that run transactions
  Request,       \* the mutations clients may send, and send again
  Reach,         \* the patches of a tile's footprint widened by the grout gap
  MaxTransfers   \* bound: changes of ownership of each patch

\* Patches are locked in the order of their ids, here numbers.
ASSUME QuiltMutationAssumption ==
  /\ Patch \subseteq Nat
  /\ Request \subseteq [operation : Operation, kind : {"place", "remove"},
                        actor : Principal, tile : Tile]
  /\ Reach \in [Tile -> SUBSET Patch]
  /\ \A t \in Tile : Footprint[t] \subseteq Reach[t]
  /\ \A s, t \in Tile : {s, t} \in Clash => Footprint[s] \cap Reach[t] # {}
  /\ MaxTransfers \in [Patch -> Nat]

VARIABLES
  tx,          \* what each connection is doing
  expected,    \* the expectedPatchRevisions of each request, once it was sent
  bound,       \* idempotency_keys: the requests committed, by operation id
  answer       \* the answer the last step gave to a request, if it gave one

vars == <<owner, revision, history, placed, tx, expected, bound, answer>>

Unsent == [sent |-> FALSE, revisions |-> << >>]

\* What a client may expect of a tile's patches: of each a revision it has seen.
Expectations(t) ==
  {e \in [Footprint[t] -> UNION {0..revision[p] : p \in Patch}] :
     \A p \in Footprint[t] : e[p] <= revision[p]}

Step == {"idle", "advisory", "read", "lock", "check", "commit"}
Idle == [step |-> "idle", request |-> {}, todo |-> {}, locked |-> {}, replay |-> FALSE]

Init ==
  /\ LogInit
  /\ tx = [c \in Tx |-> Idle]
  /\ expected = [r \in Request |-> Unsent]
  /\ bound = {}
  /\ answer = {}

-----------------------------------------------------------------------------
(* Locks *)

Req(c) == CHOOSE r \in tx[c].request : TRUE

\* pg_advisory_xact_lock(hashtext(operationId)), taken first and held to the end.
HoldsOperation(c, o) ==
  tx[c].step \in {"read", "lock", "check", "commit"} /\ Req(c).operation = o

LowestPatch(S) == CHOOSE p \in S : \A q \in S : p <= q

\* Fault: no order; the patches of the footprint first.
HomeFirst(c) ==
  LET home == tx[c].todo \cap Footprint[Req(c).tile] IN
  LowestPatch(IF home # {} THEN home ELSE tx[c].todo)

\* ORDER BY id FOR UPDATE
NextPatch(c) == LowestPatch(tx[c].todo)

BlockedBy(c) ==
  {d \in Tx \ {c} :
     \/ tx[c].step = "advisory" /\ HoldsOperation(d, Req(c).operation)
     \/ tx[c].step = "lock" /\ NextPatch(c) \in tx[d].locked}

\* Fault: the operation id is not locked.
UnblockedByOperation(c) == tx[c].step = "advisory" \/ BlockedBy(c) = {}

Granted(c) == BlockedBy(c) = {}

-----------------------------------------------------------------------------
(* Answers and idempotency *)

\* Fault: the patches stay locked.
AnswerLocked(c, outcome) ==
  /\ tx' = [tx EXCEPT ![c] = [Idle EXCEPT !.locked = tx[c].locked]]
  /\ answer' = {[request |-> Req(c), outcome |-> outcome]}

\* The transaction ends with an answer to the client.
Answer(c, outcome) ==
  /\ tx' = [tx EXCEPT ![c] = Idle]
  /\ answer' = {[request |-> Req(c), outcome |-> outcome]}

NoAnswer == answer' = {}

\* loadBoundOperation: is this request the one stored for its operation id, or another?
Replays(c)  == Req(c) \in bound
Misuses(c)  == ~Replays(c) /\ \E r \in bound : r.operation = Req(c).operation

\* Fault: only one patch of the footprint is authorized.
OwnsAPatch(c) == \E p \in Footprint[Req(c).tile] : owner[p] = Req(c).actor

\* Every patch the tile intersects is the actor's.
Authorized(c) == Owns(Req(c).actor, Req(c).tile)

\* Fault: the revisions are not compared.
AnyRevision(c) == TRUE

RevisionsCurrent(c) ==
  \A p \in Footprint[Req(c).tile] : expected[Req(c)].revisions[p] = revision[p]

\* Tiles with spatial references in a locked patch.
Nearby(c) == {s \in placed : Footprint[s] \cap tx[c].locked # {}}
Collides(c) == \E s \in Nearby(c) : {s, Req(c).tile} \in Clash

-----------------------------------------------------------------------------
(* The statements of the transactions *)

\* A client sends a request for the first time, with revisions it has seen, or again.
Send(c, r) ==
  /\ tx[c].step = "idle"
  /\ \/ expected[r].sent /\ UNCHANGED expected
     \/ /\ ~expected[r].sent
        /\ \E e \in Expectations(r.tile) :
             expected' = [expected EXCEPT ![r] = [sent |-> TRUE, revisions |-> e]]
  /\ tx' = [tx EXCEPT ![c] = [Idle EXCEPT !.step = "advisory", !.request = {r}]]
  /\ NoAnswer
  /\ UNCHANGED <<owner, revision, history, placed, bound>>

\* Fault: the collision footprint is not locked.
FootprintOnly(t) == Footprint[t]

\* The patches a placement locks.
LockSet(t) == Reach[t]

\* A removal looks its operation id up at once, a placement under the patch locks.
LockOperation(c) ==
  /\ tx[c].step = "advisory"
  /\ Granted(c)
  /\ \/ /\ Req(c).kind = "remove" /\ Misuses(c)
        /\ Answer(c, "unavailable")
     \/ /\ Req(c).kind = "remove" /\ ~Misuses(c)
        /\ tx' = [tx EXCEPT ![c].step = "read", ![c].replay = Replays(c)]
        /\ NoAnswer
     \/ /\ Req(c).kind = "place"
        /\ tx' = [tx EXCEPT ![c].step = "lock", ![c].todo = LockSet(Req(c).tile)]
        /\ NoAnswer
  /\ UNCHANGED <<owner, revision, history, placed, expected, bound>>

\* A removal reads the tile and its references before it locks anything.
ReadTile(c) ==
  /\ tx[c].step = "read"
  /\ \/ /\ Req(c).tile \in placed \/ tx[c].replay
        /\ tx' = [tx EXCEPT ![c].step = "lock", ![c].todo = Footprint[Req(c).tile]]
        /\ NoAnswer
     \/ /\ Req(c).tile \notin placed /\ ~tx[c].replay
        /\ Answer(c, "unavailable")
  /\ UNCHANGED <<owner, revision, history, placed, expected, bound>>

LockPatch(c) ==
  LET p == NextPatch(c) IN
  /\ tx[c].step = "lock"
  /\ Granted(c)
  /\ tx' = [tx EXCEPT ![c].locked = @ \cup {p}, ![c].todo = @ \ {p},
                      ![c].step = IF tx[c].todo = {p} THEN "check" ELSE @]
  /\ NoAnswer
  /\ UNCHANGED <<owner, revision, history, placed, expected, bound>>

\* A removal acts on the lookup it began with, a placement looks up now.
IsReplay(c) == IF Req(c).kind = "remove" THEN tx[c].replay ELSE Replays(c)
IsMisuse(c) == Req(c).kind = "place" /\ Misuses(c)

\* Under the locks, in the order of the code: authorization, replay, revisions and, for
\* a placement, collisions.
Check(c) ==
  /\ tx[c].step = "check"
  /\ \/ ~Authorized(c) /\ Answer(c, "unauthorized")
     \/ Authorized(c) /\ IsReplay(c) /\ Answer(c, "accepted")
     \/ Authorized(c) /\ IsMisuse(c) /\ Answer(c, "rejected")
     \/ /\ Authorized(c) /\ ~IsReplay(c) /\ ~IsMisuse(c)
        /\ \/ ~RevisionsCurrent(c) /\ Answer(c, "stale")
           \/ /\ RevisionsCurrent(c) /\ Req(c).kind = "place" /\ Collides(c)
              /\ Answer(c, "rejected")
           \/ /\ RevisionsCurrent(c) /\ (Req(c).kind = "place" => ~Collides(c))
              /\ tx' = [tx EXCEPT ![c].step = "commit"]
              /\ NoAnswer
  /\ UNCHANGED <<owner, revision, history, placed, expected, bound>>

\* The tile, its references, an operation and a revision per patch of the footprint and
\* the stored response become visible at once.
Commit(c) ==
  LET r == Req(c) IN
  /\ tx[c].step = "commit"
  /\ \/ /\ r.kind = "place"
        /\ placed' = placed \cup {r.tile}
        /\ Append1(Footprint[r.tile], r.operation, "placed", r.tile)
     \/ /\ r.kind = "remove"
        /\ placed' = placed \ {r.tile}
        /\ Append1(Footprint[r.tile], r.operation, "removed", r.tile)
  /\ bound' = bound \cup {r}
  /\ Answer(c, "accepted")
  /\ UNCHANGED <<owner, expected>>

-----------------------------------------------------------------------------
(* The environment *)

\* The server or its connection to the database is lost before the commit.
Abort(c) ==
  /\ tx[c].step # "idle"
  /\ tx' = [tx EXCEPT ![c] = Idle]
  /\ NoAnswer
  /\ UNCHANGED <<owner, revision, history, placed, expected, bound>>

\* An ownership command commits; it too locks the patch.
Transfer(p, u) ==
  /\ \A c \in Tx : p \notin tx[c].locked
  /\ revision[p] - Len(history[p]) < MaxTransfers[p]
  /\ ChangeHands(p, u)
  /\ NoAnswer
  /\ UNCHANGED <<tx, expected, bound>>

Statement(c) == LockOperation(c) \/ ReadTile(c) \/ LockPatch(c) \/ Check(c) \/ Commit(c)

Next ==
  \/ \E c \in Tx, r \in Request : Send(c, r)
  \/ \E c \in Tx : Statement(c) \/ Abort(c)
  \/ \E p \in Patch, u \in Principal : Transfer(p, u)

Spec == Init /\ [][Next]_vars

-----------------------------------------------------------------------------
\* The tables are well formed; locks are held only between the first lock and the end.
TypeOK ==
  /\ owner \in [Patch -> Principal]
  /\ revision \in [Patch -> Nat]
  /\ \A p \in Patch : \A i \in DOMAIN history[p] : history[p][i] \in Entry
  /\ placed \subseteq Tile
  /\ \A c \in Tx :
       /\ tx[c].step \in Step
       /\ tx[c].request \subseteq Request
       /\ tx[c].step # "idle" => Cardinality(tx[c].request) = 1
       /\ tx[c].todo \cup tx[c].locked \subseteq Patch
       /\ tx[c].replay \in BOOLEAN
       /\ tx[c].step \in {"idle", "advisory", "read"} => tx[c].locked = {}
  /\ \A r \in Request : expected[r].sent => expected[r].revisions \in Expectations(r.tile)
  /\ bound \subseteq Request

\* A request that was committed is answered as committed whenever it is sent again,
\* unless its actor has lost a patch of the tile meanwhile.
RetriesAgree ==
  [][\A a \in answer' :
        a.request \in bound => a.outcome \in {"accepted", "unauthorized"}]_vars

\* Transactions never wait for each other in a circle.
NoLockCycle == \A S \in SUBSET Tx : S # {} => \E c \in S : BlockedBy(c) \cap S = {}

\* The transactions implement the atomic operations of QuiltLog.
ImplementsLog == LogSpec
=============================================================================
