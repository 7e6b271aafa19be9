---------------------------- MODULE QuiltDelivery ----------------------------
(***************************************************************************)
(* How one client comes to see the tiles of one patch: the server's commits *)
(* and the events they broadcast after the commit, the subscription to the  *)
(* chunks in view, its acknowledgement and snapshot, and the client's       *)
(* cursor and cache.  The client places tiles and takes its own back: it    *)
(* shows a tile before the answer and pins it.  Events may be reordered or  *)
(* lost, the connection may drop at any time, and the client may evict the  *)
(* patch.  Only rooms of kind "fine" are modelled; a client that zooms out  *)
(* subscribes to none.                                                      *)
(***************************************************************************)
EXTENDS Naturals, Sequences, FiniteSets, SequencesExt

CONSTANTS
  Chunk, Tile,
  ChunksOf,      \* the chunks a tile has spatial references to
  Evicts,        \* whether the cache budget is ever exceeded
  MaxRevision,   \* bound: commits
  MaxMoves,      \* bound: changes of the chunks in view
  MaxEdits,      \* bound: placements and undos of the client
  MaxDrops       \* bound: lost connections

ASSUME QuiltDeliveryAssumption ==
  /\ ChunksOf \in [Tile -> (SUBSET Chunk) \ {{}}]
  /\ Evicts \in BOOLEAN
  /\ MaxRevision \in Nat /\ MaxMoves \in Nat /\ MaxDrops \in Nat /\ MaxEdits \in Nat

VARIABLES
  revision, tiles,   \* the patch and its tiles in the database
  pending,           \* events committed and not broadcast yet
  up,                \* whether the client is connected
  sent,              \* subscribe_quilt_area requests on their way to the server
  joined,            \* the chunk rooms the socket is in
  sub,               \* the subscription the server is working on
  wire,              \* messages on their way to the client, in order
  want, due,         \* the chunks in view; whether the client is about to subscribe
  cursor,            \* quiltCursorsRef of the room; its scope is empty when it has no chunkIds
  cached,            \* the patch in the quilt cache; it has no chunks when there is none
  torn,              \* whether the cursor outlived the tiles it stands for
  shown,             \* the tiles of the cache, which the canvas draws
  optimistic, undo,  \* pinned: placed and not answered; accepted, and not taken back since
  asked,             \* the client's mutations the server has not answered
  named,             \* the tile identifiers in use so far; they are never used again
  excused,           \* tiles the client cannot know about (a history variable)
  edits,
  moves, drops

server == <<revision, tiles, pending>>
link   == <<up, sent, joined, sub, wire>>
view   == <<want, due, cursor, cached, torn>>
pins   == <<shown, optimistic, undo, edits>>
own    == <<pins, asked, named, excused>>
vars   == <<server, link, view, own, moves, drops>>

NoCursor == [revision |-> 0, scope |-> {}]
Nothing  == [k \in Chunk |-> {}]
Uncached == [revision |-> 0, chunks |-> {}, tiles |-> Nothing]
NoSub    == [phase |-> "none", scope |-> {}, revision |-> 0, tiles |-> Nothing, omit |-> FALSE,
             supplied |-> NoCursor]

TilesIn(k) == {t \in tiles : k \in ChunksOf[t]}

Init ==
  /\ revision = 0 /\ tiles = {} /\ pending = {}
  /\ up = TRUE /\ sent = << >> /\ joined = {} /\ sub = NoSub /\ wire = << >>
  /\ want \in (SUBSET Chunk) \ {{}} /\ due = TRUE
  /\ cursor = NoCursor /\ cached = Uncached /\ torn = FALSE
  /\ shown = {} /\ optimistic = {} /\ undo = {} /\ asked = {} /\ named = {} /\ excused = {}
  /\ moves = 0 /\ drops = 0 /\ edits = 0

-----------------------------------------------------------------------------
(* The server: commits, answers and broadcasts *)

Event(op, t, v) == [kind |-> "event", revision |-> v, operation |-> op, tile |-> t]

\* What the client hears of its own mutation; revision 0 when it is rejected.
Reply(op, t, v) == [Event(op, t, v) EXCEPT !.kind = "reply"]

Commit(op, t) ==
  /\ revision < MaxRevision
  /\ op = "placed" <=> t \notin tiles
  /\ revision' = revision + 1
  /\ tiles' = IF op = "placed" THEN tiles \cup {t} ELSE tiles \ {t}

\* Another connection's mutation; its event is broadcast later. The client may have
\* pinned a tile that is removed here.
Mutate(op, t) ==
  /\ op = "placed" => t \notin named
  /\ Commit(op, t)
  /\ named' = named \cup {t}
  /\ pending' = pending \cup {Event(op, t, revision + 1)}
  /\ excused' = IF op = "removed" THEN excused \cup ({t} \cap (optimistic \cup undo)) ELSE excused
  /\ UNCHANGED <<link, view, pins, asked, moves, drops>>

\* A request the server can work on: Socket.IO keeps those made without a connection.
Received(r) == r.heard => up

\* The client's own mutation commits, if its revision is the current one.
Decide(r) ==
  /\ Received(r) /\ r.revision = 0 /\ r.expected = revision
  /\ Commit(r.operation, r.tile)
  /\ asked' = (asked \ {r}) \cup {[r EXCEPT !.revision = revision + 1]}
  /\ UNCHANGED <<pending, link, view, pins, named, excused, moves, drops>>

\* It is rejected: stale, unauthorized, colliding or not found, or the database fails,
\* and then it may have committed.
Reject(r) ==
  /\ Received(r)
  /\ asked' = asked \ {r}
  /\ wire' = IF r.heard THEN Append(wire, Reply(r.operation, r.tile, 0)) ELSE wire
  /\ excused' = IF r.revision > 0 THEN excused \cup {r.tile} ELSE excused
  /\ UNCHANGED <<server, up, sent, joined, sub, view, pins, named, moves, drops>>

\* It is accepted, and its event broadcast later.
Accept(r) ==
  /\ r.revision > 0
  /\ asked' = asked \ {r}
  /\ wire' = IF r.heard THEN Append(wire, Reply(r.operation, r.tile, r.revision)) ELSE wire
  /\ pending' = pending \cup {Event(r.operation, r.tile, r.revision)}
  /\ UNCHANGED <<revision, tiles, up, sent, joined, sub, view, pins, named, excused, moves, drops>>

\* A change of ownership moves the revision and broadcasts nothing.
ChangeHands ==
  /\ revision < MaxRevision
  /\ revision' = revision + 1
  /\ UNCHANGED <<tiles, pending, link, view, own, moves, drops>>

\* The event goes to the room of each chunk of the tile, in whatever order the handlers
\* come back from loadQuiltDeliveryContext; if the handler fails or its server dies, never.
Emit(e) ==
  /\ pending' = pending \ {e}
  /\ wire' = wire \o [i \in 1..Cardinality(ChunksOf[e.tile] \cap joined) |-> e]
  /\ UNCHANGED <<revision, tiles, up, sent, joined, sub, view, own, moves, drops>>

-----------------------------------------------------------------------------
(* The server: subscribe_quilt_area *)

Ack(c) == [kind |-> "ack", cursor |-> c]

\* One subscription at a time: another is refused.
Receive ==
  /\ sent # << >>
  /\ sent' = Tail(sent)
  /\ IF sub.phase = "none"
     THEN /\ sub' = [NoSub EXCEPT !.phase = "load", !.scope = Head(sent).scope,
                                  !.supplied = Head(sent).cursor]
          /\ UNCHANGED wire
     ELSE wire' = Append(wire, Ack(NoCursor)) /\ UNCHANGED sub
  /\ UNCHANGED <<server, up, joined, view, own, moves, drops>>

\* cursorMatches: the client has this revision of these chunks.
Matches == sub.supplied.revision = revision /\ sub.supplied.scope = sub.scope

\* loadPatchDeliverySnapshot: one repeatable-read view of revision and tiles.
Load ==
  /\ sub.phase = "load"
  /\ sub' = [sub EXCEPT !.phase = "rooms", !.revision = revision,
                        !.tiles = [k \in Chunk |-> IF k \in sub.scope THEN TilesIn(k) ELSE {}],
                        !.omit = sub.scope = {} \/ Matches]
  /\ UNCHANGED <<server, up, sent, joined, wire, view, own, moves, drops>>

\* The context or a snapshot cannot be loaded: no cursor, and the rooms stay as they are.
LoadFails ==
  /\ sub.phase = "load"
  /\ wire' = Append(wire, Ack(NoCursor))
  /\ sub' = [sub EXCEPT !.phase = "states", !.omit = TRUE]
  /\ UNCHANGED <<server, up, sent, joined, view, own, moves, drops>>

\* socket.leave and socket.join, awaited one room at a time, leaving first.
Leave(k) ==
  /\ sub.phase = "rooms"
  /\ k \in joined \ sub.scope
  /\ joined' = joined \ {k}
  /\ UNCHANGED <<server, up, sent, sub, wire, view, own, moves, drops>>

Join(k) ==
  /\ sub.phase = "rooms"
  /\ joined \subseteq sub.scope /\ k \in sub.scope \ joined
  /\ joined' = joined \cup {k}
  /\ UNCHANGED <<server, up, sent, sub, wire, view, own, moves, drops>>

\* The acknowledgement carries the cursors; recordResubscribe is awaited after it.
Acknowledge ==
  /\ sub.phase = "rooms" /\ joined = sub.scope
  /\ wire' = Append(wire, Ack([revision |-> IF sub.scope = {} THEN 0 ELSE sub.revision,
                               scope |-> sub.scope]))
  /\ sub' = [sub EXCEPT !.phase = "states"]
  /\ UNCHANGED <<server, up, sent, joined, view, own, moves, drops>>

SendStates ==
  /\ sub.phase = "states"
  /\ wire' = IF sub.omit THEN wire
             ELSE Append(wire, [kind |-> "state", revision |-> sub.revision,
                                scope |-> sub.scope, tiles |-> sub.tiles])
  /\ sub' = NoSub
  /\ UNCHANGED <<server, up, sent, joined, view, own, moves, drops>>

Subscription == Receive \/ Load \/ LoadFails \/ Acknowledge \/ SendStates
                \/ \E k \in Chunk : Leave(k) \/ Join(k)

-----------------------------------------------------------------------------
(* The connection *)

\* A snapshot the client's cursor already stands for is still on its way.
StateOnItsWay ==
  \/ \E i \in DOMAIN wire : wire[i].kind = "state"
  \/ sub.phase = "states" /\ ~sub.omit

\* A cursor the client had before may still come back to it.
CursorOnItsWay ==
  \/ sent # << >> \/ sub.phase # "none"
  \/ \E i \in DOMAIN wire : wire[i].kind = "ack"

\* Fault: the rooms outlive the connection.
SameRooms == joined

\* The rooms of a connection that has ended.
NoRooms == {}

\* Whatever is on its way in either direction is lost; the client never hears of the
\* mutations it has asked for, even those the server goes on with.
Drop(lost) ==
  /\ up /\ drops < MaxDrops
  /\ up' = FALSE
  /\ drops' = drops + 1
  /\ sent' = << >> /\ wire' = << >> /\ joined' = NoRooms /\ sub' = NoSub
  /\ torn' = (torn \/ StateOnItsWay)
  /\ \A r \in lost : r.revision = 0
  /\ asked' = {[r EXCEPT !.heard = FALSE] : r \in asked \ lost}
  /\ excused' = excused \cup {r.tile : r \in {q \in asked : q.heard}}
                       \cup {m.tile : m \in {q \in Range(wire) : q.kind = "reply"}}
  /\ UNCHANGED <<server, want, due, cursor, cached, pins, named, moves>>

\* A new connection epoch makes the client subscribe again; it keeps cursor and cache.
Reconnect ==
  /\ ~up
  /\ up' = TRUE
  /\ due' = TRUE
  /\ UNCHANGED <<server, sent, joined, sub, wire, want, cursor, cached, torn, own, moves, drops>>

-----------------------------------------------------------------------------
(* The client *)

\* The view moves, or the zoom leaves the fine tier.
Move(w) ==
  /\ moves < MaxMoves
  /\ w # want
  /\ want' = w /\ due' = TRUE /\ moves' = moves + 1
  /\ UNCHANGED <<server, link, cursor, cached, torn, own, drops>>

Subscribe ==
  /\ up /\ due
  /\ due' = FALSE
  /\ sent' = Append(sent, [scope |-> want, cursor |-> cursor])
  /\ UNCHANGED <<server, up, joined, sub, wire, want, cursor, cached, torn, own, moves, drops>>

\* deriveTileChunkIds: a tile outside all the chunks of the cache lands in an only one.
Filing(t, chunks) ==
  IF ChunksOf[t] \cap chunks # {} THEN ChunksOf[t] \cap chunks
  ELSE IF Cardinality(chunks) = 1 THEN chunks ELSE {}

\* applyQuiltPatchPlacement and applyQuiltPatchRemoval
Applied(e) ==
  IF cached.chunks = {} \/ e.revision <= cached.revision THEN cached
  ELSE [cached EXCEPT
    !.revision = e.revision,
    !.tiles = [k \in Chunk |->
      IF e.operation = "removed" THEN @[k] \ {e.tile}
      ELSE IF k \in Filing(e.tile, cached.chunks) THEN @[k] \cup {e.tile} ELSE @[k]]]

\* Fault: an older snapshot replaces a newer patch.
MergedAlways(m) ==
  [revision |-> m.revision, chunks |-> cached.chunks \cup m.scope,
   tiles |-> [k \in Chunk |-> IF k \in m.scope THEN m.tiles[k] ELSE cached.tiles[k]]]

\* mergeQuiltPatchSnapshot
Merged(m) ==
  IF cached.chunks # {} /\ m.revision < cached.revision THEN cached
  ELSE [revision |-> m.revision, chunks |-> cached.chunks \cup m.scope,
        tiles |-> [k \in Chunk |-> IF k \in m.scope THEN m.tiles[k] ELSE cached.tiles[k]]]

\* Fault: an event moves the cursor and keeps its chunks.
EventCursorScoped(e) == [revision |-> e.revision, scope |-> cursor.scope]

\* An event's cursor has no chunkIds: an event before it may have been missed.
EventCursor(e) == [revision |-> e.revision, scope |-> {}]

\* The tiles the patch lists in some chunk.
Filed(c) == UNION {c.tiles[k] : k \in Chunk}

\* rebuildTiles: the tiles that are filed, and those shown so far that are pinned.
Rebuild(tilesPinned) == shown' = (shown \cap tilesPinned) \cup Filed(cached')

\* The first message of the wire.
Take(kind) == wire # << >> /\ Head(wire).kind = kind /\ wire' = Tail(wire)
Taken == Head(wire)

TakeAck ==
  /\ Take("ack")
  /\ cursor' = IF Taken.cursor.scope = {} THEN cursor ELSE Taken.cursor
  /\ UNCHANGED <<server, up, sent, joined, sub, want, due, cached, torn, own, moves, drops>>

TakeState ==
  /\ Take("state")
  /\ cursor' = [revision |-> Taken.revision, scope |-> Taken.scope]
  /\ cached' = Merged(Taken)
  /\ torn' = (torn /\ CursorOnItsWay)
  /\ Rebuild(optimistic \cup undo)
  /\ UNCHANGED <<server, up, sent, joined, sub, want, due, optimistic, undo, edits, asked, named,
                 excused, moves, drops>>

TakeEvent ==
  /\ Take("event")
  /\ IF Taken.revision <= cursor.revision THEN UNCHANGED <<cursor, cached>>
     ELSE cursor' = EventCursor(Taken) /\ cached' = Applied(Taken)
  /\ Rebuild(optimistic \cup undo)
  /\ UNCHANGED <<server, up, sent, joined, sub, want, due, torn, optimistic, undo, edits, asked,
                 named, excused, moves, drops>>

-----------------------------------------------------------------------------
(* The client's own tiles *)

Request(op, t) == [operation |-> op, tile |-> t, expected |-> cached.revision, revision |-> 0,
                   heard |-> TRUE]

\* setQuiltOptimisticTile: the tile is shown at once, if the cache has its patch.
Place(t) ==
  /\ edits < MaxEdits
  /\ t \notin named /\ ChunksOf[t] \cap cached.chunks # {}
  /\ edits' = edits + 1 /\ named' = named \cup {t}
  /\ shown' = shown \cup {t} /\ optimistic' = optimistic \cup {t}
  /\ asked' = asked \cup {Request("placed", t)}
  /\ UNCHANGED <<server, link, view, undo, excused, moves, drops>>

\* handleUndo (which takes the latest of the tiles it could): the tile stays until the answer.
Undo(t) ==
  /\ edits < MaxEdits
  /\ t \in undo \cap shown \cap Filed(cached)
  /\ edits' = edits + 1
  /\ asked' = asked \cup {Request("removed", t)}
  /\ UNCHANGED <<server, link, view, shown, optimistic, undo, named, excused, moves, drops>>

\* Fault: the pin of a rejected placement is kept.
AcceptedUnpinned == IF Taken.revision > 0 THEN optimistic \ {Taken.tile} ELSE optimistic

\* clearQuiltOptimisticTile, whatever the answer.
AnsweredUnpinned == optimistic \ {Taken.tile}

\* A placement was answered: clearQuiltOptimisticTile, then applyQuiltPatchPlacement, and
\* the tile can be undone.
TakePlaced ==
  /\ Take("reply") /\ Taken.operation = "placed"
  /\ optimistic' = AnsweredUnpinned
  /\ cached' = IF Taken.revision > 0 THEN Applied(Taken) ELSE cached
  /\ Rebuild(optimistic' \cup undo)
  /\ undo' = IF Taken.revision > 0 THEN undo \cup {Taken.tile} ELSE undo
  /\ UNCHANGED <<server, up, sent, joined, sub, want, due, cursor, torn, edits, asked, named,
                 excused, moves, drops>>

\* An undo was answered: when it is rejected nothing changes.
TakeUndone ==
  /\ Take("reply") /\ Taken.operation = "removed"
  /\ IF Taken.revision > 0
     THEN /\ cached' = Applied(Taken)
          /\ undo' = undo \ {Taken.tile}
          /\ Rebuild(optimistic \cup undo')
     ELSE UNCHANGED <<cached, undo, shown>>
  /\ UNCHANGED <<server, up, sent, joined, sub, want, due, cursor, torn, optimistic, edits, asked,
                 named, excused, moves, drops>>

\* Fault: a patch is evicted with its pinned tiles.
EvictPinned == TRUE

\* The patch is not kept for its pins.
NoPins == optimistic = {} /\ undo = {}

\* evictQuiltCache, for a patch out of view.
Evict ==
  /\ Evicts
  /\ cached.chunks # {} /\ want \cap cached.chunks = {} /\ NoPins
  /\ cached' = Uncached
  /\ torn' = TRUE
  /\ Rebuild(optimistic \cup undo)
  /\ UNCHANGED <<server, link, want, due, cursor, optimistic, undo, edits, asked, named, excused,
                 moves, drops>>

Client == \/ Subscribe \/ Evict \/ TakeAck \/ TakeState \/ TakeEvent \/ TakePlaced \/ TakeUndone
          \/ \E t \in Tile : Place(t) \/ Undo(t)

Next ==
  \/ \E op \in {"placed", "removed"}, t \in Tile : Mutate(op, t)
  \/ \E r \in asked : Decide(r) \/ Reject(r) \/ Accept(r)
  \/ ChangeHands
  \/ \E e \in pending : Emit(e)
  \/ Subscription \/ Reconnect
  \/ \E lost \in SUBSET asked : Drop(lost)
  \/ \E w \in SUBSET Chunk : Move(w)
  \/ Client

Spec == Init /\ [][Next]_vars

-----------------------------------------------------------------------------
\* The messages are well formed; a connection that has ended leaves nothing behind; the
\* client is never ahead of the database.
TypeOK ==
  /\ revision \in 0..MaxRevision /\ tiles \subseteq Tile
  /\ \A e \in pending : e.revision \in 1..revision /\ e.tile \in Tile
  /\ sub.phase \in {"none", "load", "rooms", "states"}
  /\ joined \cup want \cup cursor.scope \cup cached.chunks \cup sub.scope \subseteq Chunk
  /\ ~up => joined = {} /\ sub = NoSub /\ wire = << >> /\ sent = << >>
  /\ cursor.revision <= revision /\ cached.revision <= revision
  /\ \A k \in Chunk : cached.tiles[k] # {} => k \in cached.chunks
  /\ shown \cup optimistic \cup undo \subseteq named /\ named \subseteq Tile
  /\ \A r \in asked : r.expected < MaxRevision + 1 /\ r.revision <= revision
  /\ moves \in 0..MaxMoves /\ drops \in 0..MaxDrops /\ edits \in 0..MaxEdits

Holds(k) == k \in cached.chunks /\ cached.tiles[k] = TilesIn(k)

\* A cursor that would make the server leave the snapshot out tells the truth: the client
\* has exactly the tiles of its chunks.  Two cases are excepted (torn): the connection was
\* lost after the acknowledgement and before the snapshot, or the patch was evicted, and the
\* client has not had a snapshot since that no other subscription was overlapping.
HonestCursor ==
  torn \/ StateOnItsWay \/ cursor.revision # revision \/ \A k \in cursor.scope : Holds(k)

\* The cached revision of a patch never goes back, whatever order messages come in.
CacheNeverGoesBack ==
  [][cached'.chunks # {} => cached'.revision >= cached.revision]_vars

\* When the server leaves the snapshot out, the client needs none: it shows the tiles
\* of the chunks it asked for.
RequiredSnapshotsAreSent ==
  sub.phase = "rooms" /\ sub.omit /\ sub.revision = revision /\ ~StateOnItsWay
    => \A k \in sub.scope : cached.tiles[k] = TilesIn(k)

\* The client may still hear of its mutation of t.
Outstanding(op, t) ==
  \/ \E r \in asked : r.operation = op /\ r.tile = t /\ r.heard
  \/ \E m \in Range(wire) : m.kind = "reply" /\ m.operation = op /\ m.tile = t

\* A tile stays pinned only while the client waits for the answer to its placement, or
\* while the database has it or the client waits for the answer to its removal. Excepted
\* are those whose answer was lost with a connection or to a failing database, and those
\* somebody else removed: their pins stay for ever.
PinsAreExplained ==
  /\ \A t \in optimistic : Outstanding("placed", t) \/ t \in excused
  /\ \A t \in undo : t \in tiles \/ Outstanding("removed", t) \/ t \in excused

\* The answer that is about to be taken is older than what the cache has seen.
Overtaken(t) ==
  wire # << >> /\ Taken.kind = "reply" /\ Taken.tile = t /\ Taken.revision <= cached.revision

\* A tile the client placed and shows does not vanish between the click and the undo, however
\* the view moves and the patch changes meanwhile, unless a later event overtakes its answer.
OwnTilesStay ==
  [][\A t \in shown \cap (optimistic \cup undo) :
       t \in optimistic' \cup undo' => t \in shown' \/ Overtaken(t)]_vars
=============================================================================
