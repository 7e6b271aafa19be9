------------------------- MODULE QuiltDeliveryProofs -------------------------
(* Theorems about QuiltDelivery for any number of chunks and tiles, and any     *)
(* number of commits, moves, edits and lost connections.                        *)
EXTENDS QuiltDelivery, FiniteSetTheorems, SequenceTheorems, TLAPS

-----------------------------------------------------------------------------
(* Types *)

Operation == {"placed", "removed"}
Cursor    == [revision : Nat, scope : SUBSET Chunk]
Filled    == [Chunk -> SUBSET Tile]
Cache     == [revision : Nat, chunks : SUBSET Chunk, tiles : Filled]
Work      == [phase : {"none", "load", "rooms", "states"}, scope : SUBSET Chunk, revision : Nat,
              tiles : Filled, omit : BOOLEAN, supplied : Cursor]
Demand    == [scope : SUBSET Chunk, cursor : Cursor]
Mutation  == [operation : Operation, tile : Tile, expected : Nat, revision : Nat,
              heard : BOOLEAN]

Notice   == [kind : {"event", "reply"}, revision : Nat, operation : Operation, tile : Tile]
Answer   == [kind : {"ack"}, cursor : Cursor]
Snapshot == [kind : {"state"}, revision : Nat, scope : SUBSET Chunk, tiles : Filled]
Message  == Notice \cup Answer \cup Snapshot

\* A message tells of the past: of revisions there have been and tiles that were named.
Past(m) ==
  /\ m \in Notice => m.revision <= revision /\ m.tile \in named
  /\ m \in Answer => m.cursor.revision <= revision
  /\ m \in Snapshot => /\ m.revision <= revision /\ m.scope # {}
                       /\ \A k \in Chunk : m.tiles[k] \subseteq named

ServerTyped ==
  /\ revision \in 0..MaxRevision
  /\ tiles \subseteq named /\ named \subseteq Tile
  /\ \A e \in pending : /\ e \in Notice /\ e.kind = "event"
                        /\ e.revision \in 1..revision /\ e.tile \in named

AskedTyped ==
  \A r \in asked : /\ r \in Mutation /\ r.tile \in named
                   /\ r.revision <= revision /\ r.expected <= MaxRevision
                   /\ ~up => (r.heard => r.revision = 0)

SubTyped ==
  /\ sub \in Work
  /\ sub.revision <= revision /\ sub.supplied.revision <= revision
  /\ \A k \in Chunk : sub.tiles[k] \subseteq named
  /\ sub.phase \in {"rooms", "states"} /\ ~sub.omit => sub.scope # {}

LinkTyped ==
  /\ sent \in Seq(Demand) /\ \A q \in Range(sent) : q.cursor.revision <= revision
  /\ joined \subseteq Chunk /\ IsFiniteSet(joined)
  /\ wire \in Seq(Message) /\ \A m \in Range(wire) : Past(m)
  /\ up \in BOOLEAN
  /\ ~up => joined = {} /\ sub = NoSub /\ wire = << >> /\ sent = << >>

\* A patch that is not in the cache has no revision.
ViewTyped ==
  /\ want \subseteq Chunk /\ due \in BOOLEAN /\ torn \in BOOLEAN
  /\ cursor \in Cursor /\ cursor.revision <= revision
  /\ cached \in Cache /\ cached.revision <= revision
  /\ cached.chunks = {} => cached.revision = 0
  /\ \A k \in Chunk : /\ cached.tiles[k] \subseteq named
                      /\ k \notin cached.chunks => cached.tiles[k] = {}

OwnTyped ==
  /\ shown \subseteq named /\ optimistic \subseteq named /\ undo \subseteq named
  /\ moves \in 0..MaxMoves /\ drops \in 0..MaxDrops /\ edits \in 0..MaxEdits

Typed == ServerTyped /\ AskedTyped /\ SubTyped /\ LinkTyped /\ ViewTyped /\ OwnTyped

-----------------------------------------------------------------------------
(* What a cursor claims *)

\* The cache has the present tiles of the chunk, and knows that they are.
Firm(k) == k \in cached.chunks /\ cached.revision = revision /\ cached.tiles[k] = TilesIn(k)

\* A snapshot of the chunk's present tiles is on its way.
Coming(k) ==
  \/ \E m \in Range(wire) : m \in Snapshot /\ m.revision = revision /\ k \in m.scope
  \/ sub.phase = "states" /\ ~sub.omit /\ sub.revision = revision /\ k \in sub.scope

\* A claim to the present tiles of some chunks is good.
Backed(c) == c.revision = revision => torn \/ \A k \in c.scope : Firm(k) \/ Coming(k)

\* The cursors the client has, has sent, and will get back.
Claims ==
  {cursor} \cup {m.cursor : m \in Range(wire) \cap Answer} \cup {q.cursor : q \in Range(sent)}
    \cup (IF sub.phase = "load" THEN {sub.supplied} ELSE {})
    \cup (IF sub.phase = "rooms" /\ sub.omit
          THEN {[revision |-> sub.revision, scope |-> sub.scope]} ELSE {})

\* Snapshots of the present revision have the present tiles.
Current ==
  /\ \A m \in Range(wire) : m \in Snapshot /\ m.revision = revision =>
                              \A k \in m.scope : m.tiles[k] = TilesIn(k)
  /\ sub.phase \in {"rooms", "states"} /\ ~sub.omit /\ sub.revision = revision =>
       \A k \in sub.scope : sub.tiles[k] = TilesIn(k)

Honest == Current /\ \A c \in Claims : Backed(c)

-----------------------------------------------------------------------------
(* Pins *)

\* The answers on their way to the client.
Replies == {m \in Range(wire) : m \in Notice /\ m.kind = "reply"}

\* The answer to a placement.
Placed(m) == m \in Notice /\ m.kind = "reply" /\ m.operation = "placed"

\* No two answers to placements of one tile.
Apart(s) == \A i, j \in DOMAIN s : Placed(s[i]) /\ Placed(s[j]) /\ i # j => s[i].tile # s[j].tile

\* A tile is placed once, so that its answer comes once.
Once ==
  /\ Apart(wire)
  /\ \A q, r \in asked : q.operation = "placed" /\ r.operation = "placed" /\ q.tile = r.tile => q = r
  /\ \A r \in asked, m \in Replies : r.operation = "placed" /\ m.operation = "placed" =>
                                       r.tile # m.tile

\* A tile is pinned as placed until it is answered, and taken back only afterwards.
Stages ==
  /\ undo \cap optimistic = {}
  /\ \A r \in asked : /\ ~r.heard => r.tile \in excused
                      /\ r.heard => (r.operation = "placed" <=> r.tile \in optimistic)
  /\ \A m \in Replies : m.operation = "placed" <=> m.tile \in optimistic

\* The client may still hear of the placement of the tile.
Awaited(t) ==
  \/ \E r \in asked : r.operation = "placed" /\ r.tile = t /\ r.heard
  \/ \E m \in Replies : m.operation = "placed" /\ m.tile = t

\* The database has the tile, or the client is to hear of its removal by itself, or cannot.
Explained(t) ==
  \/ t \in tiles \/ t \in excused
  \/ \E r \in asked : r.operation = "removed" /\ r.tile = t /\ r.heard /\ r.revision > 0
  \/ \E m \in Replies : m.operation = "removed" /\ m.tile = t /\ m.revision > 0

Pinned ==
  /\ \A t \in optimistic : Awaited(t) \/ t \in excused
  /\ \A t \in undo : Explained(t)
  /\ \A r \in asked : r.operation = "placed" /\ r.revision > 0 => Explained(r.tile)
  /\ \A m \in Replies : m.operation = "placed" /\ m.revision > 0 => Explained(m.tile)

\* The cache keeps the chunks of a tile that waits for its answer.
Filable == \A t \in optimistic : ChunksOf[t] \cap cached.chunks # {}

-----------------------------------------------------------------------------
(* Sequences *)

\* What is appended is the only new element.
LEMMA RangeAppend ==
  ASSUME NEW S, NEW s \in Seq(S), NEW x \in S
  PROVE  /\ Append(s, x) \in Seq(S)
         /\ Range(Append(s, x)) = Range(s) \cup {x}
  <1>1. /\ Append(s, x) \in Seq(S) /\ Len(Append(s, x)) = Len(s) + 1
        /\ \A i \in 1..Len(s) : Append(s, x)[i] = s[i]
        /\ Append(s, x)[Len(s) + 1] = x
    BY AppendProperties
  <1>2. DOMAIN Append(s, x) = 1..(Len(s) + 1) /\ DOMAIN s = 1..Len(s) /\ Len(s) \in Nat
    BY <1>1
  <1>3. Range(Append(s, x)) \subseteq Range(s) \cup {x}
    BY <1>1, <1>2 DEF Range
  <1>4. Range(s) \cup {x} \subseteq Range(Append(s, x))
    BY <1>1, <1>2 DEF Range
  <1> QED BY <1>1, <1>3, <1>4

\* The first element is taken off, and the others remain.
LEMMA RangeTail ==
  ASSUME NEW S, NEW s \in Seq(S), s # << >>
  PROVE  /\ Head(s) \in S /\ Head(s) \in Range(s)
         /\ Tail(s) \in Seq(S)
         /\ Range(Tail(s)) \subseteq Range(s)
         /\ Range(s) \subseteq Range(Tail(s)) \cup {Head(s)}
  <1>1. /\ Head(s) \in S /\ Tail(s) \in Seq(S) /\ Len(Tail(s)) = Len(s) - 1
        /\ \A i \in 1..Len(Tail(s)) : Tail(s)[i] = s[i + 1]
    BY HeadTailProperties
  <1>2. /\ DOMAIN Tail(s) = 1..(Len(s) - 1) /\ DOMAIN s = 1..Len(s)
        /\ Len(s) \in Nat \ {0} /\ Head(s) = s[1]
    BY <1>1
  <1>3. Head(s) \in Range(s)
    BY <1>2 DEF Range
  <1>4. Range(Tail(s)) \subseteq Range(s)
    BY <1>1, <1>2 DEF Range
  <1>5. ASSUME NEW i \in 1..Len(s) PROVE s[i] \in Range(Tail(s)) \cup {Head(s)}
    <2>1. CASE i = 1
      BY <1>2, <2>1
    <2>2. CASE i # 1
      <3>1. i - 1 \in 1..(Len(s) - 1) /\ i - 1 + 1 = i
        BY <1>2, <2>2
      <3>2. Tail(s)[i - 1] = s[i]
        BY <1>1, <1>2, <3>1
      <3> QED BY <1>2, <3>1, <3>2 DEF Range
    <2> QED BY <2>1, <2>2
  <1>6. Range(s) \subseteq Range(Tail(s)) \cup {Head(s)}
    BY <1>2, <1>5 DEF Range
  <1> QED BY <1>1, <1>3, <1>4, <1>6

Copies(x, n) == [i \in 1..n |-> x]

\* Copies of one element are added, perhaps none.
LEMMA RangeCopies ==
  ASSUME NEW S, NEW s \in Seq(S), NEW x \in S, NEW n \in Nat
  PROVE  /\ s \o Copies(x, n) \in Seq(S)
         /\ Range(s) \subseteq Range(s \o Copies(x, n))
         /\ Range(s \o Copies(x, n)) \subseteq Range(s) \cup {x}
         /\ \A i \in DOMAIN (s \o Copies(x, n)) :
              \/ i \in DOMAIN s /\ (s \o Copies(x, n))[i] = s[i]
              \/ (s \o Copies(x, n))[i] = x
         /\ n = 0 => s \o Copies(x, n) = s
  <1> DEFINE c == Copies(x, n)
             t == s \o c
  <1>1. c \in Seq(S) /\ Len(c) = n /\ \A i \in 1..n : c[i] = x
    BY IsASeq DEF Copies
  <1> HIDE DEF c
  <1>2. /\ t \in Seq(S) /\ Len(t) = Len(s) + n
        /\ \A i \in 1..(Len(s) + n) : t[i] = IF i <= Len(s) THEN s[i] ELSE c[i - Len(s)]
    BY <1>1, ConcatProperties
  <1>3. DOMAIN t = 1..(Len(s) + n) /\ DOMAIN s = 1..Len(s) /\ Len(s) \in Nat
    BY <1>2
  <1>4. \A i \in DOMAIN t : (i \in DOMAIN s /\ t[i] = s[i]) \/ t[i] = x
    <2>1. ASSUME NEW i \in 1..(Len(s) + n), i > Len(s) PROVE i - Len(s) \in 1..n
      BY <1>3, <2>1
    <2> QED BY <1>1, <1>2, <1>3, <2>1
  <1>5. \A i \in DOMAIN s : i \in DOMAIN t /\ t[i] = s[i]
    BY <1>2, <1>3
  <1>6. Range(s) \subseteq Range(t) /\ Range(t) \subseteq Range(s) \cup {x}
    <2> HIDE DEF t
    <2> QED BY <1>4, <1>5 DEF Range
  <1>7. n = 0 => t = s
    <2> SUFFICES ASSUME n = 0 PROVE t = s
      OBVIOUS
    <2>1. c = << >>
      BY <1>1, EmptySeq
    <2> QED BY <2>1, ConcatEmptySeq
  <1> QED BY <1>2, <1>4, <1>6, <1>7 DEF c

-----------------------------------------------------------------------------
(* Messages *)

\* The kinds of messages, by what they are made of.
LEMMA Kinds ==
  ASSUME NEW m \in Message
  PROVE  /\ m \in Notice <=> m.kind \in {"event", "reply"}
         /\ m \in Answer <=> m.kind = "ack"
         /\ m \in Snapshot <=> m.kind = "state"
  BY DEF Message, Notice, Answer, Snapshot

\* The messages the server makes.
LEMMA Makes ==
  /\ \A op \in Operation, t \in Tile, v \in Nat :
       /\ Event(op, t, v) \in Notice /\ Event(op, t, v).kind = "event"
       /\ Event(op, t, v).tile = t /\ Event(op, t, v).revision = v
       /\ Reply(op, t, v) \in Notice /\ Reply(op, t, v).kind = "reply"
       /\ Reply(op, t, v).tile = t /\ Reply(op, t, v).revision = v
       /\ Reply(op, t, v).operation = op
  /\ \A c \in Cursor : Ack(c) \in Answer /\ Ack(c).kind = "ack" /\ Ack(c).cursor = c
  /\ NoCursor \in Cursor /\ NoCursor.revision = 0 /\ NoCursor.scope = {}
  BY DEF Event, Reply, Ack, NoCursor, Notice, Answer, Cursor, Operation

\* An empty subscription, an empty cache.
LEMMA Empty ==
  /\ NoSub \in Work /\ NoSub.phase = "none" /\ NoSub.revision = 0
  /\ NoSub.supplied.revision = 0 /\ \A k \in Chunk : NoSub.tiles[k] = {}
  /\ Uncached \in Cache /\ Uncached.revision = 0 /\ Uncached.chunks = {}
  /\ \A k \in Chunk : Uncached.tiles[k] = {}
  BY DEF NoSub, Uncached, Nothing, NoCursor, Work, Cache, Filled, Cursor

\* A message that told of the past still does.
LEMMA PastStays ==
  ASSUME Typed, revision' \in Nat, revision <= revision', named \subseteq named',
         NEW m \in Message, Past(m)
  PROVE  Past(m)'
  <1>1. revision \in Nat
    BY DEF Typed, ServerTyped
  <1>2. m \in Notice => m.revision \in Nat
    BY DEF Notice
  <1>3. m \in Answer => m.cursor.revision \in Nat
    BY DEF Answer, Cursor
  <1>4. m \in Snapshot => m.revision \in Nat
    BY DEF Snapshot
  <1> QED BY <1>1, <1>2, <1>3, <1>4 DEF Past

-----------------------------------------------------------------------------
(* Typed parts that stay: the revision rises and names are added *)

Grows == revision' \in revision..MaxRevision /\ named \subseteq named' /\ named' \subseteq Tile

\* The link between server and client stays.
LEMMA LinkStays ==
  ASSUME QuiltDeliveryAssumption, Typed, Grows, UNCHANGED <<up, sent, joined, wire>>,
         ~up => sub' = NoSub
  PROVE  LinkTyped'
  <1>1. revision \in Nat /\ revision' \in Nat /\ revision <= revision'
    BY DEF Grows, Typed, ServerTyped, QuiltDeliveryAssumption
  <1>2. \A q \in Range(sent) : q.cursor.revision \in Nat
    <2>1. Range(sent) \subseteq Demand
      BY RangeOfSeq DEF Typed, LinkTyped
    <2> QED BY <2>1 DEF Demand, Cursor
  <1>3. \A q \in Range(sent) : q.cursor.revision <= revision'
    BY <1>1, <1>2 DEF Typed, LinkTyped
  <1>4. \A m \in Range(wire) : Past(m)'
    <2>1. Range(wire) \subseteq Message
      BY RangeOfSeq DEF Typed, LinkTyped
    <2> QED BY <1>1, <2>1, PastStays DEF Typed, LinkTyped, Grows
  <1> QED BY <1>3, <1>4 DEF Typed, LinkTyped

\* The subscription stays.
LEMMA SubStays ==
  ASSUME QuiltDeliveryAssumption, Typed, Grows, UNCHANGED sub
  PROVE  SubTyped'
  <1>1. revision \in Nat /\ revision' \in Nat /\ revision <= revision'
    BY DEF Grows, Typed, ServerTyped, QuiltDeliveryAssumption
  <1>2. sub.revision \in Nat /\ sub.supplied.revision \in Nat
    BY DEF Typed, SubTyped, Work, Cursor
  <1> QED BY <1>1, <1>2 DEF Typed, SubTyped, Grows

\* The view stays.
LEMMA ViewStays ==
  ASSUME QuiltDeliveryAssumption, Typed, Grows, UNCHANGED <<cursor, cached>>,
         want' \subseteq Chunk, due' \in BOOLEAN, torn' \in BOOLEAN
  PROVE  ViewTyped'
  <1>1. revision \in Nat /\ revision' \in Nat /\ revision <= revision'
    BY DEF Grows, Typed, ServerTyped, QuiltDeliveryAssumption
  <1>2. cursor.revision \in Nat /\ cached.revision \in Nat
    BY DEF Typed, ViewTyped, Cursor, Cache
  <1> QED BY <1>1, <1>2 DEF Typed, ViewTyped, Grows

\* The client's requests stay.
LEMMA AskedStays ==
  ASSUME QuiltDeliveryAssumption, Typed, Grows, UNCHANGED <<asked, up>>
  PROVE  AskedTyped'
  <1>1. revision \in Nat /\ revision' \in Nat /\ revision <= revision'
    BY DEF Grows, Typed, ServerTyped, QuiltDeliveryAssumption
  <1>2. \A r \in asked : r.revision \in Nat
    BY DEF Typed, AskedTyped, Mutation
  <1> QED BY <1>1, <1>2 DEF Typed, AskedTyped, Grows

\* The client's own tiles and the bounds stay.
LEMMA OwnStays ==
  ASSUME Typed, Grows, UNCHANGED <<shown, optimistic, undo, edits, moves, drops>>
  PROVE  OwnTyped'
  BY DEF Typed, OwnTyped, Grows

\* The server's tables stay.
LEMMA ServerStays ==
  ASSUME Typed, Grows, UNCHANGED server
  PROVE  ServerTyped'
  BY DEF Typed, ServerTyped, Grows, server

\* A step without a commit or a new name.
LEMMA Quiet == ASSUME QuiltDeliveryAssumption, Typed, UNCHANGED <<revision, named>> PROVE Grows
  BY DEF Typed, ServerTyped, Grows, QuiltDeliveryAssumption

-----------------------------------------------------------------------------
(* Every action keeps the types: the server's *)

\* A commit raises the revision by one.
LEMMA CommitRaises ==
  ASSUME QuiltDeliveryAssumption, Typed, NEW op, NEW t, Commit(op, t)
  PROVE  /\ revision \in Nat /\ revision' = revision + 1
         /\ revision' \in revision..MaxRevision /\ revision' \in 0..MaxRevision
         /\ revision < MaxRevision
         /\ tiles' \subseteq tiles \cup {t} /\ tiles \subseteq tiles' \cup {t}
         /\ op = "placed" => tiles \subseteq tiles'
  BY DEF Commit, Typed, ServerTyped, QuiltDeliveryAssumption

\* Somebody else's mutation keeps the types.
LEMMA MutateTyped ==
  ASSUME QuiltDeliveryAssumption, Typed, NEW op \in Operation, NEW t \in Tile, Mutate(op, t)
  PROVE  Typed'
  <1>1. Commit(op, t)
    BY DEF Mutate
  <1>2. Grows
    BY <1>1, CommitRaises DEF Mutate, Grows, Typed, ServerTyped
  <1>3. ServerTyped'
    <2>1. ASSUME NEW e \in pending'
          PROVE  /\ e \in Notice /\ e.kind = "event"
                 /\ e.revision \in 1..revision' /\ e.tile \in named'
      <3>1. CASE e \in pending
        BY <1>1, <3>1, CommitRaises DEF Mutate, Typed, ServerTyped
      <3>2. CASE e = Event(op, t, revision + 1)
        BY <1>1, <3>2, CommitRaises, Makes DEF Mutate
      <3> QED BY <3>1, <3>2 DEF Mutate
    <2> QED BY <1>1, <1>2, <2>1, CommitRaises DEF Mutate, Typed, ServerTyped, Grows
  <1>4. LinkTyped'
    BY <1>2, LinkStays DEF Mutate, link, Typed, LinkTyped
  <1>5. SubTyped'
    BY <1>2, SubStays DEF Mutate, link
  <1>6. ViewTyped'
    BY <1>2, ViewStays DEF Mutate, view, Typed, ViewTyped
  <1>7. AskedTyped'
    BY <1>2, AskedStays DEF Mutate, link
  <1>8. OwnTyped'
    BY <1>2, OwnStays DEF Mutate, pins
  <1> QED BY <1>3, <1>4, <1>5, <1>6, <1>7, <1>8 DEF Typed

\* The commit of the client's own mutation keeps the types.
LEMMA DecideTyped ==
  ASSUME QuiltDeliveryAssumption, Typed, NEW r \in asked, Decide(r)
  PROVE  Typed'
  <1>1. Commit(r.operation, r.tile) /\ r \in Mutation /\ r.tile \in named
    BY DEF Decide, Typed, AskedTyped
  <1>2. Grows
    BY <1>1, CommitRaises DEF Decide, Grows, Typed, ServerTyped
  <1>3. ServerTyped'
    <2>1. ASSUME NEW e \in pending'
          PROVE  /\ e \in Notice /\ e.kind = "event"
                 /\ e.revision \in 1..revision' /\ e.tile \in named'
      BY <1>1, CommitRaises DEF Decide, Typed, ServerTyped
    <2> QED BY <1>1, <1>2, <2>1, CommitRaises DEF Decide, Typed, ServerTyped, Grows
  <1>4. LinkTyped'
    BY <1>2, LinkStays DEF Decide, link, Typed, LinkTyped
  <1>5. SubTyped'
    BY <1>2, SubStays DEF Decide, link
  <1>6. ViewTyped'
    BY <1>2, ViewStays DEF Decide, view, Typed, ViewTyped
  <1>7. AskedTyped'
    <2>1. ASSUME NEW q \in asked'
          PROVE  /\ q \in Mutation /\ q.tile \in named
                 /\ q.revision <= revision' /\ q.expected <= MaxRevision
                 /\ ~up => (q.heard => q.revision = 0)
      <3>1. CASE q \in asked
        <4>1. q.revision \in Nat
          BY <3>1 DEF Typed, AskedTyped, Mutation
        <4> QED BY <1>1, <3>1, <4>1, CommitRaises DEF Typed, AskedTyped
      <3>2. CASE q = [r EXCEPT !.revision = revision + 1]
        <4>1. q \in Mutation /\ q.tile = r.tile /\ q.expected = r.expected /\ q.heard = r.heard
              /\ q.revision = revision + 1
          BY <1>1, <3>2, CommitRaises DEF Mutation
        <4>2. q.heard => up
          BY <4>1 DEF Decide, Received
        <4> QED BY <1>1, <4>1, <4>2, CommitRaises DEF Typed, AskedTyped
      <3> QED BY <3>1, <3>2 DEF Decide
    <2> QED BY <2>1 DEF AskedTyped, Decide, link
  <1>8. OwnTyped'
    BY <1>2, OwnStays DEF Decide, pins
  <1> QED BY <1>3, <1>4, <1>5, <1>6, <1>7, <1>8 DEF Typed

\* A change of owner keeps the types.
LEMMA ChangeHandsTyped ==
  ASSUME QuiltDeliveryAssumption, Typed, ChangeHands
  PROVE  Typed'
  <1>1. revision \in Nat /\ revision' \in revision..MaxRevision /\ revision' = revision + 1
    BY DEF ChangeHands, Typed, ServerTyped, QuiltDeliveryAssumption
  <1>2. Grows
    BY <1>1 DEF ChangeHands, own, Grows, Typed, ServerTyped
  <1>3. ServerTyped'
    BY <1>1 DEF ChangeHands, own, Typed, ServerTyped
  <1>4. LinkTyped'
    BY <1>2, LinkStays DEF ChangeHands, link, Typed, LinkTyped
  <1>5. SubTyped'
    BY <1>2, SubStays DEF ChangeHands, link
  <1>6. ViewTyped'
    BY <1>2, ViewStays DEF ChangeHands, view, Typed, ViewTyped
  <1>7. AskedTyped'
    BY <1>2, AskedStays DEF ChangeHands, link, own
  <1>8. OwnTyped'
    BY <1>2, OwnStays DEF ChangeHands, own, pins
  <1> QED BY <1>3, <1>4, <1>5, <1>6, <1>7, <1>8 DEF Typed

\* A message about the past may be added to the wire of a client that is connected.
LEMMA WireGrows ==
  ASSUME QuiltDeliveryAssumption, Typed, UNCHANGED <<revision, named>>, NEW m \in Message, Past(m)
  PROVE  /\ Append(wire, m) \in Seq(Message)
         /\ \A n \in Range(Append(wire, m)) : Past(n)'
  <1>1. /\ Append(wire, m) \in Seq(Message)
        /\ Range(Append(wire, m)) = Range(wire) \cup {m}
    BY RangeAppend DEF Typed, LinkTyped
  <1>2. revision' \in Nat /\ revision <= revision'
    BY DEF Typed, ServerTyped, QuiltDeliveryAssumption
  <1>3. Range(wire) \subseteq Message
    BY RangeOfSeq DEF Typed, LinkTyped
  <1>4. ASSUME NEW n \in Range(Append(wire, m)) PROVE Past(n)'
    <2>1. n \in Message /\ Past(n)
      BY <1>1, <1>3 DEF Typed, LinkTyped
    <2> QED BY <1>2, <2>1, PastStays
  <1> QED BY <1>1, <1>4

\* What remains on the wire is about the past.
LEMMA WireShrinks ==
  ASSUME QuiltDeliveryAssumption, Typed, UNCHANGED <<revision, named>>, wire # << >>
  PROVE  /\ Tail(wire) \in Seq(Message) /\ Head(wire) \in Message /\ Past(Head(wire))
         /\ Head(wire) \in Range(wire)
         /\ \A n \in Range(Tail(wire)) : Past(n)'
  <1>1. /\ Tail(wire) \in Seq(Message) /\ Range(Tail(wire)) \subseteq Range(wire)
        /\ Head(wire) \in Message /\ Head(wire) \in Range(wire)
    BY RangeTail DEF Typed, LinkTyped
  <1>2. revision' \in Nat /\ revision <= revision'
    BY DEF Typed, ServerTyped, QuiltDeliveryAssumption
  <1>3. Range(wire) \subseteq Message
    BY RangeOfSeq DEF Typed, LinkTyped
  <1>4. ASSUME NEW n \in Range(Tail(wire)) PROVE Past(n)'
    <2>1. n \in Message /\ Past(n)
      BY <1>1, <1>3 DEF Typed, LinkTyped
    <2> QED BY <1>2, <2>1, PastStays
  <1>5. Past(Head(wire))
    BY <1>1 DEF Typed, LinkTyped
  <1> QED BY <1>1, <1>4, <1>5

\* A step that changes nothing of the server but what is pending.
LEMMA PendingShrinks ==
  ASSUME Typed, Grows, UNCHANGED <<revision, tiles>>, pending' \subseteq pending
  PROVE  ServerTyped'
  BY DEF Typed, ServerTyped, Grows

\* A rejection keeps the types.
LEMMA RejectTyped ==
  ASSUME QuiltDeliveryAssumption, Typed, NEW r \in asked, Reject(r)
  PROVE  Typed'
  <1>1. Grows
    BY Quiet DEF Reject, server, own
  <1>2. r \in Mutation /\ r.tile \in named /\ revision \in Nat
    BY DEF Typed, AskedTyped, ServerTyped, QuiltDeliveryAssumption
  <1>3. r.operation \in Operation /\ r.tile \in Tile
    BY <1>2 DEF Mutation
  <1> DEFINE m == Reply(r.operation, r.tile, 0)
  <1>4. m \in Message /\ Past(m)
    <2>1. m \in Notice /\ m.kind = "reply" /\ m.tile = r.tile /\ m.revision = 0
      BY <1>3, Makes
    <2> HIDE DEF m
    <2>2. m \in Message
      BY <2>1 DEF Message
    <2> QED BY <1>2, <2>1, <2>2, Kinds DEF Past
  <1>5. UNCHANGED <<revision, named>>
    BY DEF Reject, server
  <1>6. ServerTyped'
    BY <1>1, ServerStays DEF Reject
  <1>7. AskedTyped'
    BY <1>5 DEF Reject, Typed, AskedTyped
  <1>8. SubTyped'
    BY <1>1, SubStays DEF Reject, link
  <1>9. LinkTyped'
    <2>1. CASE r.heard
      <3>1. wire' = Append(wire, m) /\ up
        BY <2>1 DEF Reject, Received
      <3> HIDE DEF m
      <3>2. wire' \in Seq(Message) /\ \A n \in Range(wire') : Past(n)'
        BY <1>4, <1>5, <3>1, WireGrows
      <3> QED BY <1>5, <3>1, <3>2 DEF Reject, Typed, LinkTyped
    <2>2. CASE ~r.heard
      BY <1>1, <2>2, LinkStays DEF Reject, Typed, LinkTyped
    <2> QED BY <2>1, <2>2
  <1>10. ViewTyped'
    BY <1>1, ViewStays DEF Reject, view, Typed, ViewTyped
  <1>11. OwnTyped'
    BY <1>1, OwnStays DEF Reject, own, pins
  <1> QED BY <1>6, <1>7, <1>8, <1>9, <1>10, <1>11 DEF Typed

\* An acceptance keeps the types.
LEMMA AcceptTyped ==
  ASSUME QuiltDeliveryAssumption, Typed, NEW r \in asked, Accept(r)
  PROVE  Typed'
  <1>1. Grows
    BY Quiet DEF Accept, server, own
  <1>2. r \in Mutation /\ r.tile \in named /\ revision \in Nat /\ r.revision <= revision
    BY DEF Typed, AskedTyped, ServerTyped, QuiltDeliveryAssumption
  <1>3. r.operation \in Operation /\ r.tile \in Tile /\ r.revision \in Nat
    BY <1>2 DEF Mutation
  <1>4. r.revision > 0 /\ r.revision \in 1..revision
    BY <1>2, <1>3 DEF Accept
  <1> DEFINE m == Reply(r.operation, r.tile, r.revision)
  <1>5. m \in Message /\ Past(m)
    <2>1. m \in Notice /\ m.kind = "reply" /\ m.tile = r.tile /\ m.revision = r.revision
      BY <1>3, Makes
    <2> HIDE DEF m
    <2>2. m \in Message
      BY <2>1 DEF Message
    <2> QED BY <1>2, <2>1, <2>2, Kinds DEF Past
  <1>6. UNCHANGED <<revision, named>>
    BY DEF Accept
  <1>7. ServerTyped'
    <2>1. ASSUME NEW e \in pending'
          PROVE  /\ e \in Notice /\ e.kind = "event"
                 /\ e.revision \in 1..revision /\ e.tile \in named
      <3>1. CASE e \in pending
        BY <3>1 DEF Typed, ServerTyped
      <3>2. CASE e = Event(r.operation, r.tile, r.revision)
        BY <1>2, <1>3, <1>4, <3>2, Makes
      <3> QED BY <3>1, <3>2 DEF Accept
    <2> QED BY <1>6, <2>1 DEF Accept, Typed, ServerTyped
  <1>8. AskedTyped'
    BY <1>6 DEF Accept, Typed, AskedTyped
  <1>9. SubTyped'
    BY <1>1, SubStays DEF Accept, link
  <1>10. LinkTyped'
    <2>1. CASE r.heard
      <3>1. wire' = Append(wire, m) /\ up
        BY <1>3, <1>4, <2>1 DEF Accept, Typed, AskedTyped
      <3> HIDE DEF m
      <3>2. wire' \in Seq(Message) /\ \A n \in Range(wire') : Past(n)'
        BY <1>5, <1>6, <3>1, WireGrows
      <3> QED BY <1>6, <3>1, <3>2 DEF Accept, Typed, LinkTyped
    <2>2. CASE ~r.heard
      BY <1>1, <2>2, LinkStays DEF Accept, Typed, LinkTyped
    <2> QED BY <2>1, <2>2
  <1>11. ViewTyped'
    BY <1>1, ViewStays DEF Accept, view, Typed, ViewTyped
  <1>12. OwnTyped'
    BY <1>1, OwnStays DEF Accept, own, pins
  <1> QED BY <1>7, <1>8, <1>9, <1>10, <1>11, <1>12 DEF Typed

\* A broadcast keeps the types.
LEMMA EmitTyped ==
  ASSUME QuiltDeliveryAssumption, Typed, NEW e \in pending, Emit(e)
  PROVE  Typed'
  <1>1. Grows
    BY Quiet DEF Emit, server, own
  <1>2. e \in Message /\ Past(e) /\ e \in Notice
    <2>1. e \in Notice /\ e.tile \in named /\ e.revision \in 1..revision
      BY DEF Typed, ServerTyped
    <2>2. e \in Message
      BY <2>1 DEF Message
    <2>3. revision \in Nat
      BY DEF Typed, ServerTyped, QuiltDeliveryAssumption
    <2> QED BY <2>1, <2>2, <2>3, Kinds DEF Past, Notice
  <1>3. UNCHANGED <<revision, named>>
    BY DEF Emit, own
  <1>4. Cardinality(ChunksOf[e.tile] \cap joined) \in Nat /\ (joined = {} => Cardinality(ChunksOf[e.tile] \cap joined) = 0)
    BY FS_Subset, FS_CardinalityType, FS_EmptySet DEF Typed, LinkTyped
  <1>5. ServerTyped'
    BY <1>1, PendingShrinks DEF Emit
  <1>6. AskedTyped'
    BY <1>1, AskedStays DEF Emit, own, link
  <1>7. SubTyped'
    BY <1>1, SubStays DEF Emit, link
  <1>8. LinkTyped'
    <2> DEFINE n == Cardinality(ChunksOf[e.tile] \cap joined)
    <2>1. n \in Nat /\ (joined = {} => n = 0)
      BY <1>4
    <2>2. wire' = wire \o Copies(e, n)
      BY DEF Emit, Copies
    <2> HIDE DEF n
    <2>3. wire' \in Seq(Message) /\ Range(wire') \subseteq Range(wire) \cup {e}
          /\ (n = 0 => wire' = wire)
      BY <1>2, <2>1, <2>2, RangeCopies DEF Typed, LinkTyped
    <2>4. ASSUME NEW m \in Range(wire') PROVE Past(m)'
      <3>1. m \in Message /\ Past(m)
        <4>1. Range(wire) \subseteq Message
          BY RangeOfSeq DEF Typed, LinkTyped
        <4> QED BY <1>2, <2>3, <4>1 DEF Typed, LinkTyped
      <3> QED BY <1>3, <3>1, PastStays DEF Typed, ServerTyped, QuiltDeliveryAssumption
    <2> QED BY <1>3, <2>1, <2>3, <2>4 DEF Emit, Typed, LinkTyped
  <1>9. ViewTyped'
    BY <1>1, ViewStays DEF Emit, view, Typed, ViewTyped
  <1>10. OwnTyped'
    BY <1>1, OwnStays DEF Emit, own, pins
  <1> QED BY <1>5, <1>6, <1>7, <1>8, <1>9, <1>10 DEF Typed

\* Taking a subscription up keeps the types.
LEMMA ReceiveTyped ==
  ASSUME QuiltDeliveryAssumption, Typed, Receive
  PROVE  Typed'
  <1>1. Grows
    BY Quiet DEF Receive, server, own
  <1>2. UNCHANGED <<revision, named>>
    BY DEF Receive, server, own
  <1>3. revision \in Nat
    BY DEF Typed, ServerTyped, QuiltDeliveryAssumption
  <1>4. Ack(NoCursor) \in Message /\ Past(Ack(NoCursor))
    <2>1. Ack(NoCursor) \in Answer /\ Ack(NoCursor).cursor.revision = 0
      BY Makes
    <2>2. Ack(NoCursor) \in Message
      BY <2>1 DEF Message
    <2> QED BY <1>3, <2>1, <2>2, Kinds DEF Past

  <1>5. /\ sent # << >> /\ Head(sent) \in Demand /\ Head(sent).cursor.revision <= revision
        /\ Tail(sent) \in Seq(Demand) /\ Range(Tail(sent)) \subseteq Range(sent)
    BY RangeTail DEF Receive, Typed, LinkTyped
  <1>6. ServerTyped'
    BY <1>1, ServerStays DEF Receive, server
  <1>7. AskedTyped'
    BY <1>1, AskedStays DEF Receive, own, link
  <1>8. SubTyped'
    <2>1. CASE sub.phase = "none"
      <3>1. sub' = [NoSub EXCEPT !.phase = "load", !.scope = Head(sent).scope,
                                 !.supplied = Head(sent).cursor]
        BY <2>1 DEF Receive
      <3>2. /\ sub'.phase = "load" /\ sub'.scope = Head(sent).scope
            /\ sub'.supplied = Head(sent).cursor /\ sub'.revision = NoSub.revision
            /\ sub'.tiles = NoSub.tiles /\ sub'.omit = NoSub.omit
        BY <3>1 DEF NoSub
      <3>3. sub' \in Work
        <4>1. Head(sent).scope \in SUBSET Chunk /\ Head(sent).cursor \in Cursor
          BY <1>5 DEF Demand
        <4> QED BY <3>1, <4>1, Empty DEF Work
      <3> QED BY <1>2, <1>3, <1>5, <3>2, <3>3, Empty DEF SubTyped
    <2>2. CASE sub.phase # "none"
      BY <1>1, <2>2, SubStays DEF Receive
    <2> QED BY <2>1, <2>2
  <1>9. LinkTyped'
    <2>1. wire' = wire \/ wire' = Append(wire, Ack(NoCursor))
      BY DEF Receive
    <2>2. wire' \in Seq(Message) /\ \A n \in Range(wire') : Past(n)'
      <3>1. LinkTyped /\ Range(wire) \subseteq Message
        BY RangeOfSeq DEF Typed, LinkTyped
      <3>2. \A n \in Range(wire) : Past(n)'
        BY <1>2, <1>3, <3>1, PastStays DEF LinkTyped
      <3> QED BY <1>2, <1>4, <2>1, <3>1, <3>2, WireGrows DEF LinkTyped
    <2>3. up
      BY <1>5 DEF Typed, LinkTyped
    <2> QED BY <1>2, <1>5, <2>2, <2>3 DEF Receive, Typed, LinkTyped
  <1>10. ViewTyped'
    BY <1>1, ViewStays DEF Receive, view, Typed, ViewTyped
  <1>11. OwnTyped'
    BY <1>1, OwnStays DEF Receive, own, pins
  <1> QED BY <1>6, <1>7, <1>8, <1>9, <1>10, <1>11 DEF Typed

\* Loading a snapshot keeps the types.
LEMMA LoadTyped ==
  ASSUME QuiltDeliveryAssumption, Typed, Load
  PROVE  Typed'
  <1>1. Grows
    BY Quiet DEF Load, server, own
  <1>2. UNCHANGED <<revision, named>>
    BY DEF Load, server, own
  <1>3. revision \in Nat
    BY DEF Typed, ServerTyped, QuiltDeliveryAssumption
  <1> DEFINE T == [k \in Chunk |-> IF k \in sub.scope THEN TilesIn(k) ELSE {}]
             o == sub.scope = {} \/ Matches
  <1>4. T \in Filled /\ \A k \in Chunk : T[k] \subseteq named
    BY DEF Filled, TilesIn, Typed, ServerTyped
  <1>5. sub' = [sub EXCEPT !.phase = "rooms", !.revision = revision, !.tiles = T, !.omit = o]
    BY DEF Load
  <1>6. (o <=> sub.scope = {} \/ Matches) /\ o \in BOOLEAN
    OBVIOUS
  <1>7. up
    BY Empty DEF Load, Typed, LinkTyped
  <1>8. ServerTyped'
    BY <1>1, ServerStays DEF Load, server
  <1>9. AskedTyped'
    BY <1>1, AskedStays DEF Load, own, link
  <1>10. SubTyped'
    <2> HIDE DEF T, o
    <2>1. sub' \in Work
      BY <1>3, <1>4, <1>5, <1>6 DEF Typed, SubTyped, Work
    <2>2. /\ sub'.revision = revision /\ sub'.supplied = sub.supplied /\ sub'.tiles = T
          /\ sub'.omit = o /\ sub'.scope = sub.scope
      BY <1>5 DEF Typed, SubTyped, Work
    <2> QED BY <1>2, <1>3, <1>4, <1>6, <2>1, <2>2 DEF Typed, SubTyped
  <1>11. LinkTyped'
    BY <1>1, <1>7, LinkStays DEF Load
  <1>12. ViewTyped'
    BY <1>1, ViewStays DEF Load, view, Typed, ViewTyped
  <1>13. OwnTyped'
    BY <1>1, OwnStays DEF Load, own, pins
  <1> QED BY <1>8, <1>9, <1>10, <1>11, <1>12, <1>13 DEF Typed

\* A failed load keeps the types.
LEMMA LoadFailsTyped ==
  ASSUME QuiltDeliveryAssumption, Typed, LoadFails
  PROVE  Typed'
  <1>1. Grows
    BY Quiet DEF LoadFails, server, own
  <1>2. UNCHANGED <<revision, named>>
    BY DEF LoadFails, server, own
  <1>3. revision \in Nat
    BY DEF Typed, ServerTyped, QuiltDeliveryAssumption
  <1>4. Ack(NoCursor) \in Message /\ Past(Ack(NoCursor))
    <2>1. Ack(NoCursor) \in Answer /\ Ack(NoCursor).cursor.revision = 0
      BY Makes
    <2>2. Ack(NoCursor) \in Message
      BY <2>1 DEF Message
    <2> QED BY <1>3, <2>1, <2>2, Kinds DEF Past

  <1>5. up
    BY Empty DEF LoadFails, Typed, LinkTyped
  <1>6. ServerTyped'
    BY <1>1, ServerStays DEF LoadFails, server
  <1>7. AskedTyped'
    BY <1>1, AskedStays DEF LoadFails, own, link
  <1>8. SubTyped'
    <2>1. sub' = [sub EXCEPT !.phase = "states", !.omit = TRUE]
      BY DEF LoadFails
    <2> QED BY <1>2, <2>1 DEF Typed, SubTyped, Work
  <1>9. LinkTyped'
    BY <1>2, <1>4, <1>5, WireGrows DEF LoadFails, Typed, LinkTyped
  <1>10. ViewTyped'
    BY <1>1, ViewStays DEF LoadFails, view, Typed, ViewTyped
  <1>11. OwnTyped'
    BY <1>1, OwnStays DEF LoadFails, own, pins
  <1> QED BY <1>6, <1>7, <1>8, <1>9, <1>10, <1>11 DEF Typed

\* Leaving a room keeps the types.
LEMMA LeaveTyped ==
  ASSUME QuiltDeliveryAssumption, Typed, NEW k \in Chunk, Leave(k)
  PROVE  Typed'
  <1>1. Grows
    BY Quiet DEF Leave, server, own
  <1>2. up
    BY Empty DEF Leave, Typed, LinkTyped
  <1>3. joined' \subseteq Chunk /\ IsFiniteSet(joined')
    BY FS_RemoveElement, FS_AddElement DEF Leave, Typed, LinkTyped
  <1>4. \A m \in Range(wire) : Past(m)'
    <2>1. LinkTyped /\ Range(wire) \subseteq Message
      BY RangeOfSeq DEF Typed, LinkTyped
    <2> QED BY <1>1, <2>1, PastStays DEF LinkTyped, Grows, Typed, ServerTyped, QuiltDeliveryAssumption
  <1>5. UNCHANGED revision
    BY DEF Leave, server
  <1>6. ServerTyped'
    BY <1>1, ServerStays DEF Leave, server
  <1>7. AskedTyped'
    BY <1>1, AskedStays DEF Leave, own, link
  <1>8. SubTyped'
    BY <1>1, SubStays DEF Leave, link
  <1>9. LinkTyped'
    BY <1>2, <1>3, <1>4, <1>5 DEF Leave, Typed, LinkTyped
  <1>10. ViewTyped'
    BY <1>1, ViewStays DEF Leave, view, Typed, ViewTyped
  <1>11. OwnTyped'
    BY <1>1, OwnStays DEF Leave, own, pins
  <1> QED BY <1>6, <1>7, <1>8, <1>9, <1>10, <1>11 DEF Typed

\* Joining a room keeps the types.
LEMMA JoinTyped ==
  ASSUME QuiltDeliveryAssumption, Typed, NEW k \in Chunk, Join(k)
  PROVE  Typed'
  <1>1. Grows
    BY Quiet DEF Join, server, own
  <1>2. up
    BY Empty DEF Join, Typed, LinkTyped
  <1>3. joined' \subseteq Chunk /\ IsFiniteSet(joined')
    BY FS_RemoveElement, FS_AddElement DEF Join, Typed, LinkTyped
  <1>4. \A m \in Range(wire) : Past(m)'
    <2>1. LinkTyped /\ Range(wire) \subseteq Message
      BY RangeOfSeq DEF Typed, LinkTyped
    <2> QED BY <1>1, <2>1, PastStays DEF LinkTyped, Grows, Typed, ServerTyped, QuiltDeliveryAssumption
  <1>5. UNCHANGED revision
    BY DEF Join, server
  <1>6. ServerTyped'
    BY <1>1, ServerStays DEF Join, server
  <1>7. AskedTyped'
    BY <1>1, AskedStays DEF Join, own, link
  <1>8. SubTyped'
    BY <1>1, SubStays DEF Join, link
  <1>9. LinkTyped'
    BY <1>2, <1>3, <1>4, <1>5 DEF Join, Typed, LinkTyped
  <1>10. ViewTyped'
    BY <1>1, ViewStays DEF Join, view, Typed, ViewTyped
  <1>11. OwnTyped'
    BY <1>1, OwnStays DEF Join, own, pins
  <1> QED BY <1>6, <1>7, <1>8, <1>9, <1>10, <1>11 DEF Typed

\* An acknowledgement keeps the types.
LEMMA AcknowledgeTyped ==
  ASSUME QuiltDeliveryAssumption, Typed, Acknowledge
  PROVE  Typed'
  <1>1. Grows
    BY Quiet DEF Acknowledge, server, own
  <1>2. UNCHANGED <<revision, named>>
    BY DEF Acknowledge, server, own
  <1>3. revision \in Nat
    BY DEF Typed, ServerTyped, QuiltDeliveryAssumption
  <1> DEFINE c == [revision |-> IF sub.scope = {} THEN 0 ELSE sub.revision, scope |-> sub.scope]
  <1>4. c \in Cursor /\ c.revision <= revision
    BY <1>3 DEF Cursor, Typed, SubTyped, Work
  <1>5. wire' = Append(wire, Ack(c))
    BY DEF Acknowledge
  <1> HIDE DEF c
  <1>6. Ack(c) \in Message /\ Past(Ack(c))
    <2>1. Ack(c) \in Answer /\ Ack(c).cursor = c
      BY <1>4, Makes
    <2>2. Ack(c) \in Message
      BY <2>1 DEF Message
    <2> QED BY <1>4, <2>1, <2>2, Kinds DEF Past
  <1>7. up
    BY Empty DEF Acknowledge, Typed, LinkTyped
  <1>8. ServerTyped'
    BY <1>1, ServerStays DEF Acknowledge, server
  <1>9. AskedTyped'
    BY <1>1, AskedStays DEF Acknowledge, own, link
  <1>10. SubTyped'
    <2>1. sub' = [sub EXCEPT !.phase = "states"]
      BY DEF Acknowledge
    <2> QED BY <1>2, <2>1 DEF Acknowledge, Typed, SubTyped, Work
  <1>11. LinkTyped'
    BY <1>2, <1>5, <1>6, <1>7, WireGrows DEF Acknowledge, Typed, LinkTyped
  <1>12. ViewTyped'
    BY <1>1, ViewStays DEF Acknowledge, view, Typed, ViewTyped
  <1>13. OwnTyped'
    BY <1>1, OwnStays DEF Acknowledge, own, pins
  <1> QED BY <1>8, <1>9, <1>10, <1>11, <1>12, <1>13 DEF Typed

\* Sending the snapshot keeps the types.
LEMMA SendStatesTyped ==
  ASSUME QuiltDeliveryAssumption, Typed, SendStates
  PROVE  Typed'
  <1>1. Grows
    BY Quiet DEF SendStates, server, own
  <1>2. UNCHANGED <<revision, named>>
    BY DEF SendStates, server, own
  <1>3. revision \in Nat
    BY DEF Typed, ServerTyped, QuiltDeliveryAssumption
  <1> DEFINE m == [kind |-> "state", revision |-> sub.revision, scope |-> sub.scope, tiles |-> sub.tiles]
  <1>4. ~sub.omit => m \in Message /\ Past(m)
    <2> SUFFICES ASSUME ~sub.omit PROVE m \in Message /\ Past(m)
      OBVIOUS
    <2>1. /\ m \in Snapshot /\ m.revision = sub.revision /\ m.scope = sub.scope
          /\ m.tiles = sub.tiles
      BY DEF Snapshot, Typed, SubTyped, Work
    <2>2. sub.scope # {} /\ sub.revision <= revision /\ \A k \in Chunk : sub.tiles[k] \subseteq named
      BY DEF SendStates, Typed, SubTyped
    <2> HIDE DEF m
    <2>3. m \in Message
      BY <2>1 DEF Message
    <2> QED BY <2>1, <2>2, <2>3, Kinds DEF Past
  <1>5. wire' = IF sub.omit THEN wire ELSE Append(wire, m)
    BY DEF SendStates
  <1>6. up
    BY Empty DEF SendStates, Typed, LinkTyped
  <1>7. ServerTyped'
    BY <1>1, ServerStays DEF SendStates, server
  <1>8. AskedTyped'
    BY <1>1, AskedStays DEF SendStates, own, link
  <1>9. SubTyped'
    BY <1>2, <1>3, Empty DEF SendStates, SubTyped
  <1>10. LinkTyped'
    <2> HIDE DEF m
    <2>1. CASE sub.omit
      BY <1>1, <1>5, <1>6, <2>1, LinkStays DEF SendStates
    <2>2. CASE ~sub.omit
      BY <1>2, <1>4, <1>5, <1>6, <2>2, WireGrows DEF SendStates, Typed, LinkTyped
    <2> QED BY <2>1, <2>2
  <1>11. ViewTyped'
    BY <1>1, ViewStays DEF SendStates, view, Typed, ViewTyped
  <1>12. OwnTyped'
    BY <1>1, OwnStays DEF SendStates, own, pins
  <1> QED BY <1>7, <1>8, <1>9, <1>10, <1>11, <1>12 DEF Typed

\* A lost connection keeps the types.
LEMMA DropTyped ==
  ASSUME QuiltDeliveryAssumption, Typed, NEW lost \in SUBSET asked, Drop(lost)
  PROVE  Typed'
  <1>1. Grows
    BY Quiet DEF Drop, server, own
  <1>2. UNCHANGED <<revision, named>>
    BY DEF Drop, server
  <1>3. revision \in Nat
    BY DEF Typed, ServerTyped, QuiltDeliveryAssumption
  <1>4. ServerTyped'
    BY <1>1, ServerStays DEF Drop, server
  <1>5. AskedTyped'
    <2>1. ASSUME NEW r \in asked'
          PROVE  /\ r \in Mutation /\ r.tile \in named /\ ~r.heard
                 /\ r.revision <= revision /\ r.expected <= MaxRevision
      <3>1. PICK q \in asked : r = [q EXCEPT !.heard = FALSE]
        BY DEF Drop
      <3>2. q \in Mutation
        BY DEF Typed, AskedTyped
      <3>3. r \in Mutation /\ r.tile = q.tile /\ r.expected = q.expected /\ r.revision = q.revision
            /\ r.heard = FALSE
        BY <3>1, <3>2 DEF Mutation
      <3> QED BY <3>3 DEF Typed, AskedTyped
    <2> QED BY <1>2, <2>1 DEF AskedTyped
  <1>6. SubTyped'
    BY <1>2, <1>3, Empty DEF Drop, SubTyped
  <1>7. LinkTyped'
    <2>1. << >> \in Seq(Message) /\ << >> \in Seq(Demand) /\ Range(<< >>) = {}
      BY DEF Range
    <2> QED BY <1>3, <2>1, FS_EmptySet DEF Drop, NoRooms, LinkTyped
  <1>8. ViewTyped'
    BY <1>1, ViewStays DEF Drop, StateOnItsWay, Typed, ViewTyped
  <1>9. OwnTyped'
    <2>1. drops' \in 0..MaxDrops
      BY DEF Drop, Typed, OwnTyped, QuiltDeliveryAssumption
    <2> QED BY <1>2, <2>1 DEF Drop, pins, Typed, OwnTyped
  <1> QED BY <1>4, <1>5, <1>6, <1>7, <1>8, <1>9 DEF Typed

\* A new connection keeps the types.
LEMMA ReconnectTyped ==
  ASSUME QuiltDeliveryAssumption, Typed, Reconnect
  PROVE  Typed'
  <1>1. Grows
    BY Quiet DEF Reconnect, server, own
  <1>2. UNCHANGED <<revision, named>>
    BY DEF Reconnect, server, own
  <1>3. ServerTyped'
    BY <1>1, ServerStays DEF Reconnect, server
  <1>4. AskedTyped'
    BY <1>2 DEF Reconnect, own, Typed, AskedTyped
  <1>5. SubTyped'
    BY <1>1, SubStays DEF Reconnect
  <1>6. LinkTyped'
    <2>1. wire = << >> /\ sent = << >> /\ Range(<< >>) = {}
      BY DEF Reconnect, Typed, LinkTyped, Range
    <2> QED BY <2>1 DEF Reconnect, Typed, LinkTyped
  <1>7. ViewTyped'
    BY <1>1, ViewStays DEF Reconnect, Typed, ViewTyped
  <1>8. OwnTyped'
    BY <1>1, OwnStays DEF Reconnect, own, pins
  <1> QED BY <1>3, <1>4, <1>5, <1>6, <1>7, <1>8 DEF Typed

\* A move keeps the types.
LEMMA MoveTyped ==
  ASSUME QuiltDeliveryAssumption, Typed, NEW w \in SUBSET Chunk, Move(w)
  PROVE  Typed'
  <1>1. Grows
    BY Quiet DEF Move, server, own
  <1>2. ServerTyped'
    BY <1>1, ServerStays DEF Move, server
  <1>3. AskedTyped'
    BY <1>1, AskedStays DEF Move, own, link
  <1>4. SubTyped'
    BY <1>1, SubStays DEF Move, link
  <1>5. LinkTyped'
    BY <1>1, LinkStays DEF Move, link, Typed, LinkTyped
  <1>6. ViewTyped'
    BY <1>1, ViewStays DEF Move, Typed, ViewTyped
  <1>7. OwnTyped'
    <2>1. moves' \in 0..MaxMoves
      BY DEF Move, Typed, OwnTyped, QuiltDeliveryAssumption
    <2> QED BY <1>1, <2>1 DEF Move, own, pins, Typed, OwnTyped
  <1> QED BY <1>2, <1>3, <1>4, <1>5, <1>6, <1>7 DEF Typed

\* A subscription keeps the types.
LEMMA SubscribeTyped ==
  ASSUME QuiltDeliveryAssumption, Typed, Subscribe
  PROVE  Typed'
  <1>1. Grows
    BY Quiet DEF Subscribe, server, own
  <1>2. UNCHANGED <<revision, named>>
    BY DEF Subscribe, server, own
  <1>3. LET q == [scope |-> want, cursor |-> cursor] IN
          q \in Demand /\ q.cursor.revision <= revision
    BY DEF Typed, ViewTyped, Demand
  <1>4. /\ sent' \in Seq(Demand) /\ \A q \in Range(sent') : q.cursor.revision <= revision'
    <2>1. sent \in Seq(Demand) /\ [scope |-> want, cursor |-> cursor] \in Demand
      BY <1>3 DEF Typed, LinkTyped
    <2>2. sent' \in Seq(Demand) /\ Range(sent') = Range(sent) \cup {[scope |-> want, cursor |-> cursor]}
      BY <2>1, RangeAppend DEF Subscribe
    <2> QED BY <1>2, <1>3, <2>2 DEF Typed, LinkTyped
  <1>5. \A m \in Range(wire) : Past(m)'
    <2>1. LinkTyped /\ Range(wire) \subseteq Message
      BY RangeOfSeq DEF Typed, LinkTyped
    <2> QED BY <1>1, <2>1, PastStays DEF LinkTyped, Grows, Typed, ServerTyped, QuiltDeliveryAssumption
  <1>6. ServerTyped'
    BY <1>1, ServerStays DEF Subscribe, server
  <1>7. AskedTyped'
    BY <1>1, AskedStays DEF Subscribe, own, link
  <1>8. SubTyped'
    BY <1>1, SubStays DEF Subscribe
  <1>9. LinkTyped'
    BY <1>2, <1>4, <1>5 DEF Subscribe, Typed, LinkTyped
  <1>10. ViewTyped'
    BY <1>1, ViewStays DEF Subscribe, Typed, ViewTyped
  <1>11. OwnTyped'
    BY <1>1, OwnStays DEF Subscribe, own, pins
  <1> QED BY <1>6, <1>7, <1>8, <1>9, <1>10, <1>11 DEF Typed

-----------------------------------------------------------------------------
(* Every action keeps the types: the client's *)

\* The client takes a message off the wire.
LEMMA TakeLink ==
  ASSUME QuiltDeliveryAssumption, Typed, NEW kind, Take(kind),
         UNCHANGED <<revision, named, up, sent, joined, sub>>
  PROVE  /\ LinkTyped' /\ up
         /\ Taken \in Message /\ Past(Taken) /\ Taken \in Range(wire) /\ Taken.kind = kind
  <1>1. wire # << >> /\ wire' = Tail(wire) /\ Head(wire).kind = kind
    BY DEF Take
  <1>2. up
    BY <1>1 DEF Typed, LinkTyped
  <1> QED BY <1>1, <1>2, WireShrinks DEF Typed, LinkTyped, Taken

\* A tile is filed under chunks of the patch.
LEMMA FilingWithin == ASSUME NEW t, NEW chunks PROVE Filing(t, chunks) \subseteq chunks
  BY DEF Filing

\* An event or an answer makes a patch of the cache newer, or leaves it.
LEMMA AppliedCache ==
  ASSUME QuiltDeliveryAssumption, Typed, NEW e \in Notice, Past(e)
  PROVE  /\ Applied(e) \in Cache
         /\ Applied(e).chunks = cached.chunks
         /\ Applied(e).revision <= revision
         /\ cached.revision <= Applied(e).revision
         /\ cached.revision = revision => Applied(e) = cached
         /\ cached.chunks = {} => Applied(e) = cached
         /\ \A k \in Chunk : /\ Applied(e).tiles[k] \subseteq cached.tiles[k] \cup {e.tile}
                             /\ k \notin cached.chunks => Applied(e).tiles[k] = {}
                             /\ cached.tiles[k] \subseteq Applied(e).tiles[k] \cup {e.tile}
  <1>1. /\ cached \in Cache /\ cached.revision \in Nat /\ revision \in Nat
        /\ cached.revision <= revision
        /\ \A k \in Chunk : k \notin cached.chunks => cached.tiles[k] = {}
    BY DEF Typed, ViewTyped, ServerTyped, Cache, QuiltDeliveryAssumption
  <1>2. e.revision \in Nat /\ e.revision <= revision /\ e.tile \in Tile
    BY DEF Past, Notice
  <1> DEFINE F == Filing(e.tile, cached.chunks)
             T == [k \in Chunk |->
                     IF e.operation = "removed" THEN cached.tiles[k] \ {e.tile}
                     ELSE IF k \in F THEN cached.tiles[k] \cup {e.tile} ELSE cached.tiles[k]]
  <1>3. CASE cached.chunks = {} \/ e.revision <= cached.revision
    <2>1. Applied(e) = cached
      BY <1>3 DEF Applied
    <2> QED BY <1>1, <2>1
  <1>4. CASE cached.chunks # {} /\ ~(e.revision <= cached.revision)
    <2>1. Applied(e) = [cached EXCEPT !.revision = e.revision, !.tiles = T]
      BY <1>4 DEF Applied
    <2>2. T \in Filled
      BY <1>1, <1>2 DEF Cache, Filled
    <2>3. /\ Applied(e) \in Cache /\ Applied(e).chunks = cached.chunks
          /\ Applied(e).revision = e.revision /\ Applied(e).tiles = T
      <3> HIDE DEF T
      <3> QED BY <1>1, <1>2, <2>1, <2>2 DEF Cache
    <2>4. \A k \in Chunk : /\ T[k] \subseteq cached.tiles[k] \cup {e.tile}
                           /\ k \notin cached.chunks => T[k] = {}
                           /\ cached.tiles[k] \subseteq T[k] \cup {e.tile}
      <3>1. F \subseteq cached.chunks
        BY FilingWithin
      <3> HIDE DEF F
      <3> QED BY <1>1, <3>1
    <2> HIDE DEF T
    <2>5. cached.revision < e.revision
      BY <1>1, <1>2, <1>4
    <2> QED BY <1>1, <1>2, <1>4, <2>3, <2>4, <2>5
  <1> QED BY <1>3, <1>4

\* A snapshot makes a patch of the cache newer, or leaves it; a patch that is not there is filled.
LEMMA MergedCache ==
  ASSUME QuiltDeliveryAssumption, Typed, NEW m \in Snapshot, Past(m)
  PROVE  /\ Merged(m) \in Cache
         /\ Merged(m).revision <= revision
         /\ cached.revision <= Merged(m).revision
         /\ Merged(m).chunks # {}
         /\ cached.chunks \subseteq Merged(m).chunks
         /\ m.revision = revision => /\ Merged(m).revision = revision
                                     /\ m.scope \subseteq Merged(m).chunks
                                     /\ \A k \in m.scope : Merged(m).tiles[k] = m.tiles[k]
         /\ \A k \in Chunk : /\ Merged(m).tiles[k] \subseteq named
                             /\ k \notin Merged(m).chunks => Merged(m).tiles[k] = {}
                             /\ k \notin m.scope => Merged(m).tiles[k] = cached.tiles[k]
  <1>1. /\ cached \in Cache /\ cached.revision \in Nat /\ revision \in Nat
        /\ cached.revision <= revision /\ (cached.chunks = {} => cached.revision = 0)
        /\ cached.chunks \subseteq Chunk /\ cached.tiles \in Filled
        /\ \A k \in Chunk : /\ k \notin cached.chunks => cached.tiles[k] = {}
                            /\ cached.tiles[k] \subseteq named
    BY DEF Typed, ViewTyped, ServerTyped, Cache, QuiltDeliveryAssumption
  <1>2. /\ m.revision \in Nat /\ m.scope \subseteq Chunk /\ m.tiles \in Filled
        /\ m.revision <= revision /\ m.scope # {}
        /\ \A k \in Chunk : m.tiles[k] \subseteq named
    BY DEF Past, Snapshot
  <1> DEFINE T == [k \in Chunk |-> IF k \in m.scope THEN m.tiles[k] ELSE cached.tiles[k]]
  <1>3. CASE cached.chunks # {} /\ m.revision < cached.revision
    <2>1. Merged(m) = cached
      BY <1>3 DEF Merged
    <2>2. m.revision # revision
      BY <1>1, <1>2, <1>3
    <2> QED BY <1>1, <1>3, <2>1, <2>2
  <1>4. CASE ~(cached.chunks # {} /\ m.revision < cached.revision)
    <2>1. Merged(m) = [revision |-> m.revision, chunks |-> cached.chunks \cup m.scope, tiles |-> T]
      BY <1>4 DEF Merged
    <2>2. T \in Filled
      BY <1>1, <1>2 DEF Filled
    <2>3. \A k \in Chunk : /\ T[k] \subseteq named
                           /\ k \notin cached.chunks \cup m.scope => T[k] = {}
                           /\ k \notin m.scope => T[k] = cached.tiles[k]
                           /\ k \in m.scope => T[k] = m.tiles[k]
      BY <1>1, <1>2
    <2> HIDE DEF T
    <2>4. /\ Merged(m) \in Cache /\ Merged(m).chunks = cached.chunks \cup m.scope
          /\ Merged(m).revision = m.revision /\ Merged(m).tiles = T
      BY <1>1, <1>2, <2>1, <2>2 DEF Cache
    <2>5. cached.revision <= m.revision
      BY <1>1, <1>2, <1>4
    <2> QED BY <1>2, <2>3, <2>4, <2>5
  <1> QED BY <1>3, <1>4

\* The canvas draws tiles there have been.
LEMMA RebuildNamed ==
  ASSUME NEW P, Rebuild(P), cached' \in Cache, named' = named,
         \A k \in Chunk : cached'.tiles[k] \subseteq named, P \subseteq named
  PROVE  shown' \subseteq named'
  BY DEF Rebuild, Filed

\* Taking an acknowledgement keeps the types.
LEMMA TakeAckTyped ==
  ASSUME QuiltDeliveryAssumption, Typed, TakeAck
  PROVE  Typed'
  <1>1. Grows
    BY Quiet DEF TakeAck, server, own
  <1>2. UNCHANGED <<revision, named>>
    BY DEF TakeAck, server, own
  <1>3. LinkTyped' /\ Taken \in Message /\ Past(Taken) /\ Taken.kind = "ack"
    BY <1>2, TakeLink DEF TakeAck
  <1>4. ServerTyped'
    BY <1>1, ServerStays DEF TakeAck, server
  <1>5. AskedTyped'
    BY <1>1, AskedStays DEF TakeAck, own
  <1>6. SubTyped'
    BY <1>1, SubStays DEF TakeAck
  <1>7. LinkTyped'
    BY <1>3
  <1>8. ViewTyped'
    <2>1. Taken.cursor \in Cursor /\ Taken.cursor.revision <= revision
      BY <1>3, Kinds DEF Past, Answer
    <2> QED BY <1>2, <2>1 DEF TakeAck, Typed, ViewTyped
  <1>9. OwnTyped'
    BY <1>1, OwnStays DEF TakeAck, own, pins
  <1> QED BY <1>4, <1>5, <1>6, <1>7, <1>8, <1>9 DEF Typed

\* Taking a snapshot keeps the types.
LEMMA TakeStateTyped ==
  ASSUME QuiltDeliveryAssumption, Typed, TakeState
  PROVE  Typed'
  <1>1. Grows
    BY Quiet DEF TakeState, server, own
  <1>2. UNCHANGED <<revision, named>>
    BY DEF TakeState, server
  <1>3. LinkTyped' /\ Taken \in Message /\ Past(Taken) /\ Taken.kind = "state"
    BY <1>2, TakeLink DEF TakeState
  <1>4. /\ Taken \in Snapshot
        /\ cached' \in Cache /\ cached'.revision <= revision /\ cached'.chunks # {}
        /\ \A k \in Chunk : /\ cached'.tiles[k] \subseteq named
                            /\ k \notin cached'.chunks => cached'.tiles[k] = {}
    BY <1>3, Kinds, MergedCache DEF TakeState
  <1>5. ServerTyped'
    BY <1>1, ServerStays DEF TakeState, server
  <1>6. AskedTyped'
    BY <1>1, AskedStays DEF TakeState
  <1>7. SubTyped'
    BY <1>1, SubStays DEF TakeState
  <1>8. LinkTyped'
    BY <1>3
  <1>9. ViewTyped'
    <2>1. cursor' \in Cursor /\ cursor'.revision <= revision
      BY <1>3, <1>4 DEF TakeState, Past, Snapshot, Cursor
    <2>2. torn' \in BOOLEAN
      BY DEF TakeState, CursorOnItsWay, Typed, ViewTyped
    <2> QED BY <1>2, <1>4, <2>1, <2>2 DEF TakeState, Typed, ViewTyped
  <1>10. OwnTyped'
    <2>1. shown' \subseteq named'
      BY <1>2, <1>4, RebuildNamed DEF TakeState, Typed, OwnTyped, ViewTyped
    <2> QED BY <1>1, <1>2, <2>1 DEF TakeState, Typed, OwnTyped
  <1> QED BY <1>5, <1>6, <1>7, <1>8, <1>9, <1>10 DEF Typed

\* Taking an event keeps the types.
LEMMA TakeEventTyped ==
  ASSUME QuiltDeliveryAssumption, Typed, TakeEvent
  PROVE  Typed'
  <1>1. Grows
    BY Quiet DEF TakeEvent, server, own
  <1>2. UNCHANGED <<revision, named>>
    BY DEF TakeEvent, server
  <1>3. LinkTyped' /\ Taken \in Message /\ Past(Taken) /\ Taken.kind = "event"
    BY <1>2, TakeLink DEF TakeEvent
  <1>4. /\ Taken \in Notice /\ Taken.tile \in named
        /\ Taken.revision \in Nat /\ Taken.revision <= revision
    BY <1>3, Kinds DEF Past, Notice
  <1>5. /\ cached \in Cache /\ cached.revision <= revision
        /\ cached.chunks = {} => cached.revision = 0
        /\ \A k \in Chunk : /\ cached.tiles[k] \subseteq named
                            /\ k \notin cached.chunks => cached.tiles[k] = {}
    BY DEF Typed, ViewTyped
  <1>6. /\ cached' \in Cache /\ cached'.revision <= revision
        /\ cached'.chunks = {} => cached'.revision = 0
        /\ \A k \in Chunk : /\ cached'.tiles[k] \subseteq named
                            /\ k \notin cached'.chunks => cached'.tiles[k] = {}
    <2>1. cached' = cached \/ cached' = Applied(Taken)
      BY DEF TakeEvent
    <2>2. CASE cached' = cached
      BY <1>5, <2>2
    <2>3. CASE cached' = Applied(Taken)
      BY <1>3, <1>4, <1>5, <2>3, AppliedCache
    <2> QED BY <2>1, <2>2, <2>3
  <1>7. ServerTyped'
    BY <1>1, ServerStays DEF TakeEvent, server
  <1>8. AskedTyped'
    BY <1>1, AskedStays DEF TakeEvent
  <1>9. SubTyped'
    BY <1>1, SubStays DEF TakeEvent
  <1>10. LinkTyped'
    BY <1>3
  <1>11. ViewTyped'
    <2>1. cursor' \in Cursor /\ cursor'.revision <= revision
      BY <1>4 DEF TakeEvent, EventCursor, Cursor, Typed, ViewTyped
    <2> QED BY <1>2, <1>6, <2>1 DEF TakeEvent, Typed, ViewTyped
  <1>12. OwnTyped'
    <2>1. shown' \subseteq named'
      BY <1>2, <1>6, RebuildNamed DEF TakeEvent, Typed, OwnTyped, ViewTyped
    <2> QED BY <1>1, <1>2, <2>1 DEF TakeEvent, Typed, OwnTyped
  <1> QED BY <1>7, <1>8, <1>9, <1>10, <1>11, <1>12 DEF Typed

\* Taking the answer to a placement keeps the types.
LEMMA TakePlacedTyped ==
  ASSUME QuiltDeliveryAssumption, Typed, TakePlaced
  PROVE  Typed'
  <1>1. Grows
    BY Quiet DEF TakePlaced, server, own
  <1>2. UNCHANGED <<revision, named>>
    BY DEF TakePlaced, server
  <1>3. LinkTyped' /\ Taken \in Message /\ Past(Taken) /\ Taken.kind = "reply"
    BY <1>2, TakeLink DEF TakePlaced
  <1>4. /\ Taken \in Notice /\ Taken.tile \in named
        /\ Taken.revision \in Nat /\ Taken.revision <= revision
    BY <1>3, Kinds DEF Past, Notice
  <1>5. /\ cached \in Cache /\ cached.revision <= revision
        /\ cached.chunks = {} => cached.revision = 0
        /\ \A k \in Chunk : /\ cached.tiles[k] \subseteq named
                            /\ k \notin cached.chunks => cached.tiles[k] = {}
    BY DEF Typed, ViewTyped
  <1>6. /\ cached' \in Cache /\ cached'.revision <= revision
        /\ cached'.chunks = {} => cached'.revision = 0
        /\ \A k \in Chunk : /\ cached'.tiles[k] \subseteq named
                            /\ k \notin cached'.chunks => cached'.tiles[k] = {}
    <2>1. cached' = cached \/ cached' = Applied(Taken)
      BY DEF TakePlaced
    <2>2. CASE cached' = cached
      BY <1>5, <2>2
    <2>3. CASE cached' = Applied(Taken)
      BY <1>3, <1>4, <1>5, <2>3, AppliedCache
    <2> QED BY <2>1, <2>2, <2>3
  <1>7. ServerTyped'
    BY <1>1, ServerStays DEF TakePlaced, server
  <1>8. AskedTyped'
    BY <1>1, AskedStays DEF TakePlaced
  <1>9. SubTyped'
    BY <1>1, SubStays DEF TakePlaced
  <1>10. LinkTyped'
    BY <1>3
  <1>11. ViewTyped'
    <2>1. cursor' \in Cursor /\ cursor'.revision <= revision
      BY <1>4 DEF TakePlaced, EventCursor, Cursor, Typed, ViewTyped
    <2> QED BY <1>2, <1>6, <2>1 DEF TakePlaced, Typed, ViewTyped
  <1>12. OwnTyped'
    <2>1. optimistic' \subseteq named /\ undo' \subseteq named
      BY <1>4 DEF TakePlaced, AnsweredUnpinned, Typed, OwnTyped
    <2>2. shown' \subseteq named'
      BY <1>2, <1>6, <2>1, RebuildNamed DEF TakePlaced, Typed, OwnTyped
    <2> QED BY <1>1, <1>2, <2>1, <2>2 DEF TakePlaced, Typed, OwnTyped
  <1> QED BY <1>7, <1>8, <1>9, <1>10, <1>11, <1>12 DEF Typed

\* Taking the answer to an undo keeps the types.
LEMMA TakeUndoneTyped ==
  ASSUME QuiltDeliveryAssumption, Typed, TakeUndone
  PROVE  Typed'
  <1>1. Grows
    BY Quiet DEF TakeUndone, server, own
  <1>2. UNCHANGED <<revision, named>>
    BY DEF TakeUndone, server
  <1>3. LinkTyped' /\ Taken \in Message /\ Past(Taken) /\ Taken.kind = "reply"
    BY <1>2, TakeLink DEF TakeUndone
  <1>4. /\ Taken \in Notice /\ Taken.tile \in named
        /\ Taken.revision \in Nat /\ Taken.revision <= revision
    BY <1>3, Kinds DEF Past, Notice
  <1>5. /\ cached \in Cache /\ cached.revision <= revision
        /\ cached.chunks = {} => cached.revision = 0
        /\ \A k \in Chunk : /\ cached.tiles[k] \subseteq named
                            /\ k \notin cached.chunks => cached.tiles[k] = {}
    BY DEF Typed, ViewTyped
  <1>6. /\ cached' \in Cache /\ cached'.revision <= revision
        /\ cached'.chunks = {} => cached'.revision = 0
        /\ \A k \in Chunk : /\ cached'.tiles[k] \subseteq named
                            /\ k \notin cached'.chunks => cached'.tiles[k] = {}
    <2>1. cached' = cached \/ cached' = Applied(Taken)
      BY DEF TakeUndone
    <2>2. CASE cached' = cached
      BY <1>5, <2>2
    <2>3. CASE cached' = Applied(Taken)
      BY <1>3, <1>4, <1>5, <2>3, AppliedCache
    <2> QED BY <2>1, <2>2, <2>3
  <1>7. ServerTyped'
    BY <1>1, ServerStays DEF TakeUndone, server
  <1>8. AskedTyped'
    BY <1>1, AskedStays DEF TakeUndone
  <1>9. SubTyped'
    BY <1>1, SubStays DEF TakeUndone
  <1>10. LinkTyped'
    BY <1>3
  <1>11. ViewTyped'
    <2>1. cursor' \in Cursor /\ cursor'.revision <= revision
      BY <1>4 DEF TakeUndone, EventCursor, Cursor, Typed, ViewTyped
    <2> QED BY <1>2, <1>6, <2>1 DEF TakeUndone, Typed, ViewTyped
  <1>12. OwnTyped'
    <2>1. undo' \subseteq named
      BY DEF TakeUndone, Typed, OwnTyped
    <2>2. shown' \subseteq named'
      BY <1>2, <1>6, <2>1, RebuildNamed DEF TakeUndone, Typed, OwnTyped
    <2> QED BY <1>1, <1>2, <2>1, <2>2 DEF TakeUndone, Typed, OwnTyped
  <1> QED BY <1>7, <1>8, <1>9, <1>10, <1>11, <1>12 DEF Typed

\* A placement keeps the types.
LEMMA PlaceTyped ==
  ASSUME QuiltDeliveryAssumption, Typed, NEW t \in Tile, Place(t)
  PROVE  Typed'
  <1>1. Grows
    BY DEF Place, server, Grows, Typed, ServerTyped, QuiltDeliveryAssumption
  <1>2. UNCHANGED revision /\ revision \in Nat /\ named' = named \cup {t} /\ UNCHANGED <<server, link, view>>
    BY DEF Place, server, Typed, ServerTyped, QuiltDeliveryAssumption
  <1>3. ServerTyped'
    BY <1>1, <1>2, ServerStays
  <1>4. AskedTyped'
    <2>1. ASSUME NEW r \in asked'
          PROVE  /\ r \in Mutation /\ r.tile \in named'
                 /\ r.revision <= revision /\ r.expected <= MaxRevision
                 /\ ~up => (r.heard => r.revision = 0)
      <3>1. CASE r \in asked
        BY <1>2, <3>1 DEF Typed, AskedTyped
      <3>2. CASE r = Request("placed", t)
        <4>1. cached.revision \in Nat /\ cached.revision <= MaxRevision
          BY DEF Typed, ViewTyped, ServerTyped, Cache, QuiltDeliveryAssumption
        <4>2. /\ r \in Mutation /\ r.tile = t /\ r.revision = 0 /\ r.expected = cached.revision
          BY <3>2, <4>1 DEF Request, Mutation, Operation
        <4> QED BY <1>2, <4>1, <4>2
      <3> QED BY <3>1, <3>2 DEF Place
    <2> QED BY <1>2, <2>1 DEF AskedTyped, link
  <1>5. SubTyped'
    BY <1>1, <1>2, SubStays DEF link
  <1>6. LinkTyped'
    BY <1>1, <1>2, LinkStays DEF link, Typed, LinkTyped
  <1>7. ViewTyped'
    BY <1>1, <1>2, ViewStays DEF view, Typed, ViewTyped
  <1>8. OwnTyped'
    <2>1. edits' \in 0..MaxEdits
      BY DEF Place, Typed, OwnTyped, QuiltDeliveryAssumption
    <2> QED BY <2>1 DEF Place, Typed, OwnTyped
  <1> QED BY <1>3, <1>4, <1>5, <1>6, <1>7, <1>8 DEF Typed

\* An undo keeps the types.
LEMMA UndoTyped ==
  ASSUME QuiltDeliveryAssumption, Typed, NEW t \in Tile, Undo(t)
  PROVE  Typed'
  <1>1. Grows
    BY Quiet DEF Undo, server, own
  <1>2. UNCHANGED <<revision, named>> /\ revision \in Nat /\ UNCHANGED <<server, link, view>>
    BY DEF Undo, server, Typed, ServerTyped, QuiltDeliveryAssumption
  <1>3. ServerTyped'
    BY <1>1, <1>2, ServerStays
  <1>4. AskedTyped'
    <2>1. ASSUME NEW r \in asked'
          PROVE  /\ r \in Mutation /\ r.tile \in named
                 /\ r.revision <= revision /\ r.expected <= MaxRevision
                 /\ ~up => (r.heard => r.revision = 0)
      <3>1. CASE r \in asked
        BY <1>2, <3>1 DEF Typed, AskedTyped
      <3>2. CASE r = Request("removed", t)
        <4>1. cached.revision \in Nat /\ cached.revision <= MaxRevision
          BY DEF Typed, ViewTyped, ServerTyped, Cache, QuiltDeliveryAssumption
        <4>2. /\ r \in Mutation /\ r.tile = t /\ r.revision = 0 /\ r.expected = cached.revision
          BY <3>2, <4>1 DEF Request, Mutation, Operation
        <4>3. t \in named
          BY DEF Undo, Typed, OwnTyped
        <4> QED BY <1>2, <4>1, <4>2, <4>3
      <3> QED BY <3>1, <3>2 DEF Undo
    <2> QED BY <1>2, <2>1 DEF AskedTyped, link
  <1>5. SubTyped'
    BY <1>1, <1>2, SubStays DEF link
  <1>6. LinkTyped'
    BY <1>1, <1>2, LinkStays DEF link, Typed, LinkTyped
  <1>7. ViewTyped'
    BY <1>1, <1>2, ViewStays DEF view, Typed, ViewTyped
  <1>8. OwnTyped'
    <2>1. edits' \in 0..MaxEdits
      BY DEF Undo, Typed, OwnTyped, QuiltDeliveryAssumption
    <2> QED BY <1>2, <2>1 DEF Undo, Typed, OwnTyped
  <1> QED BY <1>3, <1>4, <1>5, <1>6, <1>7, <1>8 DEF Typed

\* An eviction keeps the types.
LEMMA EvictTyped ==
  ASSUME QuiltDeliveryAssumption, Typed, Evict
  PROVE  Typed'
  <1>1. Grows
    BY Quiet DEF Evict, server, own
  <1>2. UNCHANGED <<revision, named>> /\ revision \in Nat
    BY DEF Evict, server, Typed, ServerTyped, QuiltDeliveryAssumption
  <1>3. cached' = Uncached
    BY DEF Evict
  <1>4. ServerTyped'
    BY <1>1, ServerStays DEF Evict, server
  <1>5. AskedTyped'
    BY <1>1, AskedStays DEF Evict, link
  <1>6. SubTyped'
    BY <1>1, SubStays DEF Evict, link
  <1>7. LinkTyped'
    BY <1>1, LinkStays DEF Evict, link, Typed, LinkTyped
  <1>8. ViewTyped'
    BY <1>2, <1>3, Empty DEF Evict, Typed, ViewTyped
  <1>9. OwnTyped'
    <2>1. shown' \subseteq named'
      BY <1>2, <1>3, Empty, RebuildNamed DEF Evict, Typed, OwnTyped
    <2> QED BY <1>1, <1>2, <2>1 DEF Evict, Typed, OwnTyped
  <1> QED BY <1>4, <1>5, <1>6, <1>7, <1>8, <1>9 DEF Typed


\* Nothing changes.
LEMMA StutterTyped == ASSUME Typed, UNCHANGED vars PROVE Typed'
  <1>1. /\ UNCHANGED <<revision, tiles, pending, up, sent, joined, sub, wire>>
        /\ UNCHANGED <<want, due, cursor, cached, torn, shown, optimistic, undo, edits>>
        /\ UNCHANGED <<asked, named, excused, moves, drops>>
    BY DEF vars, server, link, view, own, pins
  <1> QED BY <1>1 DEF Typed, ServerTyped, AskedTyped, SubTyped, LinkTyped, ViewTyped, OwnTyped, Past

\* The initial state is typed.
LEMMA InitTyped == ASSUME QuiltDeliveryAssumption, Init PROVE Typed
  <1>1. ServerTyped /\ AskedTyped /\ OwnTyped
    BY DEF Init, ServerTyped, AskedTyped, OwnTyped, QuiltDeliveryAssumption
  <1>2. SubTyped
    BY Empty DEF Init, SubTyped
  <1>3. LinkTyped
    <2>1. << >> \in Seq(Message) /\ << >> \in Seq(Demand) /\ Range(<< >>) = {}
      BY DEF Range
    <2> QED BY <2>1, FS_EmptySet DEF Init, LinkTyped
  <1>4. ViewTyped
    <2>1. want \subseteq Chunk /\ due \in BOOLEAN /\ torn \in BOOLEAN /\ revision = 0
      BY DEF Init
    <2>2. cursor = NoCursor /\ cached = Uncached
      BY DEF Init
    <2> QED BY <2>1, <2>2, Empty, Makes DEF ViewTyped
  <1> QED BY <1>1, <1>2, <1>3, <1>4 DEF Typed

\* Every step keeps the types.
LEMMA NextTyped == ASSUME QuiltDeliveryAssumption, Typed, [Next]_vars PROVE Typed'
  <1>1. ASSUME NEW op \in Operation, NEW t \in Tile, Mutate(op, t) PROVE Typed'
    BY <1>1, MutateTyped
  <1>2. ASSUME NEW r \in asked, Decide(r) \/ Reject(r) \/ Accept(r) PROVE Typed'
    BY <1>2, DecideTyped, RejectTyped, AcceptTyped
  <1>3. ASSUME NEW e \in pending, Emit(e) PROVE Typed'
    BY <1>3, EmitTyped
  <1>4. CASE ChangeHands \/ Reconnect
    BY <1>4, ChangeHandsTyped, ReconnectTyped
  <1>5. CASE Subscription
    BY <1>5, ReceiveTyped, LoadTyped, LoadFailsTyped, LeaveTyped, JoinTyped, AcknowledgeTyped,
       SendStatesTyped DEF Subscription
  <1>6. ASSUME NEW lost \in SUBSET asked, Drop(lost) PROVE Typed'
    BY <1>6, DropTyped
  <1>7. ASSUME NEW w \in SUBSET Chunk, Move(w) PROVE Typed'
    BY <1>7, MoveTyped
  <1>8. CASE Client
    BY <1>8, SubscribeTyped, EvictTyped, TakeAckTyped, TakeStateTyped, TakeEventTyped,
       TakePlacedTyped, TakeUndoneTyped, PlaceTyped, UndoTyped DEF Client
  <1>9. CASE UNCHANGED vars
    BY <1>9, StutterTyped
  <1> QED BY <1>1, <1>2, <1>3, <1>4, <1>5, <1>6, <1>7, <1>8, <1>9 DEF Next, Operation

\* The types imply the type invariant.
LEMMA TypedIsTypeOK == ASSUME QuiltDeliveryAssumption, Typed PROVE TypeOK
  <1>1. revision \in Nat /\ MaxRevision \in Nat
    BY DEF Typed, ServerTyped, QuiltDeliveryAssumption
  <1>2. sub.phase \in {"none", "load", "rooms", "states"} /\ sub.scope \subseteq Chunk
    BY DEF Typed, SubTyped, Work
  <1>3. cursor.scope \subseteq Chunk /\ cached.chunks \subseteq Chunk
    BY DEF Typed, ViewTyped, Cursor, Cache
  <1>4. \A r \in asked : r.expected \in Nat /\ r.expected <= MaxRevision /\ r.revision <= revision
    BY DEF Typed, AskedTyped, Mutation
  <1>5. \A e \in pending : e.revision \in 1..revision /\ e.tile \in Tile
    BY DEF Typed, ServerTyped
  <1> QED BY <1>1, <1>2, <1>3, <1>4, <1>5
          DEF Typed, ServerTyped, LinkTyped, ViewTyped, OwnTyped, TypeOK

\* The types are kept for ever.
LEMMA AlwaysTyped == Spec => []Typed
  <1>1. Init => Typed
    BY InitTyped, QuiltDeliveryAssumption
  <1>2. Typed /\ [Next]_vars => Typed'
    BY NextTyped, QuiltDeliveryAssumption
  <1> QED BY <1>1, <1>2, PTL DEF Spec

\* In every state of every execution the messages are well formed, a connection that has
\* ended leaves nothing behind, and the client is never ahead of the database.
THEOREM TypeCorrect == Spec => []TypeOK
  <1>1. Typed => TypeOK
    BY TypedIsTypeOK, QuiltDeliveryAssumption
  <1> QED BY <1>1, AlwaysTyped, PTL

-----------------------------------------------------------------------------
(* The cache never goes back *)

\* The message that is taken, as the steps that apply it need it.
LEMMA TakenTells ==
  ASSUME QuiltDeliveryAssumption, Typed, NEW kind, Take(kind),
         UNCHANGED <<revision, named, up, sent, joined, sub>>
  PROVE  /\ Taken \in Message /\ Past(Taken) /\ Taken \in Range(wire) /\ Taken.kind = kind
         /\ kind \in {"event", "reply"} => Taken \in Notice
         /\ kind = "ack" => Taken \in Answer
         /\ kind = "state" => Taken \in Snapshot
  BY TakeLink, Kinds

\* How a step changes the patch in the cache.
Touched ==
  \/ UNCHANGED cached
  \/ cached' = Uncached /\ NoPins
  \/ Taken \in Notice /\ Past(Taken) /\ cached' = Applied(Taken)
  \/ Taken \in Snapshot /\ Past(Taken) /\ cached' = Merged(Taken)

\* Only the messages the client takes and the eviction change the patch in the cache.
LEMMA CacheTouched == ASSUME QuiltDeliveryAssumption, Typed, Next PROVE Touched
  <1>1. ASSUME NEW op, NEW t, Mutate(op, t) PROVE Touched
    BY <1>1 DEF Mutate, view, Touched
  <1>2. ASSUME NEW r, Decide(r) \/ Reject(r) \/ Accept(r) PROVE Touched
    BY <1>2 DEF Decide, Reject, Accept, view, Touched
  <1>3. ASSUME NEW e, Emit(e) PROVE Touched
    BY <1>3 DEF Emit, view, Touched
  <1>4. CASE ChangeHands \/ Reconnect
    BY <1>4 DEF ChangeHands, Reconnect, view, Touched
  <1>5. CASE Subscription
    BY <1>5 DEF Subscription, Receive, Load, LoadFails, Leave, Join, Acknowledge, SendStates,
       view, Touched
  <1>6. ASSUME NEW lost, Drop(lost) PROVE Touched
    BY <1>6 DEF Drop, Touched
  <1>7. ASSUME NEW w, Move(w) PROVE Touched
    BY <1>7 DEF Move, Touched
  <1>8. CASE Client
    <2>1. CASE Subscribe \/ TakeAck
      BY <2>1 DEF Subscribe, TakeAck, Touched
    <2>2. CASE Evict
      BY <2>2 DEF Evict, Touched
    <2>3. CASE TakeState
      <3>1. Take("state") /\ UNCHANGED <<revision, named, up, sent, joined, sub>>
        BY <2>3 DEF TakeState, server
      <3>2. Taken \in Snapshot /\ Past(Taken)
        BY <3>1, TakenTells
      <3> QED BY <2>3, <3>2 DEF TakeState, Touched
    <2>4. CASE TakeEvent
      <3>1. Take("event") /\ UNCHANGED <<revision, named, up, sent, joined, sub>>
        BY <2>4 DEF TakeEvent, server
      <3>2. Taken \in Notice /\ Past(Taken)
        BY <3>1, TakenTells
      <3> QED BY <2>4, <3>2 DEF TakeEvent, Touched
    <2>5. CASE TakePlaced \/ TakeUndone
      <3>1. Take("reply") /\ UNCHANGED <<revision, named, up, sent, joined, sub>>
        BY <2>5 DEF TakePlaced, TakeUndone, server
      <3>2. Taken \in Notice /\ Past(Taken)
        BY <3>1, TakenTells
      <3> QED BY <2>5, <3>2 DEF TakePlaced, TakeUndone, Touched
    <2>6. ASSUME NEW t, Place(t) \/ Undo(t) PROVE Touched
      BY <2>6 DEF Place, Undo, view, Touched
    <2> QED BY <1>8, <2>1, <2>2, <2>3, <2>4, <2>5, <2>6 DEF Client
  <1> QED BY <1>1, <1>2, <1>3, <1>4, <1>5, <1>6, <1>7, <1>8 DEF Next

\* Whatever order snapshots, events and answers come in, the revision of a patch that stays in
\* the cache never goes back.
THEOREM NewerCache == Spec => CacheNeverGoesBack
  <1> DEFINE Forward == cached'.chunks # {} => cached'.revision >= cached.revision
  <1>1. Typed /\ [Next]_vars => [Forward]_vars
    <2> SUFFICES ASSUME Typed, Next PROVE Forward
      OBVIOUS
    <2>1. Touched
      BY CacheTouched, QuiltDeliveryAssumption
    <2>2. cached.revision \in Nat
      BY DEF Typed, ViewTyped, Cache
    <2>3. CASE UNCHANGED cached
      BY <2>2, <2>3
    <2>4. CASE cached' = Uncached
      BY <2>4, Empty
    <2>5. CASE Taken \in Notice /\ Past(Taken) /\ cached' = Applied(Taken)
      <3>1. cached.revision <= cached'.revision /\ cached'.revision \in Nat
        BY <2>5, AppliedCache, QuiltDeliveryAssumption DEF Cache
      <3> QED BY <2>2, <3>1
    <2>6. CASE Taken \in Snapshot /\ Past(Taken) /\ cached' = Merged(Taken)
      <3>1. cached.revision <= cached'.revision /\ cached'.revision \in Nat
        BY <2>6, MergedCache, QuiltDeliveryAssumption DEF Cache
      <3> QED BY <2>2, <3>1
    <2> QED BY <2>1, <2>3, <2>4, <2>5, <2>6 DEF Touched
  <1> QED BY <1>1, AlwaysTyped, PTL DEF Spec, CacheNeverGoesBack

-----------------------------------------------------------------------------
(* The cursor is honest *)

\* The claims are cursors of the past.
LEMMA ClaimsPast ==
  ASSUME QuiltDeliveryAssumption, Typed, NEW c \in Claims
  PROVE  c \in Cursor /\ c.revision <= revision /\ c.revision \in Nat
  <1>1. \A m \in Range(wire) : m \in Answer => m.cursor \in Cursor /\ m.cursor.revision <= revision
    <2>1. \A m \in Range(wire) : Past(m)
      BY DEF Typed, LinkTyped
    <2> QED BY <2>1 DEF Past, Answer
  <1>2. \A q \in Range(sent) : q.cursor \in Cursor /\ q.cursor.revision <= revision
    <2>1. Range(sent) \subseteq Demand
      BY RangeOfSeq DEF Typed, LinkTyped
    <2> QED BY <2>1 DEF Typed, LinkTyped, Demand
  <1>3. cursor \in Cursor /\ cursor.revision <= revision
    BY DEF Typed, ViewTyped
  <1>4. /\ sub.supplied \in Cursor /\ sub.supplied.revision <= revision
        /\ [revision |-> sub.revision, scope |-> sub.scope] \in Cursor /\ sub.revision <= revision
    BY DEF Typed, SubTyped, Work, Cursor
  <1>5. c \in Cursor /\ c.revision <= revision
    BY <1>1, <1>2, <1>3, <1>4 DEF Claims
  <1> QED BY <1>5 DEF Cursor

\* After a commit nothing the client has or will get claims to be of the present.
LEMMA CommitHonest ==
  ASSUME QuiltDeliveryAssumption, Typed, revision' = revision + 1,
         UNCHANGED <<link, cursor>>
  PROVE  Honest'
  <1>1. revision \in Nat /\ \A n \in Nat : n <= revision => n # revision'
    BY DEF Typed, ServerTyped, QuiltDeliveryAssumption
  <1>2. UNCHANGED <<sent, sub, wire, cursor>>
    BY DEF link
  <1>3. Claims' = Claims
    BY <1>2 DEF Claims
  <1>4. \A c \in Claims : c.revision # revision'
    BY <1>1, ClaimsPast
  <1>5. \A m \in Range(wire) : m \in Snapshot => m.revision # revision'
    <2>1. \A m \in Range(wire) : Past(m)
      BY DEF Typed, LinkTyped
    <2> QED BY <1>1, <2>1 DEF Past, Snapshot
  <1>6. sub.revision # revision'
    BY <1>1 DEF Typed, SubTyped, Work
  <1>7. Current'
    BY <1>2, <1>5, <1>6 DEF Current
  <1> QED BY <1>3, <1>4, <1>7 DEF Honest, Backed

\* A step without a commit keeps every claim that stays good, and makes good ones.
LEMMA Carries ==
  ASSUME Honest, UNCHANGED revision, Current', torn => torn',
         \A k \in Chunk : Firm(k) \/ Coming(k) => Firm(k)' \/ Coming(k)',
         \A c \in Claims : c.scope \subseteq Chunk,
         \A c \in Claims' : c \in Claims \/ Backed(c)'
  PROVE  Honest'
  <1>1. ASSUME NEW c \in Claims PROVE Backed(c)'
    BY DEF Backed, Honest
  <1> QED BY <1>1 DEF Honest

\* The chunks of a claim are chunks.
LEMMA ClaimScopes ==
  ASSUME QuiltDeliveryAssumption, Typed
  PROVE  \A c \in Claims : c.scope \subseteq Chunk
  BY ClaimsPast DEF Cursor

\* A patch of the present revision stays as it is.
LEMMA FirmStays ==
  ASSUME UNCHANGED <<revision, tiles>>, NEW k \in Chunk, Firm(k),
         cached.revision = revision => UNCHANGED cached
  PROVE  Firm(k)'
  BY DEF Firm, TilesIn

\* What is neither an acknowledgement nor a snapshot changes no claim.
LEMMA NoticeHonest ==
  ASSUME QuiltDeliveryAssumption, Typed, Honest,
         UNCHANGED <<revision, tiles, sent, sub, torn>>, cursor' = cursor \/ cursor'.scope = {},
         cached.revision = revision => UNCHANGED cached,
         \A m \in Range(wire) : m \in Range(wire') \/ m \in Notice,
         \A m \in Range(wire') : m \in Range(wire) \/ m \in Notice
  PROVE  Honest'
  <1>1. \A m \in Notice : m \notin Answer /\ m \notin Snapshot
    BY DEF Notice, Answer, Snapshot
  <1>2. \A k \in Chunk : Coming(k) => Coming(k)'
    BY <1>1 DEF Coming
  <1>3. Current'
    BY <1>1 DEF Honest, Current, TilesIn
  <1>4. ASSUME NEW c \in Claims' PROVE c \in Claims \/ Backed(c)'
    <2>1. CASE c = cursor'
      BY <2>1 DEF Claims, Backed
    <2>2. CASE c # cursor'
      BY <1>1, <2>2 DEF Claims
    <2> QED BY <2>1, <2>2
  <1> QED BY <1>2, <1>3, <1>4, FirmStays, ClaimScopes, Carries

\* Acknowledgements without a scope claim nothing.
LEMMA EmptyAck ==
  Ack(NoCursor) \in Answer /\ Ack(NoCursor) \in Message /\ Ack(NoCursor) \notin Snapshot
    /\ Ack(NoCursor).cursor = NoCursor /\ NoCursor.scope = {}
  <1>1. Ack(NoCursor) \in Answer /\ Ack(NoCursor).cursor = NoCursor /\ NoCursor.scope = {}
        /\ Ack(NoCursor).kind = "ack"
    BY Makes
  <1> QED BY <1>1 DEF Message, Snapshot

\* The server answers the client's mutation, or broadcasts an event.
LEMMA AnswerHonest ==
  ASSUME QuiltDeliveryAssumption, Typed, Honest,
         (\E r \in asked : Reject(r) \/ Accept(r)) \/ \E e \in pending : Emit(e)
  PROVE  Honest'
  <1>1. ASSUME NEW r \in asked, Reject(r) \/ Accept(r) PROVE Honest'
    <2>1. r \in Mutation /\ wire \in Seq(Message)
      BY DEF Typed, AskedTyped, LinkTyped
    <2>2. r.operation \in Operation /\ r.tile \in Tile /\ r.revision \in Nat
      BY <2>1 DEF Mutation
    <2>3. PICK v \in Nat : wire' = wire \/ wire' = Append(wire, Reply(r.operation, r.tile, v))
      BY <1>1, <2>2 DEF Reject, Accept
    <2> DEFINE m == Reply(r.operation, r.tile, v)
    <2>4. m \in Notice /\ m \in Message
      BY <2>2, Makes DEF Message
    <2>5. wire' = wire \/ wire' = Append(wire, m)
      BY <2>3
    <2> HIDE DEF m
    <2>6. Range(Append(wire, m)) = Range(wire) \cup {m}
      BY <2>1, <2>4, RangeAppend
    <2>7. wire' = wire \/ Range(wire') = Range(wire) \cup {m}
      BY <2>5, <2>6
    <2>8. UNCHANGED <<revision, tiles, sent, sub, torn, cursor, cached>>
      BY <1>1 DEF Reject, Accept, server, view
    <2> QED BY <2>4, <2>7, <2>8, NoticeHonest
  <1>2. ASSUME NEW e \in pending, Emit(e) PROVE Honest'
    <2>1. e \in Notice /\ e \in Message /\ wire \in Seq(Message)
      BY DEF Typed, ServerTyped, LinkTyped, Message
    <2> DEFINE n == Cardinality(ChunksOf[e.tile] \cap joined)
    <2>2. n \in Nat
      BY FS_Subset, FS_CardinalityType DEF Typed, LinkTyped
    <2>3. wire' = wire \o Copies(e, n)
      BY <1>2 DEF Emit, Copies
    <2> HIDE DEF n
    <2>4. Range(wire) \subseteq Range(wire') /\ Range(wire') \subseteq Range(wire) \cup {e}
      BY <2>1, <2>2, <2>3, RangeCopies
    <2>5. UNCHANGED <<revision, tiles, sent, sub, torn, cursor, cached>>
      BY <1>2 DEF Emit, view
    <2> QED BY <2>1, <2>4, <2>5, NoticeHonest
  <1> QED BY <1>1, <1>2

\* The server takes a subscription up, or refuses it.
LEMMA ReceiveHonest ==
  ASSUME QuiltDeliveryAssumption, Typed, Honest, Receive
  PROVE  Honest'
  <1>1. /\ sent # << >> /\ Head(sent) \in Range(sent) /\ Range(sent') \subseteq Range(sent)
    BY RangeTail DEF Receive, Typed, LinkTyped
  <1>2. UNCHANGED <<revision, tiles, torn, cursor, cached>>
    BY DEF Receive, server, view
  <1>3. Head(sent).cursor \in Claims
    BY <1>1 DEF Claims
  <1>4. CASE sub.phase = "none"
    <2>1. sub' = [NoSub EXCEPT !.phase = "load", !.scope = Head(sent).scope,
                               !.supplied = Head(sent).cursor] /\ UNCHANGED wire
      BY <1>4 DEF Receive
    <2>2. sub'.phase = "load" /\ sub'.supplied = Head(sent).cursor
      BY <2>1 DEF NoSub
    <2>3. \A k \in Chunk : Coming(k) => Coming(k)'
      BY <1>2, <1>4, <2>1 DEF Coming
    <2>4. Current'
      BY <1>2, <2>1, <2>2 DEF Honest, Current, TilesIn
    <2>5. \A c \in Claims' : c \in Claims
      BY <1>1, <1>2, <1>3, <2>1, <2>2 DEF Claims
    <2> QED BY <1>2, <2>3, <2>4, <2>5, FirmStays, ClaimScopes, Carries
  <1>5. CASE sub.phase # "none"
    <2>1. wire' = Append(wire, Ack(NoCursor)) /\ UNCHANGED sub
      BY <1>5 DEF Receive
    <2>2. Range(wire') = Range(wire) \cup {Ack(NoCursor)}
      BY <2>1, EmptyAck, RangeAppend DEF Typed, LinkTyped
    <2>3. \A k \in Chunk : Coming(k) => Coming(k)'
      BY <1>2, <2>1, <2>2 DEF Coming
    <2>4. Current'
      BY <1>2, <2>1, <2>2, EmptyAck DEF Honest, Current, TilesIn
    <2>5. \A c \in Claims' : c \in Claims \/ c = NoCursor
      BY <1>1, <1>2, <2>1, <2>2, EmptyAck DEF Claims
    <2>6. \A c \in Claims' : c \in Claims \/ Backed(c)'
      BY <2>5, EmptyAck DEF Backed
    <2> QED BY <1>2, <2>3, <2>4, <2>6, FirmStays, ClaimScopes, Carries
  <1> QED BY <1>4, <1>5

\* The server loads a snapshot: the snapshot is present, and it is left out only if the
\* supplied cursor claims as much.
LEMMA LoadHonest ==
  ASSUME QuiltDeliveryAssumption, Typed, Honest, Load
  PROVE  Honest'
  <1>1. UNCHANGED <<revision, tiles, torn, cursor, cached, sent, wire>>
    BY DEF Load, server, view
  <1> DEFINE T == [k \in Chunk |-> IF k \in sub.scope THEN TilesIn(k) ELSE {}]
             o == sub.scope = {} \/ Matches
  <1>2. /\ sub' = [sub EXCEPT !.phase = "rooms", !.revision = revision, !.tiles = T, !.omit = o]
        /\ sub.phase = "load"
    BY DEF Load
  <1>3. o <=> sub.scope = {} \/ Matches
    OBVIOUS
  <1>4. \A k \in sub.scope : T[k] = TilesIn(k)
    BY DEF Typed, SubTyped, Work
  <1> HIDE DEF T, o
  <1>5. /\ sub'.phase = "rooms" /\ sub'.revision = revision /\ sub'.scope = sub.scope
        /\ sub'.tiles = T /\ sub'.omit = o
    BY <1>2 DEF Typed, SubTyped, Work
  <1>6. \A k \in Chunk : Coming(k) => Coming(k)'
    BY <1>1, <1>2 DEF Coming
  <1>7. Current'
    <2>1. \A k \in sub'.scope : sub'.tiles[k] = TilesIn(k)'
      BY <1>1, <1>4, <1>5 DEF TilesIn
    <2> QED BY <1>1, <2>1 DEF Honest, Current, TilesIn
  <1>8. PICK d : d = [revision |-> revision, scope |-> sub.scope]
    OBVIOUS
  <1>9. \A c \in Claims' : c \in Claims \/ (o /\ c = d)
    BY <1>1, <1>5, <1>8 DEF Claims
  <1>10. o => d \in Claims \/ Backed(d)'
    <2>1. CASE sub.scope = {}
      BY <1>8, <2>1 DEF Backed
    <2>2. CASE Matches
      <3>1. sub.supplied = d
        BY <1>8, <2>2 DEF Matches, Typed, SubTyped, Work, Cursor
      <3> QED BY <1>2, <3>1 DEF Claims
    <2> QED BY <1>3, <2>1, <2>2
  <1>11. \A c \in Claims' : c \in Claims \/ Backed(c)'
    BY <1>9, <1>10
  <1> QED BY <1>1, <1>6, <1>7, <1>11, FirmStays, ClaimScopes, Carries

\* A snapshot cannot be loaded: the acknowledgement claims nothing.
LEMMA LoadFailsHonest ==
  ASSUME QuiltDeliveryAssumption, Typed, Honest, LoadFails
  PROVE  Honest'
  <1>1. UNCHANGED <<revision, tiles, torn, cursor, cached, sent>>
    BY DEF LoadFails, server, view
  <1>2. /\ wire' = Append(wire, Ack(NoCursor)) /\ sub.phase = "load"
        /\ sub' = [sub EXCEPT !.phase = "states", !.omit = TRUE]
    BY DEF LoadFails
  <1>3. sub'.phase = "states" /\ sub'.omit
    BY <1>2 DEF Typed, SubTyped, Work
  <1>4. Range(wire') = Range(wire) \cup {Ack(NoCursor)}
    BY <1>2, EmptyAck, RangeAppend DEF Typed, LinkTyped
  <1>5. \A k \in Chunk : Coming(k) => Coming(k)'
    BY <1>1, <1>2, <1>4 DEF Coming
  <1>6. Current'
    BY <1>1, <1>3, <1>4, EmptyAck DEF Honest, Current, TilesIn
  <1>7. \A c \in Claims' : c \in Claims \/ c = NoCursor
    BY <1>1, <1>3, <1>4, EmptyAck DEF Claims
  <1>8. \A c \in Claims' : c \in Claims \/ Backed(c)'
    BY <1>7, EmptyAck DEF Backed
  <1> QED BY <1>1, <1>5, <1>6, <1>8, FirmStays, ClaimScopes, Carries

\* The acknowledgement claims what a snapshot will bring, or what the client claimed.
LEMMA AcknowledgeHonest ==
  ASSUME QuiltDeliveryAssumption, Typed, Honest, Acknowledge
  PROVE  Honest'
  <1>1. UNCHANGED <<revision, tiles, torn, cursor, cached, sent>>
    BY DEF Acknowledge, server, view
  <1>2. PICK c : c = [revision |-> IF sub.scope = {} THEN 0 ELSE sub.revision,
                      scope |-> sub.scope]
    OBVIOUS
  <1>3. /\ wire' = Append(wire, Ack(c)) /\ sub.phase = "rooms"
        /\ sub' = [sub EXCEPT !.phase = "states"]
    BY <1>2 DEF Acknowledge
  <1>4. c \in Cursor /\ c.scope = sub.scope /\ (c.revision = sub.revision \/ c.scope = {})
    BY <1>2 DEF Typed, SubTyped, Work, Cursor
  <1>5. sub.omit /\ c.scope # {} => c \in Claims
    BY <1>3, <1>2 DEF Claims
  <1>6. /\ sub'.phase = "states" /\ sub'.omit = sub.omit /\ sub'.scope = sub.scope
        /\ sub'.revision = sub.revision /\ sub'.tiles = sub.tiles
    BY <1>3 DEF Typed, SubTyped, Work
  <1>7. Ack(c) \in Message /\ Ack(c) \notin Snapshot /\ Ack(c).cursor = c
    <2>1. Ack(c) \in Answer /\ Ack(c).cursor = c /\ Ack(c).kind = "ack"
      BY <1>4, Makes
    <2> QED BY <2>1 DEF Message, Snapshot
  <1>8. Range(wire') = Range(wire) \cup {Ack(c)}
    BY <1>3, <1>7, RangeAppend DEF Typed, LinkTyped
  <1>9. \A k \in Chunk : Coming(k) => Coming(k)'
    BY <1>1, <1>3, <1>8 DEF Coming
  <1>10. Current'
    BY <1>1, <1>3, <1>6, <1>7, <1>8 DEF Honest, Current, TilesIn
  <1>11. \A d \in Claims' : d \in Claims \/ d = c
    BY <1>1, <1>6, <1>7, <1>8 DEF Claims
  <1>12. c \in Claims \/ Backed(c)'
    <2>1. CASE c.scope = {}
      BY <2>1 DEF Backed
    <2>2. CASE c.scope # {} /\ sub.omit
      BY <1>5, <2>2
    <2>3. CASE c.scope # {} /\ ~sub.omit
      <3>1. \A k \in c.scope : c.revision = revision' => Coming(k)'
        BY <1>4, <1>6, <2>3 DEF Coming
      <3> QED BY <3>1 DEF Backed
    <2> QED BY <2>1, <2>2, <2>3
  <1>13. \A d \in Claims' : d \in Claims \/ Backed(d)'
    BY <1>11, <1>12
  <1> QED BY <1>1, <1>9, <1>10, <1>13, FirmStays, ClaimScopes, Carries

\* The snapshot that was to come is on the wire.
LEMMA SendStatesHonest ==
  ASSUME QuiltDeliveryAssumption, Typed, Honest, SendStates
  PROVE  Honest'
  <1>1. UNCHANGED <<revision, tiles, torn, cursor, cached, sent>>
    BY DEF SendStates, server, view
  <1> DEFINE m == [kind |-> "state", revision |-> sub.revision, scope |-> sub.scope,
                   tiles |-> sub.tiles]
  <1>2. wire' = (IF sub.omit THEN wire ELSE Append(wire, m)) /\ sub' = NoSub /\ sub.phase = "states"
    BY DEF SendStates
  <1>3. /\ m \in Snapshot /\ m \in Message /\ m.revision = sub.revision /\ m.scope = sub.scope
        /\ m.tiles = sub.tiles
    BY DEF Snapshot, Message, Typed, SubTyped, Work
  <1>4. m \notin Answer
    BY DEF Answer
  <1> HIDE DEF m
  <1>5. sub'.phase = "none"
    BY <1>2, Empty
  <1>6. CASE sub.omit
    <2>1. wire' = wire
      BY <1>2, <1>6
    <2>2. \A k \in Chunk : Coming(k) => Coming(k)'
      BY <1>1, <1>6, <2>1 DEF Coming
    <2>3. Current'
      BY <1>1, <1>5, <2>1 DEF Honest, Current, TilesIn
    <2>4. \A c \in Claims' : c \in Claims
      BY <1>1, <1>5, <2>1 DEF Claims
    <2> QED BY <1>1, <2>2, <2>3, <2>4, FirmStays, ClaimScopes, Carries
  <1>7. CASE ~sub.omit
    <2>1. Range(wire') = Range(wire) \cup {m}
      BY <1>2, <1>3, <1>7, RangeAppend DEF Typed, LinkTyped
    <2>2. \A k \in Chunk : Coming(k) => Coming(k)'
      BY <1>1, <1>3, <2>1 DEF Coming
    <2>3. Current'
      <3>1. m.revision = revision => \A k \in m.scope : m.tiles[k] = TilesIn(k)
        BY <1>2, <1>3, <1>7 DEF Honest, Current
      <3> QED BY <1>1, <1>5, <2>1, <3>1 DEF Honest, Current, TilesIn
    <2>4. \A c \in Claims' : c \in Claims
      BY <1>1, <1>4, <1>5, <2>1 DEF Claims
    <2> QED BY <1>1, <2>2, <2>3, <2>4, FirmStays, ClaimScopes, Carries
  <1> QED BY <1>6, <1>7

\* The connection is lost: what is left of the claims is the cursor, and if a snapshot was on
\* its way it is excepted.
LEMMA DropHonest ==
  ASSUME QuiltDeliveryAssumption, Typed, Honest, NEW lost, Drop(lost)
  PROVE  Honest'
  <1>1. /\ UNCHANGED <<revision, tiles, cursor, cached>>
        /\ sent' = << >> /\ wire' = << >> /\ sub' = NoSub /\ torn' = (torn \/ StateOnItsWay)
    BY DEF Drop, server
  <1>2. Range(<< >>) = {} /\ NoSub.phase = "none"
    BY Empty DEF Range
  <1>3. Current'
    BY <1>1, <1>2 DEF Current
  <1>4. Claims' = {cursor}
    BY <1>1, <1>2 DEF Claims
  <1>5. CASE torn'
    BY <1>3, <1>5 DEF Honest, Backed
  <1>6. CASE ~torn'
    <2>1. ~torn /\ ~StateOnItsWay
      BY <1>1, <1>6
    <2>2. \A k \in Chunk : ~Coming(k)
      BY <2>1 DEF StateOnItsWay, Coming, Snapshot, Range
    <2>3. cursor \in Claims /\ cursor.scope \subseteq Chunk
      BY ClaimScopes DEF Claims
    <2>4. \A k \in Chunk : Firm(k) => Firm(k)'
      BY <1>1, FirmStays
    <2>5. cursor.revision = revision => \A k \in cursor.scope : Firm(k)'
      BY <2>1, <2>2, <2>3, <2>4 DEF Honest, Backed
    <2>6. Backed(cursor)'
      BY <1>1, <2>5 DEF Backed
    <2> QED BY <1>1, <1>3, <1>4, <2>6 DEF Honest
  <1> QED BY <1>5, <1>6

\* The client's own cursor is what it claims when it subscribes.
LEMMA SubscribeHonest ==
  ASSUME QuiltDeliveryAssumption, Typed, Honest, Subscribe
  PROVE  Honest'
  <1>1. UNCHANGED <<revision, tiles, cursor, cached, torn, sub, wire>>
    BY DEF Subscribe, server
  <1>2. PICK q : q = [scope |-> want, cursor |-> cursor]
    OBVIOUS
  <1>3. q \in Demand /\ q.cursor = cursor
    BY <1>2 DEF Typed, ViewTyped, Demand
  <1>4. Range(sent') = Range(sent) \cup {q}
    BY <1>2, <1>3, RangeAppend DEF Subscribe, Typed, LinkTyped
  <1>5. Claims' = Claims
    BY <1>1, <1>3, <1>4 DEF Claims
  <1>6. Current'
    BY <1>1 DEF Honest, Current, TilesIn
  <1>7. \A k \in Chunk : Coming(k) => Coming(k)'
    BY <1>1 DEF Coming
  <1> QED BY <1>1, <1>5, <1>6, <1>7, FirmStays, ClaimScopes, Carries

\* The client takes over the cursor of an acknowledgement.
LEMMA TakeAckHonest ==
  ASSUME QuiltDeliveryAssumption, Typed, Honest, TakeAck
  PROVE  Honest'
  <1>1. UNCHANGED <<revision, tiles, named, cached, torn, up, sent, joined, sub>>
    BY DEF TakeAck, server, own
  <1>2. Taken \in Answer /\ Taken \in Range(wire)
    BY <1>1, TakenTells DEF TakeAck
  <1>3. Taken \notin Snapshot
    BY <1>2 DEF Answer, Snapshot
  <1>4. Range(wire') \subseteq Range(wire) /\ Range(wire) \subseteq Range(wire') \cup {Taken}
    BY RangeTail DEF TakeAck, Take, Taken, Typed, LinkTyped
  <1>5. cursor' = cursor \/ cursor' = Taken.cursor
    BY DEF TakeAck
  <1>6. \A c \in Claims' : c \in Claims
    BY <1>1, <1>2, <1>4, <1>5 DEF Claims
  <1>7. Current'
    BY <1>1, <1>4 DEF Honest, Current, TilesIn
  <1>8. \A k \in Chunk : Coming(k) => Coming(k)'
    BY <1>1, <1>3, <1>4 DEF Coming
  <1> QED BY <1>1, <1>6, <1>7, <1>8, FirmStays, ClaimScopes, Carries

\* A snapshot backs its own cursor; it mends a torn one if no other is left or on its way.
LEMMA TakeStateHonest ==
  ASSUME QuiltDeliveryAssumption, Typed, Honest, TakeState
  PROVE  Honest'
  <1>1. UNCHANGED <<revision, tiles, named, up, sent, joined, sub>>
    BY DEF TakeState, server
  <1>2. PICK m : m = Taken
    OBVIOUS
  <1>3. m \in Snapshot /\ m \in Range(wire) /\ Past(m) /\ m \notin Answer
    <2>1. m \in Snapshot /\ m \in Range(wire) /\ Past(m)
      BY <1>1, <1>2, TakenTells DEF TakeState
    <2> QED BY <2>1 DEF Snapshot, Answer
  <1>4. /\ Range(wire') \subseteq Range(wire) /\ Range(wire) \subseteq Range(wire') \cup {m}
        /\ wire' \in Seq(Message)
    BY <1>2, RangeTail DEF TakeState, Take, Taken, Typed, LinkTyped
  <1>5. PICK c : c = [revision |-> m.revision, scope |-> m.scope]
    OBVIOUS
  <1>6. /\ cursor' = c /\ c.revision = m.revision /\ c.scope = m.scope /\ c.scope \subseteq Chunk
        /\ cached' = Merged(m) /\ torn' = (torn /\ CursorOnItsWay)
    BY <1>2, <1>3, <1>5 DEF TakeState, Snapshot
  <1>7. Current'
    BY <1>1, <1>4 DEF Honest, Current, TilesIn
  <1>8. m.revision = revision => \A k \in m.scope : Firm(k)'
    <2> SUFFICES ASSUME m.revision = revision, NEW k \in m.scope PROVE Firm(k)'
      OBVIOUS
    <2>1. m.tiles[k] = TilesIn(k)
      BY <1>3 DEF Honest, Current
    <2>2. /\ Merged(m).revision = revision /\ k \in Merged(m).chunks
          /\ Merged(m).tiles[k] = m.tiles[k]
      BY <1>3, MergedCache
    <2> QED BY <1>1, <1>6, <2>1, <2>2 DEF Firm, TilesIn
  <1>9. \A k \in Chunk : Firm(k) => Firm(k)'
    <2> SUFFICES ASSUME NEW k \in Chunk, Firm(k) PROVE Firm(k)'
      OBVIOUS
    <2>1. CASE m.revision = revision
      <3>1. CASE k \in m.scope
        BY <1>8, <2>1, <3>1
      <3>2. CASE k \notin m.scope
        <4>1. /\ Merged(m).revision = revision /\ k \in Merged(m).chunks
              /\ Merged(m).tiles[k] = cached.tiles[k]
          BY <1>3, <2>1, <3>2, MergedCache DEF Firm
        <4> QED BY <1>1, <1>6, <4>1 DEF Firm, TilesIn
      <3> QED BY <3>1, <3>2
    <2>2. CASE m.revision # revision
      <3>1. revision \in Nat /\ m.revision \in Nat /\ m.revision <= revision
        BY <1>3 DEF Past, Snapshot, Typed, ServerTyped, QuiltDeliveryAssumption
      <3>2. cached.chunks # {} /\ m.revision < cached.revision
        BY <2>2, <3>1 DEF Firm
      <3>3. Merged(m) = cached
        BY <3>2 DEF Merged
      <3> QED BY <1>1, <1>6, <3>3 DEF Firm, TilesIn
    <2> QED BY <2>1, <2>2
  <1>10. \A k \in Chunk : Firm(k) \/ Coming(k) => Firm(k)' \/ Coming(k)'
    <2> SUFFICES ASSUME NEW k \in Chunk, Coming(k) PROVE Firm(k)' \/ Coming(k)'
      BY <1>9
    <2>1. CASE sub.phase = "states" /\ ~sub.omit /\ sub.revision = revision /\ k \in sub.scope
      BY <1>1, <2>1 DEF Coming
    <2>2. CASE \E n \in Range(wire) : n \in Snapshot /\ n.revision = revision /\ k \in n.scope
      <3>1. PICK n \in Range(wire) : n \in Snapshot /\ n.revision = revision /\ k \in n.scope
        BY <2>2
      <3>2. CASE n = m
        BY <1>8, <3>1, <3>2
      <3>3. CASE n # m
        BY <1>1, <1>4, <3>1, <3>3 DEF Coming
      <3> QED BY <3>2, <3>3
    <2> QED BY <2>1, <2>2 DEF Coming
  <1>11. Backed(c)'
    BY <1>1, <1>6, <1>8 DEF Backed
  <1>12. CASE torn => torn'
    <2>1. \A d \in Claims' : d \in Claims \/ d = c
      BY <1>1, <1>3, <1>4, <1>6 DEF Claims
    <2>2. \A d \in Claims' : d \in Claims \/ Backed(d)'
      BY <1>11, <2>1
    <2> QED BY <1>1, <1>7, <1>10, <1>12, <2>2, ClaimScopes, Carries
  <1>13. CASE torn /\ ~torn'
    <2>1. ~CursorOnItsWay
      BY <1>6, <1>13
    <2>2. \A a \in Range(wire) : a \notin Answer
      BY <2>1 DEF CursorOnItsWay, Answer, Range
    <2>3. sent = << >> /\ sub.phase = "none" /\ Range(<< >>) = {}
      BY <2>1 DEF CursorOnItsWay, Range
    <2>4. \A d \in Claims' : d = c
      BY <1>1, <1>4, <1>6, <2>2, <2>3 DEF Claims
    <2> QED BY <1>7, <1>11, <2>4 DEF Honest
  <1> QED BY <1>12, <1>13

\* The client takes an event, or the answer to a mutation of its own.
LEMMA TakeNoticeHonest ==
  ASSUME QuiltDeliveryAssumption, Typed, Honest, TakeEvent \/ TakePlaced \/ TakeUndone
  PROVE  Honest'
  <1>1. UNCHANGED <<revision, tiles, named, torn, up, sent, joined, sub>>
    BY DEF TakeEvent, TakePlaced, TakeUndone, server
  <1>2. Take("event") \/ Take("reply")
    BY DEF TakeEvent, TakePlaced, TakeUndone
  <1>3. Taken \in Notice /\ Past(Taken)
    BY <1>1, <1>2, TakenTells
  <1>4. Range(wire') \subseteq Range(wire) /\ Range(wire) \subseteq Range(wire') \cup {Taken}
    BY <1>2, RangeTail DEF Take, Taken, Typed, LinkTyped
  <1>5. cursor' = cursor \/ cursor'.scope = {}
    BY DEF TakeEvent, TakePlaced, TakeUndone, EventCursor
  <1>6. cached.revision = revision => UNCHANGED cached
    <2>1. cached' = cached \/ cached' = Applied(Taken)
      BY DEF TakeEvent, TakePlaced, TakeUndone
    <2> QED BY <1>3, <2>1, AppliedCache
  <1> QED BY <1>1, <1>3, <1>4, <1>5, <1>6, NoticeHonest

\* An eviction is excepted.
LEMMA EvictHonest ==
  ASSUME QuiltDeliveryAssumption, Typed, Honest, Evict
  PROVE  Honest'
  <1>1. UNCHANGED <<revision, tiles, sub, wire>> /\ torn' = TRUE
    BY DEF Evict, server, link
  <1>2. Current'
    BY <1>1 DEF Honest, Current, TilesIn
  <1> QED BY <1>1, <1>2 DEF Honest, Backed

\* Nothing of the claims or the cache changes.
LEMMA SameHonest ==
  ASSUME QuiltDeliveryAssumption, Typed, Honest,
         UNCHANGED <<revision, tiles, cursor, cached, torn, sent, sub, wire>>
  PROVE  Honest'
  <1>1. Current' /\ Claims' = Claims
    BY DEF Honest, Current, TilesIn, Claims
  <1>2. \A k \in Chunk : Coming(k) => Coming(k)'
    BY DEF Coming
  <1> QED BY <1>1, <1>2, FirmStays, ClaimScopes, Carries

\* Every step keeps the claims good.
LEMMA NextHonest == ASSUME QuiltDeliveryAssumption, Typed, Honest, [Next]_vars PROVE Honest'
  <1>1. revision \in Nat
    BY DEF Typed, ServerTyped, QuiltDeliveryAssumption
  <1>2. ASSUME NEW op, NEW t, Mutate(op, t) PROVE Honest'
    BY <1>2, CommitHonest DEF Mutate, Commit, view
  <1>3. ASSUME NEW r \in asked, Decide(r) PROVE Honest'
    BY <1>3, CommitHonest DEF Decide, Commit, view
  <1>4. ASSUME NEW r \in asked, Reject(r) \/ Accept(r) PROVE Honest'
    BY <1>4, AnswerHonest
  <1>5. ASSUME NEW e \in pending, Emit(e) PROVE Honest'
    BY <1>5, AnswerHonest
  <1>6. CASE ChangeHands
    BY <1>6, CommitHonest DEF ChangeHands, view
  <1>7. CASE Reconnect
    BY <1>7, SameHonest DEF Reconnect, server
  <1>8. CASE Subscription
    <2>1. ASSUME NEW k, Leave(k) \/ Join(k) PROVE Honest'
      BY <2>1, SameHonest DEF Leave, Join, server, view
    <2> QED BY <1>8, <2>1, ReceiveHonest, LoadHonest, LoadFailsHonest, AcknowledgeHonest,
               SendStatesHonest DEF Subscription
  <1>9. ASSUME NEW lost, Drop(lost) PROVE Honest'
    BY <1>9, DropHonest
  <1>10. ASSUME NEW w, Move(w) PROVE Honest'
    BY <1>10, SameHonest DEF Move, server, link
  <1>11. CASE Client
    <2>1. ASSUME NEW t, Place(t) \/ Undo(t) PROVE Honest'
      BY <2>1, SameHonest DEF Place, Undo, server, link, view
    <2> QED BY <1>11, <2>1, SubscribeHonest, EvictHonest, TakeAckHonest, TakeStateHonest,
               TakeNoticeHonest DEF Client
  <1>12. CASE UNCHANGED vars
    BY <1>12, SameHonest DEF vars, server, link, view
  <1> QED BY <1>2, <1>3, <1>4, <1>5, <1>6, <1>7, <1>8, <1>9, <1>10, <1>11, <1>12 DEF Next

\* The claims are good for ever.
LEMMA AlwaysHonest == Spec => []Honest
  <1>1. Init => Honest
    <2> SUFFICES ASSUME Init PROVE Honest
      OBVIOUS
    <2>1. Range(<< >>) = {} /\ NoSub.phase = "none" /\ NoCursor.scope = {}
      BY Empty, Makes DEF Range
    <2>2. Claims = {NoCursor} /\ Current
      BY <2>1 DEF Init, Claims, Current
    <2> QED BY <2>1, <2>2 DEF Honest, Backed
  <1>2. Typed /\ Honest /\ [Next]_vars => Honest'
    BY NextHonest, QuiltDeliveryAssumption
  <1> QED BY <1>1, <1>2, AlwaysTyped, PTL DEF Spec

\* A cursor of the present revision, which makes the server leave the snapshot out, stands for
\* exactly the tiles the database has in its chunks, through every interleaving of commits,
\* events, overlapping subscriptions and lost connections, but for the two cases that tear it.
THEOREM CursorIsHonest == Spec => []HonestCursor
  <1>1. Typed /\ Honest => HonestCursor
    <2> SUFFICES ASSUME Typed, Honest, ~torn, ~StateOnItsWay, cursor.revision = revision,
                        NEW k \in cursor.scope
                 PROVE  Holds(k)
      BY DEF HonestCursor
    <2>1. cursor \in Claims /\ k \in Chunk
      BY ClaimScopes, QuiltDeliveryAssumption DEF Claims
    <2>2. Firm(k) \/ Coming(k)
      BY <2>1 DEF Honest, Backed
    <2>3. ~Coming(k)
      BY DEF StateOnItsWay, Coming, Snapshot, Range
    <2> QED BY <2>2, <2>3 DEF Firm, Holds
  <1> QED BY <1>1, AlwaysTyped, AlwaysHonest, PTL

-----------------------------------------------------------------------------
(* Tiles the client shows stay *)

\* The chunks of the tiles that wait for an answer stay in the cache.
LEMMA NextFilable == ASSUME QuiltDeliveryAssumption, Typed, Filable, [Next]_vars PROVE Filable'
  <1>1. CASE UNCHANGED vars
    BY <1>1 DEF vars, own, pins, view, Filable
  <1>2. CASE Next
    <2>1. Touched
      BY <1>2, CacheTouched
    <2>2. cached.chunks \subseteq cached'.chunks \/ (cached' = Uncached /\ NoPins)
      BY <2>1, AppliedCache, MergedCache, SMTT(60) DEF Touched
    <2>3. \/ optimistic' \subseteq optimistic
          \/ UNCHANGED cached /\ \E t \in Tile : Place(t)
      BY <1>2, ZenonT(30) DEF Next, Mutate, Decide, Reject, Accept, ChangeHands, Emit, Subscription, Receive,
         Load, LoadFails, Leave, Join, Acknowledge, SendStates, Reconnect, Drop, Move, Client,
         Subscribe, Evict, TakeAck, TakeState, TakeEvent, TakePlaced, TakeUndone, Place, Undo,
         AnsweredUnpinned, own, pins, view
    <2>4. CASE optimistic' \subseteq optimistic
      BY <2>2, <2>4 DEF Filable, NoPins
    <2>5. ASSUME UNCHANGED cached, NEW t \in Tile, Place(t) PROVE Filable'
      BY <2>5 DEF Place, Filable
    <2> QED BY <2>3, <2>4, <2>5
  <1> QED BY <1>1, <1>2

\* It is so for ever.
LEMMA AlwaysFilable == Spec => []Filable
  <1>1. Init => Filable
    BY DEF Init, Filable
  <1>2. Typed /\ Filable /\ [Next]_vars => Filable'
    BY NextFilable, QuiltDeliveryAssumption
  <1> QED BY <1>1, <1>2, AlwaysTyped, PTL DEF Spec

\* Tiles that are pinned before and after a step, and not by the answer to their placement,
\* are shown as before.
LEMMA RebuildKeeps ==
  ASSUME NEW P, Rebuild(P), NEW t \in shown, t \in P
  PROVE  t \in shown'
  BY DEF Rebuild

\* The answer to a placement files the tile, unless the cache is newer.
LEMMA PlacedIsFiled ==
  ASSUME QuiltDeliveryAssumption, Typed, Filable, TakePlaced, Taken.revision > 0,
         Taken.tile \in optimistic, ~Overtaken(Taken.tile)
  PROVE  Taken.tile \in shown'
  <1>1. UNCHANGED <<revision, named, up, sent, joined, sub>> /\ Take("reply")
    BY DEF TakePlaced, server
  <1>2. Taken \in Notice /\ Taken.kind = "reply"
    BY <1>1, TakenTells
  <1>3. wire # << >>
    BY <1>1 DEF Take
  <1>4. ~(Taken.revision <= cached.revision)
    BY <1>2, <1>3 DEF Overtaken
  <1>5. ChunksOf[Taken.tile] \cap cached.chunks # {} /\ cached \in Cache
    BY DEF Filable, Typed, ViewTyped
  <1> DEFINE F == Filing(Taken.tile, cached.chunks)
             T == [k \in Chunk |-> IF Taken.operation = "removed" THEN cached.tiles[k] \ {Taken.tile}
                                   ELSE IF k \in F THEN cached.tiles[k] \cup {Taken.tile}
                                   ELSE cached.tiles[k]]
  <1>6. PICK k \in Chunk : k \in F
    BY <1>5 DEF Filing, Cache
  <1>7. Applied(Taken) = [cached EXCEPT !.revision = Taken.revision, !.tiles = T]
    BY <1>4, <1>5 DEF Applied
  <1>8. Taken.operation # "removed"
    BY DEF TakePlaced
  <1>9. Taken.tile \in T[k]
    BY <1>6, <1>8
  <1> HIDE DEF T, F
  <1>10. cached'.tiles = T
    BY <1>5, <1>7 DEF TakePlaced, Cache
  <1>11. Taken.tile \in Filed(cached')
    BY <1>6, <1>9, <1>10 DEF Filed
  <1> QED BY <1>11 DEF TakePlaced, Rebuild

\* A tile the client placed and shows does not vanish between the click and the undo, however
\* the view moves and the patch changes meanwhile, unless a later event overtakes its answer.
THEOREM TilesStayShown == Spec => OwnTilesStay
  <1> DEFINE Stays == \A t \in shown \cap (optimistic \cup undo) :
                        t \in optimistic' \cup undo' => t \in shown' \/ Overtaken(t)
  <1>1. Typed /\ Filable /\ [Next]_vars => [Stays]_vars
    <2> SUFFICES ASSUME Typed, Filable, Next, NEW t \in shown, t \in optimistic \cup undo,
                        t \in optimistic' \cup undo', ~Overtaken(t)
                 PROVE  t \in shown'
      OBVIOUS
    <2>1. \/ shown \subseteq shown'
          \/ TakeState \/ TakeEvent \/ Evict \/ TakePlaced \/ TakeUndone
      BY DEF Next, Mutate, Decide, Reject, Accept, ChangeHands, Emit, Subscription, Receive,
         Load, LoadFails, Leave, Join, Acknowledge, SendStates, Reconnect, Drop, Move, Client,
         Subscribe, TakeAck, Place, Undo, own, pins
    <2>2. CASE TakeState \/ TakeEvent \/ Evict
      BY <2>2, RebuildKeeps DEF TakeState, TakeEvent, Evict
    <2>3. CASE TakePlaced
      <3>1. Rebuild(optimistic' \cup undo)
        BY <2>3 DEF TakePlaced
      <3>2. CASE t \in optimistic' \cup undo
        BY <3>1, <3>2, RebuildKeeps
      <3>3. CASE t \notin optimistic' \cup undo
        <4>1. t = Taken.tile /\ Taken.revision > 0
          BY <2>3, <3>3 DEF TakePlaced
        <4>2. t \in optimistic
          BY <3>3
        <4> QED BY <2>3, <4>1, <4>2, PlacedIsFiled, QuiltDeliveryAssumption
      <3> QED BY <3>2, <3>3
    <2>4. CASE TakeUndone
      <3>1. CASE Taken.revision > 0
        BY <2>4, <3>1, RebuildKeeps DEF TakeUndone
      <3>2. CASE ~(Taken.revision > 0)
        BY <2>4, <3>2 DEF TakeUndone
      <3> QED BY <3>1, <3>2
    <2> QED BY <2>1, <2>2, <2>3, <2>4
  <1> QED BY <1>1, AlwaysTyped, AlwaysFilable, PTL DEF Spec, OwnTilesStay

-----------------------------------------------------------------------------
(* Pins are explained *)

Pins == Once /\ Stages /\ Pinned

\* Placements answered on a longer wire, and on a shorter one.
LEMMA ApartAppend ==
  ASSUME NEW S, NEW s \in Seq(S), NEW x \in S, Apart(s),
         Placed(x) => \A m \in Range(s) : Placed(m) => m.tile # x.tile
  PROVE  Apart(Append(s, x))
  <1>1. /\ Len(Append(s, x)) = Len(s) + 1 /\ Append(s, x) \in Seq(S)
        /\ \A i \in 1..Len(s) : Append(s, x)[i] = s[i]
        /\ Append(s, x)[Len(s) + 1] = x
    BY AppendProperties
  <1>2. DOMAIN Append(s, x) = 1..(Len(s) + 1) /\ DOMAIN s = 1..Len(s) /\ Len(s) \in Nat
    BY <1>1
  <1>3. \A i \in 1..Len(s) : s[i] \in Range(s)
    BY <1>2 DEF Range
  <1> QED BY <1>1, <1>2, <1>3 DEF Apart

\* Off a wire comes an answer to a placement that no other answers.
LEMMA ApartTail ==
  ASSUME NEW S, NEW s \in Seq(S), s # << >>, Apart(s)
  PROVE  /\ Apart(Tail(s))
         /\ Placed(Head(s)) => \A m \in Range(Tail(s)) : Placed(m) => m.tile # Head(s).tile
  <1>1. /\ Tail(s) \in Seq(S) /\ Len(Tail(s)) = Len(s) - 1
        /\ \A i \in 1..Len(Tail(s)) : Tail(s)[i] = s[i + 1]
    BY HeadTailProperties
  <1>2. /\ DOMAIN Tail(s) = 1..(Len(s) - 1) /\ DOMAIN s = 1..Len(s)
        /\ Len(s) \in Nat \ {0} /\ Head(s) = s[1]
    BY <1>1
  <1>3. \A i \in DOMAIN Tail(s) : i + 1 \in DOMAIN s /\ Tail(s)[i] = s[i + 1] /\ i + 1 # 1
    BY <1>1, <1>2
  <1>4. Apart(Tail(s))
    <2> SUFFICES ASSUME NEW i \in DOMAIN Tail(s), NEW j \in DOMAIN Tail(s), i # j,
                        Placed(Tail(s)[i]), Placed(Tail(s)[j])
                 PROVE  Tail(s)[i].tile # Tail(s)[j].tile
      BY DEF Apart
    <2>1. i + 1 # j + 1
      BY <1>2
    <2> QED BY <1>3, <2>1 DEF Apart
  <1>5. 1 \in DOMAIN s
    BY <1>2
  <1>6. Placed(Head(s)) => \A m \in Range(Tail(s)) : Placed(m) => m.tile # Head(s).tile
    BY <1>2, <1>3, <1>5 DEF Apart, Range
  <1> QED BY <1>4, <1>6

\* Events add no answer to a placement.
LEMMA ApartCopies ==
  ASSUME NEW S, NEW s \in Seq(S), NEW x \in S, NEW n \in Nat, Apart(s), ~Placed(x)
  PROVE  Apart(s \o Copies(x, n))
  <1> DEFINE t == s \o Copies(x, n)
  <1>1. \A i \in DOMAIN t : (i \in DOMAIN s /\ t[i] = s[i]) \/ t[i] = x
    BY RangeCopies
  <1> HIDE DEF t
  <1>2. Apart(t)
    BY <1>1 DEF Apart
  <1> QED BY <1>2 DEF t

\* A step that answers nothing, asks nothing and pins nothing explains as much as before.
LEMMA PinsStay ==
  ASSUME Pins, UNCHANGED <<tiles, asked, optimistic, undo, excused>>,
         Apart(wire'), Replies' = Replies
  PROVE  Pins'
  <1>1. Once'
    BY DEF Pins, Once, Apart
  <1>2. Stages'
    BY DEF Pins, Stages
  <1>3. \A t : (Explained(t) => Explained(t)') /\ (Awaited(t) => Awaited(t)')
    BY DEF Explained, Awaited
  <1>4. Pinned'
    BY <1>3 DEF Pins, Pinned
  <1> QED BY <1>1, <1>2, <1>4 DEF Pins

\* An answer on its way.
LEMMA RepliesAppend ==
  ASSUME Typed, NEW m \in Message, wire' = Append(wire, m)
  PROVE  Replies' = Replies \cup (IF m.kind = "reply" THEN {m} ELSE {})
  <1>1. Range(wire') = Range(wire) \cup {m}
    BY RangeAppend DEF Typed, LinkTyped
  <1>2. m.kind = "reply" => m \in Notice
    BY Kinds
  <1>3. Replies' = Replies \cup {n \in {m} : n \in Notice /\ n.kind = "reply"}
    BY <1>1 DEF Replies
  <1> QED BY <1>2, <1>3

\* Acknowledgements and snapshots are no answers.
LEMMA OtherMessages ==
  ASSUME Typed, Pins, UNCHANGED <<tiles, asked, optimistic, undo, excused>>,
         NEW m \in Message, m.kind \in {"ack", "state"}, wire' = Append(wire, m)
  PROVE  Pins'
  <1>1. ~Placed(m)
    BY DEF Placed
  <1>2. Apart(wire')
    BY <1>1, ApartAppend DEF Typed, LinkTyped, Pins, Once
  <1>3. Replies' = Replies
    BY RepliesAppend
  <1> QED BY <1>2, <1>3, PinsStay

\* The client takes something that is no answer.
LEMMA OtherTaken ==
  ASSUME Typed, Pins, UNCHANGED <<tiles, asked, optimistic, undo, excused>>,
         Take("ack") \/ Take("state") \/ Take("event")
  PROVE  Pins'
  <1>1. /\ wire # << >> /\ wire' = Tail(wire) /\ Head(wire).kind # "reply"
        /\ wire \in Seq(Message)
    BY DEF Take, Typed, LinkTyped
  <1>2. /\ Range(Tail(wire)) \subseteq Range(wire)
        /\ Range(wire) \subseteq Range(Tail(wire)) \cup {Head(wire)}
    BY <1>1, RangeTail
  <1>3. Replies' = Replies
    BY <1>1, <1>2 DEF Replies
  <1>4. Apart(wire')
    BY <1>1, ApartTail DEF Pins, Once
  <1> QED BY <1>3, <1>4, PinsStay

\* What is asked and answered is a placement or a removal of a tile with a name.
LEMMA Mutations ==
  ASSUME Typed
  PROVE  /\ \A r \in asked : /\ r.operation \in Operation /\ r.tile \in named
                             /\ r.revision \in Nat /\ r.heard \in BOOLEAN
         /\ \A m \in Replies : m.operation \in Operation /\ m.tile \in named /\ m.revision \in Nat
         /\ \A m \in Range(wire) : Placed(m) => m \in Replies /\ m.operation = "placed"
         /\ \A m \in Replies : m.operation = "placed" => Placed(m)
  <1>1. \A r \in asked : r \in Mutation /\ r.tile \in named
    BY DEF Typed, AskedTyped
  <1>2. \A m \in Range(wire) : Past(m)
    BY DEF Typed, LinkTyped
  <1> QED BY <1>1, <1>2 DEF Mutation, Notice, Replies, Past, Placed

\* Somebody else's removal of a pinned tile is excepted.
LEMMA MutatePins ==
  ASSUME QuiltDeliveryAssumption, Typed, Pins, NEW op \in Operation, NEW t \in Tile, Mutate(op, t)
  PROVE  Pins'
  <1>1. /\ UNCHANGED <<asked, optimistic, undo, wire>> /\ excused \subseteq excused'
        /\ op = "removed" /\ t \in optimistic \cup undo => t \in excused'
        /\ tiles \subseteq tiles' \cup (IF op = "removed" THEN {t} ELSE {})
    <2>1. UNCHANGED <<asked, optimistic, undo, wire>>
      BY DEF Mutate, link, pins
    <2>2. CASE op = "placed"
      BY <2>1, <2>2 DEF Mutate, Commit
    <2>3. CASE op = "removed"
      BY <2>1, <2>3 DEF Mutate, Commit
    <2> QED BY <2>2, <2>3 DEF Operation
  <1>2. Replies' = Replies
    BY <1>1 DEF Replies
  <1>3. Once'
    BY <1>1, <1>2 DEF Pins, Once, Apart
  <1>4. Stages'
    BY <1>1, <1>2 DEF Pins, Stages
  <1>5. ASSUME NEW u, Explained(u), u \in optimistic \cup undo \cup excused
        PROVE  Explained(u)'
    BY <1>1, <1>2, <1>5 DEF Explained
  <1>6. \A r \in asked : r.operation = "placed" => r.tile \in optimistic \cup excused
    BY Mutations DEF Pins, Stages
  <1>7. \A m \in Replies : m.operation = "placed" => m.tile \in optimistic
    BY DEF Pins, Stages
  <1>8. \A u \in optimistic : Awaited(u)' \/ u \in excused'
    BY <1>1, <1>2 DEF Pins, Pinned, Awaited
  <1>9. \A u \in undo : Explained(u)'
    BY <1>5 DEF Pins, Pinned
  <1>10. \A r \in asked : r.operation = "placed" /\ r.revision > 0 => Explained(r.tile)'
    BY <1>5, <1>6 DEF Pins, Pinned
  <1>11. \A m \in Replies : m.operation = "placed" /\ m.revision > 0 => Explained(m.tile)'
    BY <1>5, <1>7 DEF Pins, Pinned
  <1>12. Pinned'
    BY <1>1, <1>2, <1>8, <1>9, <1>10, <1>11 DEF Pinned
  <1> QED BY <1>3, <1>4, <1>12 DEF Pins

\* A commit of the client's own: the request stays, and stands for the removed tile.
LEMMA DecidePins ==
  ASSUME QuiltDeliveryAssumption, Typed, Pins, NEW r \in asked, Decide(r)
  PROVE  Pins'
  <1>1. PICK d : d = [r EXCEPT !.revision = revision + 1]
    OBVIOUS
  <1>2. /\ UNCHANGED <<optimistic, undo, wire, excused>>
        /\ asked' = (asked \ {r}) \cup {d} /\ r.revision = 0
        /\ r.operation = "placed" => tiles' = tiles \cup {r.tile}
        /\ tiles \subseteq tiles' \cup {r.tile}
    BY <1>1 DEF Decide, Commit, link, pins
  <1>3. /\ d.operation = r.operation /\ d.tile = r.tile /\ d.heard = r.heard
        /\ d.revision > 0 /\ d.revision # 0
    BY <1>1 DEF Typed, ServerTyped, AskedTyped, Mutation, QuiltDeliveryAssumption
  <1>4. r.operation \in {"placed", "removed"}
    BY Mutations DEF Operation
  <1>5. Replies' = Replies
    BY <1>2 DEF Replies
  <1>6. Once'
    BY <1>2, <1>3, <1>5 DEF Pins, Once, Apart
  <1>7. Stages'
    BY <1>2, <1>3, <1>5 DEF Pins, Stages
  <1>8. Explained(r.tile)'
    <2>1. CASE r.operation = "placed"
      BY <1>2, <2>1 DEF Explained
    <2>2. CASE r.operation = "removed" /\ r.heard
      BY <1>2, <1>3, <2>2 DEF Explained
    <2>3. CASE ~r.heard
      BY <1>2, <2>3 DEF Explained, Pins, Stages
    <2> QED BY <1>4, <2>1, <2>2, <2>3
  <1>9. ASSUME NEW u, Explained(u) PROVE Explained(u)'
    <2>1. CASE u = r.tile
      BY <1>8, <2>1
    <2>2. CASE u # r.tile
      BY <1>2, <1>5, <1>9, <2>2 DEF Explained
    <2> QED BY <2>1, <2>2
  <1>10. \A u : Awaited(u) => Awaited(u)'
    BY <1>2, <1>3, <1>5 DEF Awaited
  <1>11. Pinned'
    BY <1>2, <1>3, <1>5, <1>8, <1>9, <1>10 DEF Pins, Pinned
  <1> QED BY <1>6, <1>7, <1>11 DEF Pins

\* The answer to a request takes its place.
LEMMA AnswerPins ==
  ASSUME QuiltDeliveryAssumption, Typed, Pins, NEW r \in asked, NEW v \in Nat,
         asked' = asked \ {r}, UNCHANGED <<tiles, optimistic, undo>>, excused \subseteq excused',
         wire' = IF r.heard THEN Append(wire, Reply(r.operation, r.tile, v)) ELSE wire,
         r.heard /\ r.revision > 0 => v = r.revision \/ r.tile \in excused',
         v = 0 \/ (r.revision > 0 /\ v = r.revision)
  PROVE  Pins'
  <1>1. PICK m : m = Reply(r.operation, r.tile, v)
    OBVIOUS
  <1>2. r.operation \in Operation /\ r.tile \in Tile /\ r.revision \in Nat /\ r.heard \in BOOLEAN
    BY DEF Typed, AskedTyped, Mutation
  <1>3. /\ m \in Message /\ m.kind = "reply" /\ m.operation = r.operation /\ m.tile = r.tile
        /\ m.revision = v
    BY <1>1, <1>2, Makes DEF Message
  <1>4. Replies' = Replies \cup (IF r.heard THEN {m} ELSE {})
    <2>1. CASE r.heard
      BY <1>1, <1>3, <2>1, RepliesAppend
    <2>2. CASE ~r.heard
      BY <2>2 DEF Replies
    <2> QED BY <2>1, <2>2
  <1>5. Once'
    <2>1. Placed(m) => \A n \in Range(wire) : Placed(n) => n.tile # m.tile
      BY <1>3, Mutations DEF Pins, Once, Placed
    <2>2. Apart(wire')
      <3>1. CASE r.heard
        <4>1. wire' = Append(wire, m) /\ wire \in Seq(Message) /\ Apart(wire)
          BY <1>1, <3>1 DEF Typed, LinkTyped, Pins, Once
        <4> QED BY <1>3, <2>1, <4>1, ApartAppend
      <3>2. CASE ~r.heard
        BY <3>2 DEF Pins, Once
      <3> QED BY <3>1, <3>2
    <2>3. \A q \in asked', n \in Replies' : q.operation = "placed" /\ n.operation = "placed" =>
                                              q.tile # n.tile
      BY <1>3, <1>4 DEF Pins, Once
    <2>4. \A p, q \in asked' : p.operation = "placed" /\ q.operation = "placed" /\ p.tile = q.tile
                                 => p = q
      BY DEF Pins, Once
    <2> QED BY <2>2, <2>3, <2>4 DEF Once
  <1>6. Stages'
    BY <1>3, <1>4 DEF Pins, Stages
  <1>7. ASSUME NEW u, Explained(u) PROVE Explained(u)'
    <2>1. CASE u \in tiles \/ u \in excused
      BY <2>1 DEF Explained
    <2>2. CASE \E q \in asked : q.operation = "removed" /\ q.tile = u /\ q.heard /\ q.revision > 0
      <3>1. PICK q \in asked : q.operation = "removed" /\ q.tile = u /\ q.heard /\ q.revision > 0
        BY <2>2
      <3>2. CASE q = r
        BY <1>3, <1>4, <3>1, <3>2 DEF Explained
      <3>3. CASE q # r
        BY <3>1, <3>3 DEF Explained
      <3> QED BY <3>2, <3>3
    <2>3. CASE \E n \in Replies : n.operation = "removed" /\ n.tile = u /\ n.revision > 0
      BY <1>4, <2>3 DEF Explained
    <2> QED BY <1>7, <2>1, <2>2, <2>3 DEF Explained
  <1>8. \A u : Awaited(u) => Awaited(u)'
    BY <1>3, <1>4 DEF Awaited
  <1>9. m.operation = "placed" /\ m.revision > 0 => Explained(m.tile)
    <2> SUFFICES ASSUME m.operation = "placed", m.revision > 0 PROVE Explained(m.tile)
      OBVIOUS
    <2>1. r.revision > 0 /\ r.operation = "placed" /\ r.tile = m.tile
      BY <1>2, <1>3
    <2> QED BY <2>1 DEF Pins, Pinned
  <1>10. Pinned'
    BY <1>4, <1>7, <1>8, <1>9 DEF Pins, Pinned
  <1> QED BY <1>5, <1>6, <1>10 DEF Pins

\* The server rejects or accepts.
LEMMA AnsweredPins ==
  ASSUME QuiltDeliveryAssumption, Typed, Pins, NEW r \in asked, Reject(r) \/ Accept(r)
  PROVE  Pins'
  <1>1. CASE Reject(r)
    <2>1. /\ asked' = asked \ {r} /\ UNCHANGED <<tiles, optimistic, undo>>
          /\ excused' = (IF r.revision > 0 THEN excused \cup {r.tile} ELSE excused)
          /\ wire' = (IF r.heard THEN Append(wire, Reply(r.operation, r.tile, 0)) ELSE wire)
      BY <1>1 DEF Reject, server, pins
    <2> QED BY <2>1, AnswerPins
  <1>2. CASE Accept(r)
    <2>1. /\ asked' = asked \ {r} /\ UNCHANGED <<tiles, optimistic, undo, excused>>
          /\ wire' = (IF r.heard THEN Append(wire, Reply(r.operation, r.tile, r.revision)) ELSE wire)
          /\ r.revision > 0
      BY <1>2 DEF Accept, pins
    <2>2. r.revision \in Nat
      BY Mutations
    <2> QED BY <2>1, <2>2, AnswerPins
  <1> QED BY <1>1, <1>2

\* A broadcast answers nothing.
LEMMA EmitPins ==
  ASSUME QuiltDeliveryAssumption, Typed, Pins, NEW e \in pending, Emit(e)
  PROVE  Pins'
  <1>1. e \in Notice /\ e.kind = "event" /\ e \in Message /\ wire \in Seq(Message)
    BY DEF Typed, ServerTyped, LinkTyped, Message
  <1> DEFINE n == Cardinality(ChunksOf[e.tile] \cap joined)
  <1>2. n \in Nat
    BY FS_Subset, FS_CardinalityType DEF Typed, LinkTyped
  <1>3. wire' = wire \o Copies(e, n)
    BY DEF Emit, Copies
  <1> HIDE DEF n
  <1>4. Range(wire) \subseteq Range(wire') /\ Range(wire') \subseteq Range(wire) \cup {e}
    BY <1>1, <1>2, <1>3, RangeCopies
  <1>5. Replies' = Replies
    BY <1>1, <1>4 DEF Replies
  <1>6. Apart(wire')
    BY <1>1, <1>2, <1>3, ApartCopies DEF Placed, Pins, Once
  <1>7. UNCHANGED <<tiles, asked, optimistic, undo, excused>>
    BY DEF Emit, own, pins
  <1> QED BY <1>5, <1>6, <1>7, PinsStay

\* The subscription answers no mutation.
LEMMA SubscriptionPins ==
  ASSUME QuiltDeliveryAssumption, Typed, Pins, Subscription
  PROVE  Pins'
  <1>1. UNCHANGED <<tiles, asked, optimistic, undo, excused>>
    BY DEF Subscription, Receive, Load, LoadFails, Leave, Join, Acknowledge, SendStates, server,
       own, pins
  <1>2. CASE UNCHANGED wire
    BY <1>1, <1>2, PinsStay DEF Replies, Pins, Once
  <1>3. ASSUME NEW m \in Message, m.kind \in {"ack", "state"}, wire' = Append(wire, m)
        PROVE  Pins'
    BY <1>1, <1>3, OtherMessages
  <1>4. Ack(NoCursor) \in Message /\ Ack(NoCursor).kind = "ack"
    BY Makes DEF Message
  <1>5. CASE Receive \/ LoadFails
    BY <1>2, <1>3, <1>4, <1>5 DEF Receive, LoadFails
  <1>6. CASE Acknowledge
    <2>1. PICK c : c = [revision |-> IF sub.scope = {} THEN 0 ELSE sub.revision,
                        scope |-> sub.scope]
      OBVIOUS
    <2>2. c \in Cursor /\ wire' = Append(wire, Ack(c))
      BY <1>6, <2>1 DEF Acknowledge, Cursor, Typed, SubTyped, Work
    <2>3. Ack(c) \in Message /\ Ack(c).kind = "ack"
      BY <2>2, Makes DEF Message
    <2> QED BY <1>3, <2>2, <2>3
  <1>7. CASE SendStates
    <2>1. PICK m : m = [kind |-> "state", revision |-> sub.revision, scope |-> sub.scope,
                        tiles |-> sub.tiles]
      OBVIOUS
    <2>2. m \in Message /\ m.kind = "state"
      BY <2>1 DEF Snapshot, Message, Typed, SubTyped, Work
    <2>3. wire' = wire \/ wire' = Append(wire, m)
      BY <1>7, <2>1 DEF SendStates
    <2> QED BY <1>2, <1>3, <2>2, <2>3
  <1>8. CASE Load \/ \E k \in Chunk : Leave(k) \/ Join(k)
    BY <1>2, <1>8 DEF Load, Leave, Join
  <1> QED BY <1>5, <1>6, <1>7, <1>8 DEF Subscription

\* What was asked, and the answers on their way, are excepted when the connection is lost.
LEMMA DropPins ==
  ASSUME QuiltDeliveryAssumption, Typed, Pins, NEW lost \in SUBSET asked, Drop(lost)
  PROVE  Pins'
  <1>1. /\ UNCHANGED <<tiles, optimistic, undo>> /\ wire' = << >>
        /\ asked' = {[r EXCEPT !.heard = FALSE] : r \in asked \ lost}
        /\ excused \subseteq excused'
        /\ \A r \in asked : r.heard => r.tile \in excused'
        /\ \A m \in Range(wire) : m.kind = "reply" => m.tile \in excused'
    BY DEF Drop, server, pins
  <1>2. Range(<< >>) = {}
    BY DEF Range
  <1>3. Replies' = {}
    BY <1>1, <1>2 DEF Replies
  <1>4. \A r \in asked : r.tile \in excused'
    BY <1>1, Mutations DEF Pins, Stages
  <1>5. ASSUME NEW d \in asked'
        PROVE  /\ ~d.heard /\ d.tile \in excused'
               /\ \E r \in asked : d = [r EXCEPT !.heard = FALSE] /\ d.tile = r.tile
                                   /\ d.operation = r.operation /\ d.revision = r.revision
    <2>1. PICK r \in asked : d = [r EXCEPT !.heard = FALSE]
      BY <1>1
    <2>2. r \in Mutation
      BY DEF Typed, AskedTyped
    <2>3. /\ d.heard = FALSE /\ d.tile = r.tile /\ d.operation = r.operation
          /\ d.revision = r.revision
      BY <2>1, <2>2 DEF Mutation
    <2> QED BY <1>4, <2>1, <2>3
  <1>6. Once'
    <2>1. Apart(wire')
      BY <1>1 DEF Apart
    <2>2. \A p, q \in asked' : p.operation = "placed" /\ q.operation = "placed" /\ p.tile = q.tile
                                 => p = q
      <3> SUFFICES ASSUME NEW p \in asked', NEW q \in asked', p.tile = q.tile,
                          p.operation = "placed", q.operation = "placed"
                   PROVE  p = q
        OBVIOUS
      <3>1. PICK f \in asked : /\ p = [f EXCEPT !.heard = FALSE] /\ p.tile = f.tile
                               /\ p.operation = f.operation
        BY <1>5
      <3>2. PICK g \in asked : /\ q = [g EXCEPT !.heard = FALSE] /\ q.tile = g.tile
                               /\ q.operation = g.operation
        BY <1>5
      <3>3. f = g
        BY <3>1, <3>2 DEF Pins, Once
      <3> QED BY <3>1, <3>2, <3>3
    <2> QED BY <1>3, <2>1, <2>2 DEF Once
  <1>7. Stages'
    BY <1>1, <1>3, <1>5 DEF Pins, Stages
  <1>8. ASSUME NEW u, Explained(u) PROVE Explained(u)'
    <2>1. u \in tiles \/ u \in excused'
      BY <1>1, <1>4, <1>8 DEF Explained, Replies
    <2> QED BY <1>1, <2>1 DEF Explained
  <1>9. \A u \in optimistic : u \in excused'
    BY <1>1, <1>4 DEF Pins, Pinned, Awaited, Replies
  <1>10. \A d \in asked' : Explained(d.tile)'
    BY <1>5 DEF Explained
  <1>11. Pinned'
    BY <1>1, <1>3, <1>8, <1>9, <1>10 DEF Pins, Pinned
  <1> QED BY <1>6, <1>7, <1>11 DEF Pins

\* The answer that is taken was on the wire, and may be there again if it is of a removal.
LEMMA ReplyTaken ==
  ASSUME QuiltDeliveryAssumption, Typed, Pins, Take("reply"),
         UNCHANGED <<revision, named, up, sent, joined, sub>>
  PROVE  /\ Taken \in Replies /\ Replies' \subseteq Replies
         /\ Replies \subseteq Replies' \cup {Taken}
         /\ Apart(wire')
         /\ Taken.operation = "placed" =>
              \A n \in Replies' : n.operation = "placed" => n.tile # Taken.tile
  <1>1. /\ wire # << >> /\ wire' = Tail(wire) /\ Taken = Head(wire) /\ wire \in Seq(Message)
    BY DEF Take, Taken, Typed, LinkTyped
  <1>2. /\ Range(wire') \subseteq Range(wire) /\ Range(wire) \subseteq Range(wire') \cup {Taken}
    BY <1>1, RangeTail
  <1>3. Taken \in Replies
    BY TakenTells DEF Replies
  <1>4. Replies' \subseteq Replies /\ Replies \subseteq Replies' \cup {Taken}
    BY <1>2 DEF Replies
  <1>5. /\ Apart(wire')
        /\ Placed(Taken) => \A n \in Range(wire') : Placed(n) => n.tile # Taken.tile
    BY <1>1, ApartTail DEF Pins, Once
  <1>6. Taken.operation = "placed" =>
          \A n \in Replies' : n.operation = "placed" => n.tile # Taken.tile
    BY <1>3, <1>5 DEF Replies, Placed
  <1> QED BY <1>3, <1>4, <1>5, <1>6

\* The placement was answered once, and the tile is explained from then on.
LEMMA TakePlacedPins ==
  ASSUME QuiltDeliveryAssumption, Typed, Pins, TakePlaced
  PROVE  Pins'
  <1>1. PICK m : m = Taken
    OBVIOUS
  <1>2. /\ UNCHANGED <<tiles, asked, excused>> /\ m.operation = "placed"
        /\ optimistic' = optimistic \ {m.tile}
        /\ undo' = IF m.revision > 0 THEN undo \cup {m.tile} ELSE undo
    BY <1>1 DEF TakePlaced, AnsweredUnpinned, server
  <1>3. /\ m \in Replies /\ Replies' \subseteq Replies /\ Replies \subseteq Replies' \cup {m}
        /\ Apart(wire') /\ \A n \in Replies' : n.operation = "placed" => n.tile # m.tile
    <2>1. Take("reply") /\ UNCHANGED <<revision, named, up, sent, joined, sub>>
      BY DEF TakePlaced, server
    <2> QED BY <1>1, <1>2, <2>1, ReplyTaken
  <1>4. \A r \in asked : r.operation = "placed" => r.tile # m.tile
    BY <1>2, <1>3 DEF Pins, Once
  <1>5. Once'
    BY <1>2, <1>3 DEF Pins, Once
  <1>6. Stages'
    <2>1. undo' \cap optimistic' = {}
      BY <1>2 DEF Pins, Stages
    <2>2. \A r \in asked : r.heard => (r.operation = "placed" <=> r.tile \in optimistic')
      BY <1>2, <1>4 DEF Pins, Stages
    <2>3. \A n \in Replies' : n.operation = "placed" <=> n.tile \in optimistic'
      BY <1>2, <1>3 DEF Pins, Stages
    <2> QED BY <1>2, <2>1, <2>2, <2>3 DEF Pins, Stages
  <1>7. \A u : Explained(u) => Explained(u)'
    BY <1>2, <1>3 DEF Explained
  <1>8. \A u : u # m.tile /\ Awaited(u) => Awaited(u)'
    BY <1>2, <1>3 DEF Awaited
  <1>9. \A u \in undo' : Explained(u)'
    BY <1>2, <1>3, <1>7 DEF Pins, Pinned
  <1>10. \A u \in optimistic' : Awaited(u)' \/ u \in excused'
    BY <1>2, <1>8 DEF Pins, Pinned
  <1>11. Pinned'
    BY <1>2, <1>3, <1>7, <1>9, <1>10 DEF Pins, Pinned
  <1> QED BY <1>5, <1>6, <1>11 DEF Pins

\* The removal was answered: if it was accepted the tile is no longer pinned.
LEMMA TakeUndonePins ==
  ASSUME QuiltDeliveryAssumption, Typed, Pins, TakeUndone
  PROVE  Pins'
  <1>1. PICK m : m = Taken
    OBVIOUS
  <1>2. /\ UNCHANGED <<tiles, asked, excused, optimistic>> /\ m.operation = "removed"
        /\ undo' = IF m.revision > 0 THEN undo \ {m.tile} ELSE undo
    BY <1>1 DEF TakeUndone, server
  <1>3. /\ m \in Replies /\ Replies' \subseteq Replies /\ Replies \subseteq Replies' \cup {m}
        /\ Apart(wire')
    <2>1. Take("reply") /\ UNCHANGED <<revision, named, up, sent, joined, sub>>
      BY DEF TakeUndone, server
    <2> QED BY <1>1, <2>1, ReplyTaken
  <1>4. Once'
    BY <1>2, <1>3 DEF Pins, Once
  <1>5. Stages'
    BY <1>2, <1>3 DEF Pins, Stages
  <1>6. \A u : Awaited(u) => Awaited(u)'
    BY <1>2, <1>3 DEF Awaited
  <1>7. \A u : Explained(u) /\ (u # m.tile \/ ~(m.revision > 0) \/ u \in excused) => Explained(u)'
    BY <1>2, <1>3 DEF Explained
  <1>8. m.tile \notin optimistic
    BY <1>2, <1>3 DEF Pins, Stages
  <1>9. \A r \in asked : r.operation = "placed" => r.tile # m.tile \/ r.tile \in excused
    BY <1>8, Mutations DEF Pins, Stages
  <1>10. \A n \in Replies : n.operation = "placed" => n.tile # m.tile
    BY <1>8 DEF Pins, Stages
  <1>11. \A u \in undo' : Explained(u)'
    BY <1>2, <1>7 DEF Pins, Pinned
  <1>12. \A r \in asked : r.operation = "placed" /\ r.revision > 0 => Explained(r.tile)'
    BY <1>7, <1>9 DEF Pins, Pinned
  <1>13. \A n \in Replies' : n.operation = "placed" /\ n.revision > 0 => Explained(n.tile)'
    BY <1>3, <1>7, <1>10 DEF Pins, Pinned
  <1>14. Pinned'
    BY <1>2, <1>6, <1>11, <1>12, <1>13 DEF Pins, Pinned
  <1> QED BY <1>4, <1>5, <1>14 DEF Pins

\* A new tile is pinned while its placement is asked; an undo is asked for a tile whose
\* placement was answered.
LEMMA AskPins ==
  ASSUME QuiltDeliveryAssumption, Typed, Pins, NEW t \in Tile, Place(t) \/ Undo(t)
  PROVE  Pins'
  <1>1. PICK r : /\ asked' = asked \cup {r} /\ r.tile = t /\ r.heard /\ r.revision = 0
                 /\ r.operation = IF Place(t) THEN "placed" ELSE "removed"
    <2>1. PICK r : r = Request(IF Place(t) THEN "placed" ELSE "removed", t)
      OBVIOUS
    <2>2. /\ asked' = asked \cup {r}
      BY <2>1 DEF Place, Undo
    <2>3. /\ r.tile = t /\ r.heard /\ r.revision = 0
          /\ r.operation = IF Place(t) THEN "placed" ELSE "removed"
      BY <2>1 DEF Request
    <2> QED BY <2>2, <2>3
  <1>2. UNCHANGED <<tiles, wire, undo, excused>>
    BY DEF Place, Undo, server, link
  <1>3. Replies' = Replies /\ Apart(wire')
    BY <1>2 DEF Replies, Pins, Once, Apart
  <1>4. \A u : (Explained(u) => Explained(u)') /\ (Awaited(u) => Awaited(u)')
    BY <1>1, <1>2, <1>3 DEF Explained, Awaited
  <1>5. CASE Place(t)
    <2>1. /\ r.operation = "placed" /\ optimistic' = optimistic \cup {t} /\ t \notin named
      BY <1>1, <1>5 DEF Place
    <2>2. /\ \A q \in asked : q.tile # t
          /\ \A m \in Replies : m.tile # t
          /\ t \notin undo
      BY <2>1, Mutations DEF Typed, OwnTyped
    <2>3. Once'
      BY <1>1, <1>3, <2>2 DEF Pins, Once
    <2>4. Stages'
      BY <1>1, <1>2, <1>3, <2>1, <2>2 DEF Pins, Stages
    <2>5. Awaited(t)'
      BY <1>1, <2>1 DEF Awaited
    <2>6. Pinned'
      BY <1>1, <1>2, <1>3, <1>4, <2>1, <2>5 DEF Pins, Pinned
    <2> QED BY <2>3, <2>4, <2>6 DEF Pins
  <1>6. CASE ~Place(t)
    <2>1. /\ r.operation = "removed" /\ UNCHANGED optimistic /\ t \in undo
      BY <1>1, <1>6 DEF Undo
    <2>2. t \notin optimistic
      BY <2>1 DEF Pins, Stages
    <2>3. Once'
      BY <1>1, <1>3, <2>1 DEF Pins, Once
    <2>4. Stages'
      BY <1>1, <1>2, <1>3, <2>1, <2>2 DEF Pins, Stages
    <2>5. Pinned'
      BY <1>1, <1>2, <1>3, <1>4, <2>1 DEF Pins, Pinned
    <2> QED BY <2>3, <2>4, <2>5 DEF Pins
  <1> QED BY <1>5, <1>6

\* Every step explains the pins.
LEMMA NextPins == ASSUME QuiltDeliveryAssumption, Typed, Pins, [Next]_vars PROVE Pins'
  <1>1. ASSUME UNCHANGED <<tiles, asked, optimistic, undo, excused, wire>> PROVE Pins'
    BY <1>1, PinsStay DEF Replies, Pins, Once
  <1>2. ASSUME NEW op \in Operation, NEW t \in Tile, Mutate(op, t) PROVE Pins'
    BY <1>2, MutatePins
  <1>3. ASSUME NEW r \in asked, Decide(r) \/ Reject(r) \/ Accept(r) PROVE Pins'
    BY <1>3, DecidePins, AnsweredPins
  <1>4. ASSUME NEW e \in pending, Emit(e) PROVE Pins'
    BY <1>4, EmitPins
  <1>5. CASE ChangeHands \/ Reconnect
    BY <1>1, <1>5 DEF ChangeHands, Reconnect, server, link, own, pins
  <1>6. CASE Subscription
    BY <1>6, SubscriptionPins
  <1>7. ASSUME NEW lost \in SUBSET asked, Drop(lost) PROVE Pins'
    BY <1>7, DropPins
  <1>8. ASSUME NEW w, Move(w) PROVE Pins'
    BY <1>1, <1>8 DEF Move, server, link, own, pins
  <1>9. CASE Client
    <2>1. CASE Subscribe \/ Evict
      BY <1>1, <2>1 DEF Subscribe, Evict, server, link, own, pins
    <2>2. CASE TakeAck \/ TakeState \/ TakeEvent
      BY <2>2, OtherTaken DEF TakeAck, TakeState, TakeEvent, server, own, pins
    <2> QED BY <1>9, <2>1, <2>2, TakePlacedPins, TakeUndonePins, AskPins DEF Client
  <1>10. CASE UNCHANGED vars
    BY <1>1, <1>10 DEF vars, server, link, own, pins
  <1> QED BY <1>2, <1>3, <1>4, <1>5, <1>6, <1>7, <1>8, <1>9, <1>10 DEF Next, Operation

\* The pins are explained for ever.
LEMMA AlwaysPins == Spec => []Pins
  <1>1. Init => Pins
    <2> SUFFICES ASSUME Init PROVE Pins
      OBVIOUS
    <2>1. Range(<< >>) = {}
      BY DEF Range
    <2> QED BY <2>1 DEF Init, Pins, Once, Stages, Pinned, Apart, Replies
  <1>2. Typed /\ Pins /\ [Next]_vars => Pins'
    BY NextPins, QuiltDeliveryAssumption
  <1> QED BY <1>1, <1>2, AlwaysTyped, PTL DEF Spec

\* A tile stays pinned, and so on the canvas and its patch in the cache, only while the client
\* waits for an answer about it or the database has it, but for the tiles whose answer was lost
\* with a connection or to a failing database and those somebody else removed.
THEOREM PinsHaveReasons == Spec => []PinsAreExplained
  <1>1. Typed /\ Pins => PinsAreExplained
    <2> SUFFICES ASSUME Typed, Pins PROVE PinsAreExplained
      OBVIOUS
    <2>1. \A t : Awaited(t) => Outstanding("placed", t)
      BY DEF Awaited, Outstanding, Replies
    <2>2. \A t : Explained(t) => t \in tiles \/ t \in excused \/ Outstanding("removed", t)
      BY DEF Explained, Outstanding, Replies
    <2> QED BY <2>1, <2>2 DEF Pins, Pinned, PinsAreExplained
  <1> QED BY <1>1, AlwaysTyped, AlwaysPins, PTL
=============================================================================
