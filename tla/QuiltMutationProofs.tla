------------------------- MODULE QuiltMutationProofs -------------------------
(* Proofs about QuiltLog and QuiltMutation, for any patches, tiles and geometry, any number of
   connections and any requests. *)
EXTENDS QuiltMutation, FiniteSetTheorems, WellFoundedInduction, TLAPS

-----------------------------------------------------------------------------
(* The atomic operations keep the tables consistent. *)

LogTypes ==
  /\ owner \in [Patch -> Principal]
  /\ revision \in [Patch -> Nat]
  /\ history \in [Patch -> Seq(Entry)]
  /\ placed \subseteq Tile

\* The two accounts of one patch, and the order of its entries.
Rebuilt(p) == Replayed(p) = {t \in placed : p \in Footprint[t]}
Bounded(p) == \A i \in DOMAIN history[p] : history[p][i].seq <= revision[p]
Upwards(p) ==
  \A i, j \in DOMAIN history[p] : i < j => history[p][i].seq < history[p][j].seq
InTurns(p) ==
  \A i, j \in DOMAIN history[p] :
    /\ i < j
    /\ history[p][i].tile = history[p][j].tile
    /\ \A k \in (i + 1) .. (j - 1) : history[p][k].tile # history[p][i].tile
    => history[p][i].kind # history[p][j].kind

Sound(p) == Rebuilt(p) /\ Bounded(p) /\ Upwards(p) /\ InTurns(p)

LogInv == LogTypes /\ NoTilesClash /\ \A p \in Patch : Sound(p)

LEMMA SoundHistories == LogTypes => (HistoryRebuildsTiles <=> \A p \in Patch : Sound(p))
  <1> SUFFICES ASSUME LogTypes PROVE HistoryRebuildsTiles <=> \A p \in Patch : Sound(p)
    OBVIOUS
  <1> QED BY DEF HistoryRebuildsTiles, Sound, Rebuilt, Bounded, Upwards, InTurns

LEMMA LogStarts == LogInit => LogInv
  <1> SUFFICES ASSUME LogInit PROVE LogInv
    OBVIOUS
  <1>1. LogTypes
    BY QuiltLogAssumption DEF LogInit, LogTypes
  <1>2. NoTilesClash
    BY DEF LogInit, NoTilesClash
  <1>3. ASSUME NEW p \in Patch PROVE Sound(p)
    <2>1. DOMAIN history[p] = {} /\ placed = {}
      BY SMTT(60) DEF LogInit
    <2> QED BY <2>1 DEF Sound, Rebuilt, Replayed, Bounded, Upwards, InTurns
  <1> QED BY <1>1, <1>2, <1>3 DEF LogInv

\* One entry more.
LEMMA Appended ==
  ASSUME NEW h \in Seq(Entry), NEW e \in Entry
  PROVE  /\ Append(h, e) \in Seq(Entry)
         /\ \E n \in Nat : /\ DOMAIN h = 1 .. n /\ DOMAIN Append(h, e) = 1 .. (n + 1)
                          /\ \A i \in 1 .. n : h[i] \in Entry /\ Append(h, e)[i] = h[i]
                          /\ Append(h, e)[n + 1] = e
  <1>1. Len(h) \in Nat /\ DOMAIN h = 1 .. Len(h)
    OBVIOUS
  <1>2. /\ Append(h, e) \in Seq(Entry)
        /\ DOMAIN Append(h, e) = 1 .. (Len(h) + 1)
        /\ \A i \in 1 .. Len(h) : h[i] \in Entry /\ Append(h, e)[i] = h[i]
        /\ Append(h, e)[Len(h) + 1] = e
    OBVIOUS
  <1> QED BY <1>1, <1>2

LEMMA EntryOf ==
  ASSUME LogTypes, NEW p \in Patch, NEW o \in Operation, NEW kind \in {"placed", "removed"},
         NEW t \in Tile
  PROVE  [seq |-> revision[p] + 1, operation |-> o, kind |-> kind, tile |-> t] \in Entry
  <1>1. revision[p] + 1 \in Nat
    BY DEF LogTypes
  <1> QED BY <1>1 DEF Entry

\* Types survive an operation.
LEMMA AppendTypes ==
  ASSUME LogTypes, NEW F \in SUBSET Patch, NEW o \in Operation, NEW kind \in {"placed", "removed"},
         NEW t \in Tile, Append1(F, o, kind, t), owner' = owner, placed' \subseteq Tile
  PROVE  LogTypes'
  <1>1. revision' \in [Patch -> Nat]
    BY DEF LogTypes, Append1
  <1>2. ASSUME NEW p \in Patch PROVE history'[p] \in Seq(Entry)
    <2> DEFINE e == [seq |-> revision[p] + 1, operation |-> o, kind |-> kind, tile |-> t]
    <2>1. e \in Entry /\ history[p] \in Seq(Entry)
      BY EntryOf DEF LogTypes
    <2>2. history'[p] = Append(history[p], e) \/ history'[p] = history[p]
      BY DEF Append1
    <2> HIDE DEF e
    <2> QED BY <2>1, <2>2, Appended, ZenonT(60)
  <1>3. history' \in [Patch -> Seq(Entry)]
    BY <1>2 DEF Append1
  <1> QED BY <1>1, <1>3 DEF LogTypes

\* An entry for a tile whose last entry is of the other kind, or that has none.
LEMMA AppendSound ==
  ASSUME LogTypes, NEW o \in Operation, NEW kind \in {"placed", "removed"}, NEW t \in Tile,
         NEW p \in Footprint[t], Footprint[t] \subseteq Patch, Append1(Footprint[t], o, kind, t),
         Sound(p), t \in placed <=> kind = "removed",
         placed' = IF kind = "placed" THEN placed \cup {t} ELSE placed \ {t}
  PROVE  Sound(p)'
  <1> DEFINE h == history[p]
             g == history'[p]
             e == [seq |-> revision[p] + 1, operation |-> o, kind |-> kind, tile |-> t]
  <1>0. PICK n \in Nat :
          /\ DOMAIN h = 1 .. n /\ DOMAIN g = 1 .. (n + 1)
          /\ \A i \in 1 .. n : h[i] \in Entry /\ g[i] = h[i]
          /\ g[n + 1] = e
    <2>1. e \in Entry /\ h \in Seq(Entry)
      BY EntryOf DEF LogTypes
    <2>2. g = Append(h, e)
      BY DEF Append1
    <2> HIDE DEF h, g, e
    <2> QED BY <2>1, <2>2, Appended
  <1>1. /\ n \in Nat /\ DOMAIN h = 1 .. n /\ DOMAIN g = 1 .. (n + 1)
        /\ \A i \in 1 .. n : g[i] = h[i]
        /\ g[n + 1].seq = revision[p] + 1 /\ g[n + 1].kind = kind /\ g[n + 1].tile = t
        /\ revision'[p] = revision[p] + 1
    BY <1>0 DEF Append1
  <1>2. \A i \in 1 .. n : h[i] \in Entry
    BY <1>0
  <1>3. revision[p] \in Nat /\ \A i \in 1 .. n : h[i].seq \in Nat /\ h[i].tile \in Tile
    BY <1>2 DEF LogTypes, Entry
  <1> HIDE DEF h, g, e
  <1>4. \A i \in 1 .. n : h[i].seq <= revision[p]
    BY <1>1 DEF Sound, Bounded, h
  <1>4a. \A s \in Tile : s \in placed /\ p \in Footprint[s] <=>
          \E i \in 1 .. n : h[i].tile = s /\ h[i].kind = "placed"
                            /\ \A j \in 1 .. n : j > i => h[j].tile # s
    <2>1. \A s \in Tile : s \in Replayed(p) <=> s \in {u \in placed : p \in Footprint[u]}
      BY DEF Sound, Rebuilt
    <2>2. \A s \in Tile : s \in {u \in placed : p \in Footprint[u]} <=> s \in placed /\ p \in Footprint[s]
      OBVIOUS
    <2>3. \A s \in Tile : s \in Replayed(p) <=>
            \E i \in 1 .. n : h[i].tile = s /\ h[i].kind = "placed"
                              /\ \A j \in 1 .. n : j > i => h[j].tile # s
      BY <1>1 DEF Replayed, h
    <2> QED BY <2>1, <2>2, <2>3
  <1>5. Bounded(p)'
    <2>1. \A i \in 1 .. (n + 1) : g[i].seq <= revision[p] + 1
      BY <1>1, <1>3, <1>4
    <2> QED BY <1>1, <2>1 DEF Bounded, g
  <1>6. Upwards(p)'
    <2>1. \A i, j \in 1 .. n : i < j => h[i].seq < h[j].seq
      BY <1>1 DEF Sound, Upwards, h
    <2>2. \A i, j \in 1 .. (n + 1) : i < j => g[i].seq < g[j].seq
      BY <1>1, <1>3, <1>4, <2>1
    <2> QED BY <1>1, <2>2 DEF Upwards, g
  <1>7. Rebuilt(p)'
    <2>2. \A s \in Tile : s \in placed' /\ p \in Footprint[s] <=>
            \E i \in 1 .. (n + 1) : g[i].tile = s /\ g[i].kind = "placed"
                                    /\ \A j \in 1 .. (n + 1) : j > i => g[j].tile # s
      <3>1. TAKE s \in Tile
      <3>2. CASE s = t
        <4>1. \A i \in 1 .. n : ~\A j \in 1 .. (n + 1) : j > i => g[j].tile # t
          BY <1>1
        <4>2. \A j \in 1 .. (n + 1) : ~(j > n + 1)
          BY <1>1
        <4>3. \A i \in 1 .. (n + 1) : i \in 1 .. n \/ i = n + 1
          BY <1>1
        <4>4. n + 1 \in 1 .. (n + 1)
          BY <1>1
        <4> QED BY <1>1, <3>2, <4>1, <4>2, <4>3, <4>4
      <3>3. CASE s # t
        <4>1. s \in placed' <=> s \in placed
          BY <3>3
        <4>2. \A i \in 1 .. (n + 1) : i \in 1 .. n \/ i = n + 1
          BY <1>1
        <4>3. \A i \in 1 .. n : i \in 1 .. (n + 1)
          BY <1>1
        <4> QED BY <1>1, <1>4a, <3>3, <4>1, <4>2, <4>3
      <3> QED BY <3>2, <3>3
    <2>3. placed' \subseteq Tile
      BY DEF LogTypes
    <2> QED BY <1>1, <2>2, <2>3 DEF Rebuilt, Replayed, g
  <1>8. InTurns(p)'
    <2>1. \A i, j \in 1 .. n :
            (i < j /\ h[i].tile = h[j].tile
             /\ \A k \in (i + 1) .. (j - 1) : h[k].tile # h[i].tile) => h[i].kind # h[j].kind
      BY <1>1 DEF Sound, InTurns, h
    <2>2. ASSUME NEW i \in 1 .. (n + 1), NEW j \in 1 .. (n + 1), i < j, g[i].tile = g[j].tile,
                 \A k \in (i + 1) .. (j - 1) : g[k].tile # g[i].tile
          PROVE  g[i].kind # g[j].kind
      <3>1. i \in 1 .. n /\ g[i] = h[i]
        BY <1>1, <2>2
      <3>2. CASE j \in 1 .. n
        <4>1. \A k \in (i + 1) .. (j - 1) : k \in 1 .. n
          BY <1>1, <3>1, <3>2
        <4> QED BY <1>1, <2>1, <2>2, <3>1, <3>2, <4>1
      <3>3. CASE j = n + 1
        <4>1. h[i].tile = t /\ \A k \in 1 .. n : k > i => h[k].tile # t
          <5>1. \A k \in 1 .. n : k > i => k \in (i + 1) .. (j - 1)
            BY <1>1, <3>1, <3>3
          <5> QED BY <1>1, <2>2, <3>1, <3>3, <5>1
        <4>2. t \in placed <=> \E m \in 1 .. n : h[m].tile = t /\ h[m].kind = "placed"
                                 /\ \A k \in 1 .. n : k > m => h[k].tile # t
          BY <1>4a
        <4>3. h[i].kind = "placed" <=> t \in placed
          <5>1. \A m \in 1 .. n : (h[m].tile = t /\ \A k \in 1 .. n : k > m => h[k].tile # t) => m = i
            <6>1. TAKE m \in 1 .. n
            <6>2. m < i \/ m = i \/ m > i
              BY <1>1, <3>1
            <6> QED BY <3>1, <4>1, <6>2
          <5> QED BY <3>1, <4>1, <4>2, <5>1
        <4> QED BY <1>1, <3>1, <3>3, <4>3
      <3> QED BY <1>1, <3>2, <3>3
    <2> QED BY <1>1, <2>2 DEF InTurns, g
  <1> QED BY <1>5, <1>6, <1>7, <1>8 DEF Sound

\* No operation breaks what the tables promise of each other.
LEMMA LogPreserves == LogInv /\ [LogNext]_logVars => LogInv'
  <1> SUFFICES ASSUME LogInv, [LogNext]_logVars PROVE LogInv'
    OBVIOUS
  <1>1. LogTypes /\ NoTilesClash /\ \A p \in Patch : Sound(p)
    BY DEF LogInv
  <1>2. \A t \in Tile : Footprint[t] \subseteq Patch
    BY QuiltLogAssumption
  <1>3. ASSUME NEW u \in Principal, NEW o \in Operation, NEW t \in Tile, Place(u, o, t) PROVE LogInv'
    <2>1. t \notin placed /\ placed' = placed \cup {t} /\ Append1(Footprint[t], o, "placed", t)
      BY <1>3, QuiltLogAssumption DEF Place
    <2>2. LogTypes'
      BY <1>1, <1>2, <1>3, <2>1, AppendTypes DEF Place, LogTypes
    <2>3. NoTilesClash'
      <3>1. \A s \in placed : {s, t} \notin Clash /\ {t, s} = {s, t}
        BY <1>3 DEF Place
      <3> QED BY <1>1, <2>1, <3>1 DEF NoTilesClash
    <2>4. ASSUME NEW p \in Patch PROVE Sound(p)'
      <3>1. CASE p \in Footprint[t]
        BY <1>1, <1>2, <2>1, <3>1, AppendSound
      <3>2. CASE p \notin Footprint[t]
        <4>1. history'[p] = history[p] /\ revision'[p] = revision[p]
          BY <2>1, <3>2 DEF Append1
        <4>2. Rebuilt(p)'
          BY <1>1, <2>1, <3>2, <4>1 DEF Sound, Rebuilt, Replayed
        <4> QED BY <1>1, <4>1, <4>2 DEF Sound, Bounded, Upwards, InTurns
      <3> QED BY <3>1, <3>2
    <2> QED BY <2>2, <2>3, <2>4 DEF LogInv
  <1>4. ASSUME NEW u \in Principal, NEW o \in Operation, NEW t \in Tile, Remove(u, o, t) PROVE LogInv'
    <2>1. t \in placed /\ placed' = placed \ {t} /\ Append1(Footprint[t], o, "removed", t)
      BY <1>4 DEF Remove
    <2>2. LogTypes'
      BY <1>1, <1>2, <1>4, <2>1, AppendTypes DEF Remove, LogTypes
    <2>3. NoTilesClash'
      BY <1>1, <2>1 DEF NoTilesClash
    <2>4. ASSUME NEW p \in Patch PROVE Sound(p)'
      <3>1. CASE p \in Footprint[t]
        BY <1>1, <1>2, <2>1, <3>1, AppendSound
      <3>2. CASE p \notin Footprint[t]
        <4>1. history'[p] = history[p] /\ revision'[p] = revision[p]
          BY <2>1, <3>2 DEF Append1
        <4>2. Rebuilt(p)'
          BY <1>1, <2>1, <3>2, <4>1 DEF Sound, Rebuilt, Replayed
        <4> QED BY <1>1, <4>1, <4>2 DEF Sound, Bounded, Upwards, InTurns
      <3> QED BY <3>1, <3>2
    <2> QED BY <2>2, <2>3, <2>4 DEF LogInv
  <1>5. ASSUME NEW p \in Patch, NEW u \in Principal, ChangeHands(p, u) PROVE LogInv'
    <2>1. LogTypes'
      BY <1>1, <1>5 DEF ChangeHands, LogTypes
    <2>2. NoTilesClash'
      BY <1>1, <1>5 DEF ChangeHands, NoTilesClash
    <2>3. ASSUME NEW q \in Patch PROVE Sound(q)'
      <3>1. history'[q] = history[q] /\ placed' = placed
        BY <1>5 DEF ChangeHands
      <3>2. revision[q] \in Nat /\ (revision'[q] = revision[q] \/ revision'[q] = revision[q] + 1)
        BY <1>1, <1>5 DEF ChangeHands, LogTypes
      <3>3. \A i \in DOMAIN history[q] : history[q][i].seq \in Nat
        <4>1. history[q] \in Seq(Entry)
          BY <1>1 DEF LogTypes
        <4>2. \A i \in DOMAIN history[q] : history[q][i] \in Entry
          BY <4>1
        <4> QED BY <4>2 DEF Entry
      <3>4. Bounded(q)'
        BY <1>1, <3>1, <3>2, <3>3 DEF Sound, Bounded
      <3>5. Rebuilt(q)'
        BY <1>1, <3>1 DEF Sound, Rebuilt, Replayed
      <3> QED BY <1>1, <3>1, <3>4, <3>5 DEF Sound, Upwards, InTurns
    <2> QED BY <2>1, <2>2, <2>3 DEF LogInv
  <1>6. CASE UNCHANGED logVars
    BY <1>1, <1>6 DEF logVars, LogInv, LogTypes, NoTilesClash, Sound, Rebuilt, Replayed, Bounded,
                      Upwards, InTurns
  <1> QED BY <1>3, <1>4, <1>5, <1>6 DEF LogNext

LEMMA LogInvariant == LogSpec => []LogInv
  <1> QED BY LogStarts, LogPreserves, PTL DEF LogSpec

\* What the atomic operations promise: tiles of the quilt never overlap, and the history of
\* each patch accounts for the tiles in it.
THEOREM LogIsConsistent == LogSpec => [](NoTilesClash /\ HistoryRebuildsTiles)
  <1>1. LogInv => NoTilesClash /\ HistoryRebuildsTiles
    BY SoundHistories DEF LogInv
  <1> QED BY <1>1, LogInvariant, PTL

-----------------------------------------------------------------------------
(* What the transactions know.  A row stands for a value of tx[c]. *)

Row == [step : Step, request : SUBSET Request, todo : SUBSET Patch, locked : SUBSET Patch,
        replay : BOOLEAN]

Holding == {"read", "lock", "check", "commit"}

\* The patches a transaction locks, and an operation id nothing was stored for.
Wanted(r) == IF r.kind = "place" THEN Reach[r.tile] ELSE Footprint[r.tile]
Free(r)   == \A b \in bound : b.operation # r.operation

\* Every patch of the tile has moved beyond what the request expects: it can only be stale.
Overtaken(r) == \A p \in Footprint[r.tile] : expected[r].revisions[p] < revision[p]

\* A transaction past a lookup or a check stays entitled to act on it.
Entitled(x, r) ==
  /\ x.step = "read" => r.kind = "remove"
  /\ x.step = "lock" => /\ x.todo # {} /\ Wanted(r) \subseteq x.locked \cup x.todo
                       /\ \A p \in x.locked, q \in x.todo : p < q
  /\ x.step \in {"check", "commit"} => Wanted(r) \subseteq x.locked
  /\ r.kind = "remove" /\ x.step \in Holding => (x.replay /\ r \in bound) \/ (~x.replay /\ Free(r))
  /\ r.kind = "remove" /\ x.step \in {"lock", "check", "commit"} /\ ~x.replay =>
       r.tile \in placed \/ Overtaken(r)
  /\ x.step = "commit" =>
       /\ Owns(r.actor, r.tile) /\ Free(r)
       /\ r.kind = "place" => \A s \in placed : {s, r.tile} \notin Clash
       /\ r.kind = "remove" => r.tile \in placed

RowInv(x) ==
  /\ x.step \in {"idle", "advisory", "read"} => x.locked = {}
  /\ x.step # "idle" => \E r \in Request : x.request = {r} /\ expected[r].sent /\ Entitled(x, r)

\* Two transactions lock different patches, and different operation ids.
Apart(x, y) ==
  /\ x.locked \cap y.locked = {}
  /\ x.step \in Holding /\ y.step \in Holding =>
       \A r \in x.request, s \in y.request : r.operation # s.operation

\* Nobody expects a revision that is still to come.
Seen ==
  \A r \in Request : expected[r].sent =>
    /\ expected[r].revisions \in [Footprint[r.tile] -> Nat]
    /\ \A p \in Footprint[r.tile] : expected[r].revisions[p] <= revision[p]

\* Every entry of a history belongs to a stored operation.
Stored ==
  \A p \in Patch : \A i \in DOMAIN history[p] : \E b \in bound : b.operation = history[p][i].operation

Tables == LogTypes /\ bound \subseteq Request /\ expected = [r \in Request |-> expected[r]] /\ Seen /\ Stored

Rows(t) ==
  /\ t \in [Tx -> Row]
  /\ \A c \in Tx : RowInv(t[c])
  /\ \A c, d \in Tx : c # d => Apart(t[c], t[d])

IInv == Tables /\ Rows(tx)

LEMMA Requests ==
  /\ \A r \in Request : /\ r.operation \in Operation /\ r.kind \in {"place", "remove"}
                        /\ r.actor \in Principal /\ r.tile \in Tile
  /\ \A t \in Tile : /\ Footprint[t] \subseteq Patch /\ Footprint[t] # {}
                     /\ Reach[t] \subseteq Patch /\ Footprint[t] \subseteq Reach[t]
  <1> QED BY QuiltLogAssumption, QuiltMutationAssumption

LEMMA Starts == Init => IInv
  <1> SUFFICES ASSUME Init PROVE IInv
    OBVIOUS
  <1>1. LogTypes
    BY LogStarts DEF Init, LogInv
  <1>2. Idle \in Row
    BY DEF Idle, Row, Step
  <1>3. Idle.step = "idle" /\ Idle.locked = {}
    BY DEF Idle
  <1>4. tx = [c \in Tx |-> Idle]
    BY DEF Init
  <1> HIDE DEF Idle
  <1>5. Rows(tx)
    BY <1>2, <1>3, <1>4, Zenon DEF Rows, RowInv, Apart, Holding
  <1>6. Stored
    BY DEF Init, LogInit, Stored
  <1>7. Seen /\ expected = [r \in Request |-> expected[r]]
    BY DEF Init, Seen, Unsent
  <1> QED BY <1>1, <1>5, <1>6, <1>7 DEF IInv, Tables, Init

\* One transaction's row changes.
LEMMA OneRow ==
  ASSUME IInv, NEW c \in Tx, NEW x \in Row, tx' = [tx EXCEPT ![c] = x],
         Tables', RowInv(x)', \A d \in Tx \ {c} : RowInv(tx[d]) => (\A y \in {tx[d]} : RowInv(y)'),
         \A d \in Tx \ {c} : Apart(x, tx[d])
  PROVE  IInv'
  <1>1. tx' \in [Tx -> Row] /\ tx'[c] = x /\ \A d \in Tx \ {c} : tx'[d] = tx[d]
    BY DEF IInv, Rows
  <1>2. \A d \in Tx : RowInv(tx[d])'
    BY <1>1 DEF IInv, Rows
  <1>3. \A y, z : Apart(y, z) => Apart(z, y)
    BY DEF Apart
  <1>4. ASSUME NEW d \in Tx, NEW e \in Tx, d # e PROVE Apart(tx'[d], tx'[e])
    BY <1>1, <1>3, <1>4 DEF IInv, Rows
  <1>5. \A d, e \in Tx : d # e => Apart(tx'[d], tx'[e])
    BY <1>4
  <1> QED BY <1>1, <1>2, <1>5 DEF IInv, Rows, Apart

\* A transaction moves, and the tables stay.
LEMMA Moves ==
  ASSUME IInv, NEW c \in Tx, NEW x \in Row, tx' = [tx EXCEPT ![c] = x],
         UNCHANGED <<owner, revision, history, placed, expected, bound>>,
         RowInv(x), \A d \in Tx \ {c} : Apart(x, tx[d])
  PROVE  IInv'
  <1>1. Tables'
    BY DEF IInv, Tables, LogTypes, Seen, Stored
  <1>2. \A y : RowInv(y) => RowInv(y)'
    <2>1. \A r : /\ Free(r)' <=> Free(r)
                 /\ Overtaken(r)' <=> Overtaken(r)
                 /\ Owns(r.actor, r.tile)' <=> Owns(r.actor, r.tile)
                 /\ Wanted(r)' = Wanted(r)
      BY DEF Free, Overtaken, Owns, Wanted
    <2>2. ASSUME NEW y, NEW r, Entitled(y, r) PROVE Entitled(y, r)'
      BY <2>1, <2>2 DEF Entitled
    <2> QED BY <2>2, Zenon DEF RowInv
  <1> QED BY <1>1, <1>2, OneRow

LEMMA Rest ==
  ASSUME IInv
  PROVE  /\ Idle \in Row /\ Idle.step = "idle" /\ Idle.locked = {} /\ RowInv(Idle)
         /\ \A d \in Tx : Apart(Idle, tx[d])
  <1>1. Idle \in Row /\ Idle.step = "idle" /\ Idle.locked = {}
    BY DEF Idle, Row, Step
  <1> HIDE DEF Idle
  <1> QED BY <1>1, Zenon DEF RowInv, Apart, Holding

LEMMA Ends ==
  ASSUME IInv, NEW c \in Tx, tx' = [tx EXCEPT ![c] = Idle],
         UNCHANGED <<owner, revision, history, placed, expected, bound>>
  PROVE  IInv'
  <1> HIDE DEF Idle
  <1> QED BY Rest, Moves

\* The row of a transaction, field by field, and what assignments to its fields make of it.
Fields(y, x, s, T, L, b) ==
  y = [step |-> s, request |-> x.request, todo |-> T, locked |-> L, replay |-> b]

LEMMA FieldsOf ==
  ASSUME NEW x \in Row, NEW s \in Step, NEW T \in SUBSET Patch, NEW L \in SUBSET Patch, NEW b \in BOOLEAN,
         NEW y, Fields(y, x, s, T, L, b)
  PROVE  /\ y \in Row /\ y.step = s /\ y.request = x.request
         /\ y.todo = T /\ y.locked = L /\ y.replay = b
  <1>1. x.request \in SUBSET Request
    BY DEF Row
  <1> QED BY <1>1 DEF Fields, Row

LEMMA OwnFields ==
  ASSUME NEW x \in Row
  PROVE  /\ Fields(x, x, x.step, x.todo, x.locked, x.replay)
         /\ x.todo \in SUBSET Patch /\ x.locked \in SUBSET Patch /\ x.replay \in BOOLEAN
         /\ x.step \in Step
  <1> QED BY DEF Row, Fields

LEMMA Assigned ==
  ASSUME NEW x, NEW y, NEW s, NEW T, NEW L, NEW b, NEW e, Fields(y, x, s, T, L, b)
  PROVE  /\ Fields([y EXCEPT !.step = e], x, e, T, L, b)
         /\ Fields([y EXCEPT !.todo = e], x, s, e, L, b)
         /\ Fields([y EXCEPT !.locked = e], x, s, T, e, b)
         /\ Fields([y EXCEPT !.replay = e], x, s, T, L, e)
  <1> QED BY DEF Fields

LEMMA SetStep ==
  ASSUME NEW x \in Row, NEW s \in Step
  PROVE  Fields([x EXCEPT !.step = s], x, s, x.todo, x.locked, x.replay)
  <1> QED BY OwnFields, Assigned

LEMMA SetReplay ==
  ASSUME NEW x \in Row, NEW s \in Step, NEW b \in BOOLEAN
  PROVE  Fields([[x EXCEPT !.step = s] EXCEPT !.replay = b], x, s, x.todo, x.locked, b)
  <1> DEFINE y == [x EXCEPT !.step = s]
  <1>1. Fields(y, x, s, x.todo, x.locked, x.replay)
    BY SetStep
  <1> HIDE DEF y
  <1>2. Fields([y EXCEPT !.replay = b], x, s, x.todo, x.locked, b)
    BY <1>1, Assigned
  <1> QED BY <1>2 DEF y

LEMMA SetTodo ==
  ASSUME NEW x \in Row, NEW s \in Step, NEW T \in SUBSET Patch
  PROVE  Fields([[x EXCEPT !.step = s] EXCEPT !.todo = T], x, s, T, x.locked, x.replay)
  <1> DEFINE y == [x EXCEPT !.step = s]
  <1>1. Fields(y, x, s, x.todo, x.locked, x.replay)
    BY SetStep
  <1> HIDE DEF y
  <1>2. Fields([y EXCEPT !.todo = T], x, s, T, x.locked, x.replay)
    BY <1>1, Assigned
  <1> QED BY <1>2 DEF y

LEMMA SetLocks ==
  ASSUME NEW x \in Row, NEW s \in Step, NEW T \in SUBSET Patch, NEW L \in SUBSET Patch
  PROVE  Fields([[[x EXCEPT !.locked = L] EXCEPT !.todo = T] EXCEPT !.step = s], x, s, T, L, x.replay)
  <1> DEFINE y == [x EXCEPT !.locked = L]
             z == [y EXCEPT !.todo = T]
  <1>1. Fields(y, x, x.step, x.todo, L, x.replay)
    BY OwnFields, Assigned
  <1> HIDE DEF y
  <1>2. Fields(z, x, x.step, T, L, x.replay)
    BY <1>1, Assigned
  <1> HIDE DEF z
  <1>3. Fields([z EXCEPT !.step = s], x, s, T, L, x.replay)
    BY <1>2, Assigned
  <1> QED BY <1>3 DEF y, z

\* The request of a transaction that is not idle.
LEMMA InHand ==
  ASSUME IInv, NEW c \in Tx, tx[c].step # "idle"
  PROVE  /\ tx[c] \in Row /\ Req(c) \in Request /\ tx[c].request = {Req(c)}
         /\ expected[Req(c)].sent /\ Entitled(tx[c], Req(c))
  <1>1. PICK r \in Request : tx[c].request = {r} /\ expected[r].sent /\ Entitled(tx[c], r)
    BY DEF IInv, Rows, RowInv
  <1>2. Req(c) = r
    BY <1>1 DEF Req
  <1> QED BY <1>1, <1>2 DEF IInv, Rows

\* A request is sent: others know nothing of it, and it is entitled to nothing yet.
LEMMA Sent ==
  ASSUME IInv, NEW c \in Tx, NEW r \in Request, Send(c, r) PROVE IInv'
  <1> DEFINE x == [Idle EXCEPT !.step = "advisory", !.request = {r}]
  <1>1. /\ x \in Row /\ x.step = "advisory" /\ x.request = {r} /\ x.locked = {}
        /\ tx' = [tx EXCEPT ![c] = x]
    BY DEF Send, Idle, Row, Step
  <1>2. UNCHANGED <<owner, revision, history, placed, bound>> /\ tx[c].step = "idle"
    BY DEF Send
  <1> HIDE DEF x
  <1>3. /\ expected' = [q \in Request |-> expected'[q]]
        /\ \A q \in Request : expected[q].sent => expected'[q] = expected[q]
        /\ expected'[r].sent
        /\ Seen'
    <2>1. expected = [q \in Request |-> expected[q]] /\ Seen /\ revision \in [Patch -> Nat]
      BY DEF IInv, Tables, LogTypes
    <2>2. CASE expected[r].sent /\ UNCHANGED expected
      BY <1>2, <2>1, <2>2 DEF Seen
    <2>3. CASE ~expected[r].sent /\ \E e \in Expectations(r.tile) :
                 expected' = [expected EXCEPT ![r] = [sent |-> TRUE, revisions |-> e]]
      <3>1. PICK e \in Expectations(r.tile) :
              expected' = [expected EXCEPT ![r] = [sent |-> TRUE, revisions |-> e]]
        BY <2>3
      <3>2. e \in [Footprint[r.tile] -> Nat] /\ \A p \in Footprint[r.tile] : e[p] <= revision[p]
        <4>1. \A n \in UNION {0 .. revision[p] : p \in Patch} : n \in Nat
          BY <2>1
        <4> QED BY <3>1, <4>1 DEF Expectations
      <3>3. /\ expected'[r].sent /\ expected'[r].revisions = e
            /\ \A q \in Request \ {r} : expected'[q] = expected[q]
            /\ expected' = [q \in Request |-> expected'[q]]
        BY <2>1, <3>1
      <3> QED BY <1>2, <2>1, <2>3, <3>2, <3>3 DEF Seen
    <2> QED BY <2>2, <2>3 DEF Send
  <1>4. Tables'
    BY <1>2, <1>3 DEF IInv, Tables, LogTypes, Stored
  <1>5. RowInv(x)'
    <2>1. Entitled(x, r)'
      BY <1>1, Zenon DEF Entitled, Holding
    <2> QED BY <1>1, <1>3, <2>1, Zenon DEF RowInv
  <1>6. ASSUME NEW d \in Tx \ {c}, RowInv(tx[d]), NEW y \in {tx[d]} PROVE RowInv(y)'
    <2>1. \A q : /\ Free(q)' <=> Free(q)
                 /\ Owns(q.actor, q.tile)' <=> Owns(q.actor, q.tile)
                 /\ Wanted(q)' = Wanted(q)
      BY <1>2 DEF Free, Owns, Wanted
    <2>2. \A q \in Request : expected[q].sent => (Overtaken(q)' <=> Overtaken(q))
      BY <1>2, <1>3 DEF Overtaken
    <2>3. \A q \in Request : expected[q].sent /\ Entitled(y, q) => Entitled(y, q)'
      BY <1>2, <2>1, <2>2, Zenon DEF Entitled
    <2> QED BY <1>3, <1>6, <2>3, Zenon DEF RowInv
  <1>7. \A d \in Tx : Apart(x, tx[d])
    BY <1>1 DEF Apart, Holding
  <1> QED BY <1>1, <1>4, <1>5, <1>6, <1>7, OneRow

\* Of several numbers there is a lowest, and of several patches.
LEMMA Least ==
  ASSUME NEW S \in SUBSET Nat, S # {}
  PROVE  \E m \in S : \A q \in S : m <= q
  <1> DEFINE R == OpToRel(<, Nat)
  <1>1. IsWellFoundedOn(R, Nat)
    BY NatLessThanWellFounded
  <1>2. \A q, p \in Nat : <<q, p>> \in R <=> q < p
    BY DEF OpToRel
  <1> HIDE DEF R
  <1>3. PICK p \in S : \A q \in S : ~(<<q, p>> \in R)
    BY <1>1, WFMin
  <1>4. \A q \in S : q \in Nat /\ p \in Nat /\ ~(q < p)
    BY <1>2, <1>3
  <1> QED BY <1>4

LEMMA Lowest ==
  ASSUME NEW S \in SUBSET Patch, S # {}
  PROVE  LowestPatch(S) \in S /\ \A q \in S : LowestPatch(S) <= q
  <1>1. \E m \in S : \A q \in S : m <= q
    BY Least, QuiltMutationAssumption
  <1> QED BY <1>1 DEF LowestPatch

\* The operation id: a transaction takes it when nobody else holds it.
LEMMA Locked ==
  ASSUME IInv, NEW c \in Tx, LockOperation(c) PROVE IInv'
  <1> DEFINE r == Req(c)
             x == tx[c]
  <1>1. x.step = "advisory" /\ x \in Row /\ r \in Request /\ x.request = {r} /\ expected[r].sent
    BY InHand DEF LockOperation
  <1>2. x.locked = {}
    BY <1>1 DEF IInv, Rows, RowInv
  <1>3. UNCHANGED <<owner, revision, history, placed, expected, bound>>
    BY DEF LockOperation
  <1>4. \A d \in Tx \ {c} : tx[d].step \in Holding => \A q \in tx[d].request : q.operation # r.operation
    <2>1. SUFFICES ASSUME NEW d \in Tx \ {c}, tx[d].step \in Holding, NEW q \in tx[d].request
                   PROVE  q.operation # r.operation
      OBVIOUS
    <2>2. tx[d].request = {Req(d)} /\ q = Req(d)
      BY <2>1, InHand DEF Holding
    <2>3. ~HoldsOperation(d, r.operation)
      BY <1>1 DEF LockOperation, Granted, BlockedBy
    <2> QED BY <2>1, <2>2, <2>3 DEF HoldsOperation, Holding
  <1>5. CASE \E outcome \in {"unavailable"} : Answer(c, outcome)
    BY <1>3, <1>5, Ends DEF Answer
  <1>6. CASE r.kind = "remove" /\ ~Misuses(c) /\ tx' = [tx EXCEPT ![c].step = "read", ![c].replay = Replays(c)]
    <2> DEFINE b == Replays(c)
               y == [[x EXCEPT !.step = "read"] EXCEPT !.replay = b]
    <2>1. b \in BOOLEAN /\ "read" \in Step
      BY DEF Replays, Step
    <2>2. tx' = [tx EXCEPT ![c] = y]
      BY <1>6, Zenon
    <2> HIDE DEF b
    <2>3. Fields(y, x, "read", x.todo, x.locked, b)
      BY <1>1, <2>1, SetReplay
    <2> HIDE DEF y
    <2>4. /\ y \in Row /\ y.step = "read" /\ y.request = {r} /\ y.locked = {} /\ y.replay = b
      BY <1>1, <1>2, <2>1, <2>3, OwnFields, FieldsOf
    <2>5. (b /\ r \in bound) \/ (~b /\ Free(r))
      BY <1>6 DEF b, Replays, Misuses, Free
    <2>6. Entitled(y, r)
      BY <1>6, <2>4, <2>5, Zenon DEF Entitled
    <2>7. RowInv(y)
      BY <1>1, <2>4, <2>6, Zenon DEF RowInv
    <2>8. \A d \in Tx \ {c} : Apart(y, tx[d])
      BY <1>4, <2>4 DEF Apart
    <2> QED BY <1>3, <2>2, <2>4, <2>7, <2>8, Moves
  <1>7. CASE r.kind = "place" /\ tx' = [tx EXCEPT ![c].step = "lock", ![c].todo = LockSet(r.tile)]
    <2> DEFINE T == LockSet(r.tile)
               y == [[x EXCEPT !.step = "lock"] EXCEPT !.todo = T]
    <2>1. T \in SUBSET Patch /\ T # {} /\ T = Wanted(r) /\ "lock" \in Step
      BY <1>1, <1>7, Requests DEF LockSet, Wanted, Step
    <2>2. tx' = [tx EXCEPT ![c] = y]
      BY <1>7, Zenon
    <2> HIDE DEF T
    <2>3. Fields(y, x, "lock", T, x.locked, x.replay)
      BY <1>1, <2>1, SetTodo
    <2> HIDE DEF y
    <2>4. y \in Row /\ y.step = "lock" /\ y.request = {r} /\ y.locked = {} /\ y.todo = T
      BY <1>1, <1>2, <2>1, <2>3, OwnFields, FieldsOf
    <2>5. Entitled(y, r)
      BY <1>7, <2>1, <2>4 DEF Entitled
    <2>6. RowInv(y)
      BY <1>1, <2>4, <2>5, Zenon DEF RowInv
    <2>7. \A d \in Tx \ {c} : Apart(y, tx[d])
      BY <1>4, <2>4 DEF Apart
    <2> QED BY <1>3, <2>2, <2>4, <2>6, <2>7, Moves
  <1> QED BY <1>5, <1>6, <1>7 DEF LockOperation

\* A removal that found its tile; from now on the tile goes only if its patches move.
LEMMA Found ==
  ASSUME IInv, NEW c \in Tx, ReadTile(c) PROVE IInv'
  <1> DEFINE r == Req(c)
             x == tx[c]
             T == Footprint[r.tile]
             y == [[x EXCEPT !.step = "lock"] EXCEPT !.todo = T]
  <1>1. /\ x.step = "read" /\ x \in Row /\ r \in Request /\ x.request = {r} /\ expected[r].sent
        /\ Entitled(x, r)
    BY InHand DEF ReadTile
  <1>2. x.locked = {} /\ \A d \in Tx \ {c} : Apart(x, tx[d])
    BY <1>1 DEF IInv, Rows, RowInv
  <1>3. UNCHANGED <<owner, revision, history, placed, expected, bound>>
    BY DEF ReadTile
  <1>4. r.kind = "remove" /\ ((x.replay /\ r \in bound) \/ (~x.replay /\ Free(r)))
    BY <1>1, Zenon DEF Entitled, Holding
  <1>5. CASE Answer(c, "unavailable")
    BY <1>3, <1>5, Ends DEF Answer
  <1>6. CASE /\ r.tile \in placed \/ x.replay
             /\ tx' = [tx EXCEPT ![c].step = "lock", ![c].todo = Footprint[r.tile]]
    <2>1. T \in SUBSET Patch /\ T # {} /\ T = Wanted(r) /\ "lock" \in Step
      BY <1>1, <1>4, Requests DEF Wanted, Step
    <2>2. tx' = [tx EXCEPT ![c] = y]
      BY <1>6, Zenon
    <2> HIDE DEF T
    <2>3. Fields(y, x, "lock", T, x.locked, x.replay)
      BY <1>1, <2>1, SetTodo
    <2> HIDE DEF y
    <2>4. /\ y \in Row /\ y.step = "lock" /\ y.request = {r} /\ y.locked = {} /\ y.todo = T
          /\ y.replay = x.replay
      BY <1>1, <1>2, <2>1, <2>3, OwnFields, FieldsOf
    <2>5. Entitled(y, r)
      BY <1>4, <1>6, <2>1, <2>4 DEF Entitled
    <2>6. RowInv(y)
      BY <1>1, <2>4, <2>5, Zenon DEF RowInv
    <2>7. \A d \in Tx \ {c} : Apart(y, tx[d])
      BY <1>1, <1>2, <2>4 DEF Apart, Holding
    <2> QED BY <1>3, <2>2, <2>4, <2>6, <2>7, Moves
  <1> QED BY <1>5, <1>6 DEF ReadTile

LEMMA Others ==
  ASSUME IInv, NEW c \in Tx
  PROVE  tx[c] \in Row /\ RowInv(tx[c]) /\ \A d \in Tx \ {c} : Apart(tx[c], tx[d])
  <1> QED BY DEF IInv, Rows

\* Patch after patch is locked, and none that another transaction has locked.
LEMMA PatchLocked ==
  ASSUME IInv, NEW c \in Tx, LockPatch(c) PROVE IInv'
  <1> DEFINE r == Req(c)
             x == tx[c]
             p == NextPatch(c)
             T == x.todo \ {p}
             L == x.locked \cup {p}
             s == IF x.todo = {p} THEN "check" ELSE x.step
             y == [[[x EXCEPT !.locked = L] EXCEPT !.todo = T] EXCEPT !.step = s]
  <1>1. /\ x.step = "lock" /\ x \in Row /\ r \in Request /\ x.request = {r} /\ expected[r].sent
        /\ Entitled(x, r)
    BY InHand DEF LockPatch
  <1>2. x.todo # {} /\ Wanted(r) \subseteq x.locked \cup x.todo
    BY <1>1, Zenon DEF Entitled
  <1>3. p \in x.todo /\ p \in Patch /\ \A q \in x.todo : p <= q
    BY <1>1, <1>2, Lowest, OwnFields DEF NextPatch
  <1>4. UNCHANGED <<owner, revision, history, placed, expected, bound>>
    BY DEF LockPatch
  <1>5. tx' = [tx EXCEPT ![c] = y]
    BY DEF LockPatch
  <1>6. \A d \in Tx \ {c} : p \notin tx[d].locked
    BY <1>1 DEF LockPatch, Granted, BlockedBy
  <1> HIDE DEF p
  <1>7. T \in SUBSET Patch /\ L \in SUBSET Patch /\ s \in Step /\ s \in {"lock", "check"} /\ x.replay \in BOOLEAN
    BY <1>1, <1>3, OwnFields DEF Step
  <1>8. /\ s = "lock" => T # {} /\ Wanted(r) \subseteq L \cup T
        /\ s = "check" => Wanted(r) \subseteq L
        /\ \A k \in L, q \in T : k < q
    <2>1. \A k \in x.locked, q \in x.todo : k < q
      BY <1>1 DEF Entitled
    <2>2. \A q \in x.todo : q \in Nat /\ p \in Nat
      BY <1>1, <1>3, OwnFields, QuiltMutationAssumption
    <2> QED BY <1>1, <1>2, <1>3, <2>1, <2>2
  <1>9. \A d \in Tx \ {c} : L \cap tx[d].locked = {}
    BY <1>6, Others DEF Apart
  <1> HIDE DEF T, L, s
  <1>10. Fields(y, x, s, T, L, x.replay)
    BY <1>1, <1>7, SetLocks
  <1> HIDE DEF y
  <1>11. /\ y \in Row /\ y.step = s /\ y.request = {r} /\ y.locked = L /\ y.todo = T
         /\ y.replay = x.replay
    BY <1>1, <1>7, <1>10, FieldsOf
  <1>12. Entitled(y, r)
    BY <1>1, <1>7, <1>8, <1>11 DEF Entitled, Holding
  <1>13. RowInv(y)
    BY <1>1, <1>7, <1>11, <1>12 DEF RowInv
  <1>14. \A d \in Tx \ {c} : Apart(y, tx[d])
    BY <1>1, <1>9, <1>11, Others DEF Apart, Holding
  <1> QED BY <1>4, <1>5, <1>11, <1>13, <1>14, Moves

\* A transaction that passed the checks.
LEMMA Checked ==
  ASSUME IInv, NEW c \in Tx, Check(c) PROVE IInv'
  <1> DEFINE r == Req(c)
             x == tx[c]
             y == [x EXCEPT !.step = "commit"]
  <1>1. /\ x.step = "check" /\ x \in Row /\ r \in Request /\ x.request = {r} /\ expected[r].sent
        /\ Entitled(x, r)
    BY InHand DEF Check
  <1>2. UNCHANGED <<owner, revision, history, placed, expected, bound>>
    BY DEF Check
  <1>3. CASE \E outcome : Answer(c, outcome)
    BY <1>2, <1>3, Ends DEF Answer
  <1>4. CASE /\ Authorized(c) /\ ~IsReplay(c) /\ ~IsMisuse(c) /\ RevisionsCurrent(c)
             /\ r.kind = "place" => ~Collides(c)
             /\ tx' = [tx EXCEPT ![c].step = "commit"]
    <2>1. tx' = [tx EXCEPT ![c] = y]
      BY <1>4, Zenon
    <2>2. Fields(y, x, "commit", x.todo, x.locked, x.replay)
      BY <1>1, SetStep DEF Step
    <2> HIDE DEF y
    <2>3. /\ y \in Row /\ y.step = "commit" /\ y.request = {r} /\ y.locked = x.locked
          /\ y.replay = x.replay
      BY <1>1, <2>2, OwnFields, FieldsOf DEF Step
    <2>4. Wanted(r) \subseteq x.locked /\ Owns(r.actor, r.tile) /\ r.kind \in {"place", "remove"}
      BY <1>1, <1>4, Requests DEF Entitled, Authorized
    <2>5. Free(r)
      <3>1. CASE r.kind = "place"
        BY <1>4, <3>1 DEF IsReplay, IsMisuse, Replays, Misuses, Free
      <3>2. CASE r.kind = "remove"
        BY <1>1, <1>4, <3>2 DEF IsReplay, Entitled, Holding
      <3> QED BY <2>4, <3>1, <3>2
    <2>6. ASSUME r.kind = "place", NEW s \in placed PROVE {s, r.tile} \notin Clash
      <3>1. s \in Tile /\ r.tile \in Tile
        BY <1>1, Requests DEF IInv, Tables, LogTypes
      <3>2. SUFFICES ASSUME {s, r.tile} \in Clash PROVE FALSE
        OBVIOUS
      <3>3. Footprint[s] \cap Reach[r.tile] # {} /\ Reach[r.tile] \subseteq x.locked
        BY <2>4, <2>6, <3>1, <3>2, QuiltMutationAssumption DEF Wanted
      <3>4. s \in Nearby(c)
        BY <3>3 DEF Nearby
      <3> QED BY <1>4, <2>6, <3>2, <3>4 DEF Collides
    <2>7. r.kind = "remove" => ~x.replay /\ r.tile \in placed
      <3>1. SUFFICES ASSUME r.kind = "remove" PROVE ~x.replay /\ r.tile \in placed
        OBVIOUS
      <3>2. ~x.replay /\ (r.tile \in placed \/ Overtaken(r))
        BY <1>1, <1>4, <3>1 DEF IsReplay, Entitled
      <3>3. PICK p \in Footprint[r.tile] : TRUE
        BY <1>1, Requests
      <3>4. p \in Patch /\ revision[p] \in Nat /\ expected[r].revisions[p] = revision[p]
        BY <1>1, <1>4, Requests DEF RevisionsCurrent, IInv, Tables, LogTypes
      <3>5. ~Overtaken(r)
        BY <3>4 DEF Overtaken
      <3> QED BY <3>2, <3>5
    <2>8. Entitled(y, r)
      BY <2>3, <2>4, <2>5, <2>6, <2>7 DEF Entitled, Holding
    <2>9. RowInv(y)
      BY <1>1, <2>3, <2>8 DEF RowInv
    <2>10. \A d \in Tx \ {c} : Apart(y, tx[d])
      BY <1>1, <2>3, Others DEF Apart, Holding
    <2> QED BY <1>2, <2>1, <2>3, <2>9, <2>10, Moves
  <1> QED BY <1>3, <1>4 DEF Check

\* A commit is the atomic operation of its request.
LEMMA CommitIsAtomic ==
  ASSUME IInv, NEW c \in Tx, Commit(c)
  PROVE  LET r == Req(c) IN
           \/ r.kind = "place" /\ Place(r.actor, r.operation, r.tile)
           \/ r.kind = "remove" /\ Remove(r.actor, r.operation, r.tile)
  <1> DEFINE r == Req(c)
  <1>1. tx[c].step = "commit" /\ r \in Request /\ Entitled(tx[c], r)
    BY InHand DEF Commit
  <1>2. Owns(r.actor, r.tile) /\ Free(r)
    BY <1>1 DEF Entitled
  <1>3. Unused(r.operation)
    BY <1>2 DEF IInv, Tables, Stored, Free, Unused
  <1>4. owner' = owner
    BY DEF Commit
  <1>5. CASE r.kind = "place"
    <2>1. \A s \in placed : {s, r.tile} \notin Clash
      BY <1>1, <1>5 DEF Entitled
    <2>2. placed' = placed \cup {r.tile} /\ Append1(Footprint[r.tile], r.operation, "placed", r.tile)
      BY <1>5 DEF Commit
    <2> QED BY <1>2, <1>3, <1>4, <1>5, <2>1, <2>2 DEF Place
  <1>6. CASE r.kind = "remove"
    <2>1. r.tile \in placed
      BY <1>1, <1>6 DEF Entitled
    <2>2. placed' = placed \ {r.tile} /\ Append1(Footprint[r.tile], r.operation, "removed", r.tile)
      BY <1>6 DEF Commit
    <2> QED BY <1>2, <1>3, <1>4, <1>6, <2>1, <2>2 DEF Remove
  <1>7. r.kind \in {"place", "remove"}
    BY <1>1, Requests
  <1> QED BY <1>5, <1>6, <1>7

\* Revisions grow, and with them what was overtaken stays overtaken.
LEMMA Growing ==
  ASSUME IInv, LogTypes', expected' = expected, \A p \in Patch : revision[p] <= revision'[p]
  PROVE  Seen' /\ \A r \in Request : expected[r].sent /\ Overtaken(r) => Overtaken(r)'
  <1>1. \A p \in Patch : revision[p] \in Nat /\ revision'[p] \in Nat
    BY DEF IInv, Tables, LogTypes
  <1>2. \A r \in Request : Footprint[r.tile] \subseteq Patch
    BY Requests
  <1>3. ASSUME NEW r \in Request, expected[r].sent, NEW p \in Footprint[r.tile]
        PROVE  /\ expected[r].revisions[p] <= revision'[p]
               /\ expected[r].revisions[p] < revision[p] => expected[r].revisions[p] < revision'[p]
    <2>1. expected[r].revisions[p] \in Nat /\ expected[r].revisions[p] <= revision[p] /\ p \in Patch
      BY <1>2, <1>3 DEF IInv, Tables, Seen
    <2> QED BY <1>1, <2>1
  <1>4. Seen'
    BY <1>3 DEF IInv, Tables, Seen
  <1>5. \A r \in Request : expected[r].sent /\ Overtaken(r) => Overtaken(r)'
    BY <1>3 DEF Overtaken
  <1> QED BY <1>4, <1>5

LEMMA Committed ==
  ASSUME IInv, NEW c \in Tx, Commit(c) PROVE IInv'
  <1> DEFINE r == Req(c)
             F == Footprint[r.tile]
             kind == IF r.kind = "place" THEN "placed" ELSE "removed"
  <1>1. /\ tx[c].step = "commit" /\ r \in Request /\ tx[c].request = {r} /\ expected[r].sent
        /\ Entitled(tx[c], r)
    BY InHand DEF Commit
  <1>2. /\ r.operation \in Operation /\ r.tile \in Tile /\ r.kind \in {"place", "remove"}
        /\ F \subseteq Patch /\ F # {}
    BY <1>1, Requests
  <1>3. /\ Append1(F, r.operation, kind, r.tile) /\ kind \in {"placed", "removed"}
        /\ placed' = (IF r.kind = "place" THEN placed \cup {r.tile} ELSE placed \ {r.tile})
        /\ bound' = bound \cup {r} /\ owner' = owner /\ expected' = expected
        /\ tx' = [tx EXCEPT ![c] = Idle]
    BY <1>2 DEF Commit, Answer
  <1>4. LogTypes /\ placed' \subseteq Tile
    BY <1>2, <1>3 DEF IInv, Tables, LogTypes
  <1>5. LogTypes'
    BY <1>2, <1>3, <1>4, AppendTypes
  <1>6. /\ \A p \in F : revision'[p] = revision[p] + 1
        /\ \A p \in Patch : revision[p] \in Nat /\ revision[p] <= revision'[p]
    BY <1>2, <1>3, <1>4 DEF Append1, LogTypes
  <1>7. Seen' /\ \A q \in Request : expected[q].sent /\ Overtaken(q) => Overtaken(q)'
    BY <1>3, <1>5, <1>6, Growing
  <1>8. Stored'
    <2>1. ASSUME NEW p \in Patch, NEW i \in DOMAIN history'[p]
          PROVE  \E b \in bound' : b.operation = history'[p][i].operation
      <3>1. CASE p \notin F
        <4>1. history'[p] = history[p]
          BY <1>3, <3>1 DEF Append1
        <4> QED BY <1>3, <2>1, <4>1 DEF IInv, Tables, Stored
      <3>2. CASE p \in F
        <4> DEFINE e == [seq |-> revision[p] + 1, operation |-> r.operation, kind |-> kind, tile |-> r.tile]
        <4>1. e \in Entry /\ history[p] \in Seq(Entry) /\ e.operation = r.operation
          BY <1>2, <1>3, <1>4, EntryOf DEF LogTypes
        <4>2. history'[p] = Append(history[p], e)
          BY <1>3, <3>2 DEF Append1
        <4> HIDE DEF e
        <4>3. history'[p][i] = e \/ (i \in DOMAIN history[p] /\ history'[p][i] = history[p][i])
          <5>1. PICK n \in Nat : /\ DOMAIN history[p] = 1 .. n /\ DOMAIN history'[p] = 1 .. (n + 1)
                                 /\ \A k \in 1 .. n : history'[p][k] = history[p][k]
                                 /\ history'[p][n + 1] = e
            BY <4>1, <4>2, Appended
          <5> QED BY <2>1, <5>1
        <4> QED BY <1>3, <4>1, <4>3 DEF IInv, Tables, Stored
      <3> QED BY <3>1, <3>2
    <2> QED BY <2>1 DEF Stored
  <1>9. Tables'
    BY <1>1, <1>3, <1>5, <1>7, <1>8 DEF IInv, Tables
  <1>10. Wanted(r) \subseteq tx[c].locked /\ F \subseteq Wanted(r)
    BY <1>1, <1>2, Requests DEF Entitled, Wanted
  <1>11. ASSUME NEW d \in Tx \ {c}, RowInv(tx[d]), NEW y \in {tx[d]} PROVE RowInv(y)'
    <2>1. CASE y.step = "idle"
      BY <1>11, <2>1 DEF RowInv
    <2>2. CASE y.step # "idle"
      <3>0. PICK q \in Request : y.request = {q} /\ expected[q].sent /\ Entitled(y, q)
        BY <1>11, <2>2 DEF RowInv
      <3>1. /\ y \in Row /\ q \in Request /\ y.request = {q} /\ expected[q].sent
            /\ Entitled(y, q) /\ Apart(tx[c], y)
        BY <1>11, <3>0, Others
      <3>2. /\ q.tile \in Tile /\ q.kind \in {"place", "remove"}
            /\ Footprint[q.tile] \subseteq Wanted(q) /\ Footprint[q.tile] # {}
        BY <3>1, Requests DEF Wanted
      <3>3. y.step \in Holding /\ Free(q) => Free(q)'
        BY <1>1, <1>3, <3>1 DEF Apart, Free, Holding
      <3>4. Wanted(q) \subseteq y.locked => Footprint[r.tile] \cap Wanted(q) = {}
        BY <1>10, <3>1 DEF Apart
      <3>5. q.tile \in placed \/ Overtaken(q) => q.tile \in placed' \/ Overtaken(q)'
        <4>1. CASE q.tile = r.tile /\ q.tile \in placed /\ q.tile \notin placed'
          <5>1. ASSUME NEW p \in Footprint[q.tile] PROVE expected'[q].revisions[p] < revision'[p]
            <6>1. p \in F /\ revision'[p] = revision[p] + 1 /\ revision[p] \in Nat
              BY <1>2, <1>6, <4>1, <5>1
            <6>2. expected[q].revisions[p] \in Nat /\ expected[q].revisions[p] <= revision[p]
              BY <3>1, <5>1 DEF IInv, Tables, Seen
            <6> QED BY <1>3, <6>1, <6>2
          <5> QED BY <5>1 DEF Overtaken
        <4> QED BY <1>3, <1>7, <3>1, <4>1
      <3>6. Wanted(q) \subseteq y.locked /\ q.kind = "place"
              /\ (\A s \in placed : {s, q.tile} \notin Clash)
              => \A s \in placed' : {s, q.tile} \notin Clash
        <4>1. SUFFICES ASSUME Wanted(q) \subseteq y.locked, q.kind = "place", {r.tile, q.tile} \in Clash
                       PROVE  FALSE
          BY <1>3
        <4>2. Footprint[r.tile] \cap Reach[q.tile] # {}
          BY <1>2, <3>2, <4>1, QuiltMutationAssumption
        <4> QED BY <3>4, <4>1, <4>2 DEF Wanted
      <3>7. Wanted(q) \subseteq y.locked /\ q.tile \in placed => q.tile \in placed'
        BY <1>2, <1>3, <3>2, <3>4
      <3>8. Owns(q.actor, q.tile)' <=> Owns(q.actor, q.tile)
        BY <1>3 DEF Owns
      <3>9. Entitled(y, q)'
        <4>1. Wanted(q)' = Wanted(q)
          BY DEF Wanted
        <4>2. y.step \in {"commit"} => Wanted(q) \subseteq y.locked
          BY <3>1 DEF Entitled
        <4> QED BY <1>3, <3>1, <3>3, <3>5, <3>6, <3>7, <3>8, <4>1, <4>2 DEF Entitled, Holding
      <3> QED BY <1>3, <1>11, <3>1, <3>9 DEF RowInv
    <2> QED BY <2>1, <2>2
  <1>12. /\ Idle \in Row /\ RowInv(Idle)' /\ \A d \in Tx : Apart(Idle, tx[d])
    BY Rest DEF RowInv
  <1> HIDE DEF Idle
  <1> QED BY <1>3, <1>9, <1>11, <1>12, OneRow

\* An ownership command moves a patch nobody has locked.
LEMMA Transferred ==
  ASSUME IInv, NEW p \in Patch, NEW u \in Principal, Transfer(p, u) PROVE IInv'
  <1>1. /\ owner' = [owner EXCEPT ![p] = u] /\ revision' = [revision EXCEPT ![p] = @ + 1]
        /\ UNCHANGED <<history, placed, tx, expected, bound>>
        /\ \A c \in Tx : p \notin tx[c].locked
    BY DEF Transfer, ChangeHands
  <1>2. LogTypes'
    BY <1>1 DEF IInv, Tables, LogTypes
  <1>3. \A q \in Patch : revision[q] <= revision'[q]
    BY <1>1 DEF IInv, Tables, LogTypes
  <1>4. Seen' /\ \A r \in Request : expected[r].sent /\ Overtaken(r) => Overtaken(r)'
    BY <1>1, <1>2, <1>3, Growing
  <1>5. Tables'
    BY <1>1, <1>2, <1>4 DEF IInv, Tables, Stored
  <1>6. ASSUME NEW c \in Tx PROVE RowInv(tx[c])'
    <2>1. CASE tx[c].step = "idle"
      BY <1>1, <2>1, Others DEF RowInv
    <2>2. CASE tx[c].step # "idle"
      <3>1. PICK r \in Request : tx[c].request = {r} /\ expected[r].sent /\ Entitled(tx[c], r)
        BY <2>2, Others DEF RowInv
      <3>2. Wanted(r)' = Wanted(r) /\ (Free(r)' <=> Free(r))
        BY <1>1 DEF Wanted, Free
      <3>3. tx[c].step = "commit" => (Owns(r.actor, r.tile) => Owns(r.actor, r.tile)')
        <4>1. SUFFICES ASSUME tx[c].step = "commit" PROVE p \notin Footprint[r.tile]
          BY <1>1, Requests DEF Owns, IInv, Tables, LogTypes
        <4>2. Footprint[r.tile] \subseteq Wanted(r)
          BY Requests DEF Wanted
        <4> QED BY <1>1, <3>1, <4>1, <4>2 DEF Entitled
      <3>4. Entitled(tx[c], r)'
        BY <1>1, <1>4, <3>1, <3>2, <3>3 DEF Entitled
      <3> QED BY <1>1, <3>1, <3>4, Others DEF RowInv
    <2> QED BY <2>1, <2>2
  <1>7. tx' \in [Tx -> Row] /\ \A c, d \in Tx : c # d => Apart(tx[c], tx[d])'
    BY <1>1 DEF IInv, Rows, Apart
  <1> QED BY <1>5, <1>6, <1>7 DEF IInv, Rows

LEMMA Preserves == IInv /\ [Next]_vars => IInv'
  <1> SUFFICES ASSUME IInv, [Next]_vars PROVE IInv'
    OBVIOUS
  <1>1. ASSUME NEW c \in Tx, NEW r \in Request, Send(c, r) PROVE IInv'
    BY <1>1, Sent
  <1>2. ASSUME NEW c \in Tx, Statement(c) PROVE IInv'
    BY <1>2, Locked, Found, PatchLocked, Checked, Committed DEF Statement
  <1>3. ASSUME NEW c \in Tx, Abort(c) PROVE IInv'
    BY <1>3, Ends DEF Abort
  <1>4. ASSUME NEW p \in Patch, NEW u \in Principal, Transfer(p, u) PROVE IInv'
    BY <1>4, Transferred
  <1>5. CASE UNCHANGED vars
    <2>1. Tables'
      BY <1>5 DEF vars, IInv, Tables, LogTypes, Seen, Stored
    <2>2. \A r : /\ Free(r)' <=> Free(r)
                 /\ Overtaken(r)' <=> Overtaken(r)
                 /\ Owns(r.actor, r.tile)' <=> Owns(r.actor, r.tile)
                 /\ Wanted(r)' = Wanted(r)
      BY <1>5 DEF vars, Free, Overtaken, Owns, Wanted
    <2>3. ASSUME NEW y, NEW r, Entitled(y, r) PROVE Entitled(y, r)'
      BY <1>5, <2>2, <2>3 DEF vars, Entitled
    <2>4. \A y : RowInv(y) => RowInv(y)'
      BY <1>5, <2>3 DEF vars, RowInv
    <2>5. tx' = tx
      BY <1>5 DEF vars
    <2> QED BY <2>1, <2>4, <2>5 DEF IInv, Rows, Apart
  <1> QED BY <1>1, <1>2, <1>3, <1>4, <1>5 DEF Next

\* The tables and the rows of the transactions stay as the commits need them.
THEOREM Inductive == Spec => []IInv
  <1> QED BY Starts, Preserves, PTL DEF Spec

-----------------------------------------------------------------------------
(* What follows *)

LEMMA Steps == IInv /\ [Next]_vars => [LogNext]_logVars
  <1> SUFFICES ASSUME IInv, [Next]_vars PROVE [LogNext]_logVars
    OBVIOUS
  <1>1. ASSUME NEW c \in Tx, Commit(c) PROVE LogNext
    <2>1. Req(c) \in Request
      BY <1>1, InHand DEF Commit
    <2> QED BY <1>1, <2>1, CommitIsAtomic, Requests DEF LogNext
  <1>2. ASSUME NEW p \in Patch, NEW u \in Principal, Transfer(p, u) PROVE LogNext
    BY <1>2 DEF Transfer, LogNext
  <1>3. ASSUME NEW c \in Tx,
               (\E r \in Request : Send(c, r)) \/ LockOperation(c) \/ ReadTile(c) \/ LockPatch(c)
               \/ Check(c) \/ Abort(c)
        PROVE  UNCHANGED logVars
    BY <1>3 DEF Send, LockOperation, ReadTile, LockPatch, Check, Abort, logVars
  <1>4. CASE UNCHANGED vars
    BY <1>4 DEF vars, logVars
  <1> QED BY <1>1, <1>2, <1>3, <1>4 DEF Next, Statement

\* The transactions implement the atomic operations: each commit is one of them, on the tables
\* as they are at that moment, whatever ran beside it.
THEOREM Implementation == Spec => ImplementsLog
  <1>1. Init => LogInit
    BY DEF Init
  <1>2. IInv /\ [Next]_vars => [LogNext]_logVars
    BY Steps
  <1> QED BY <1>1, <1>2, Inductive, PTL DEF Spec, ImplementsLog, LogSpec

\* Tiles of the quilt never overlap, whichever transactions place them, side by side or over
\* the border of two patches.
THEOREM TilesStayApart == Spec => []NoTilesClash
  <1>1. Spec => LogSpec
    BY Implementation DEF ImplementsLog
  <1> QED BY <1>1, LogIsConsistent, PTL

\* The history of each patch accounts for the tiles in it, with numbers that go up.
THEOREM HistoriesAccount == Spec => []HistoryRebuildsTiles
  <1>1. Spec => LogSpec
    BY Implementation DEF ImplementsLog
  <1> QED BY <1>1, LogIsConsistent, PTL

\* A committed request is answered as committed whenever it is sent again, unless its actor has
\* lost a patch of the tile.
THEOREM RetriesAreAnsweredAlike == Spec => RetriesAgree
  <1>1. ASSUME IInv, [Next]_vars, NEW a \in answer', a.request \in bound, ~UNCHANGED vars
        PROVE  a.outcome \in {"accepted", "unauthorized"}
    <2>1. PICK c \in Tx : LockOperation(c) \/ ReadTile(c) \/ Check(c) \/ Commit(c)
      BY <1>1 DEF Next, Statement, Send, LockPatch, Abort, Transfer, NoAnswer
    <2>2. /\ Req(c) \in Request /\ Entitled(tx[c], Req(c))
      <3>1. tx[c].step # "idle"
        BY <2>1 DEF LockOperation, ReadTile, Check, Commit
      <3> QED BY <1>1, <3>1, InHand
    <2>3. \A o : Answer(c, o) => a.request = Req(c) /\ a.outcome = o
      BY <1>1 DEF Answer
    <2>4. Free(Req(c)) => Req(c) \notin bound
      BY DEF Free
    <2>5. CASE LockOperation(c)
      BY <1>1, <2>3, <2>5 DEF LockOperation, NoAnswer, Misuses, Replays
    <2>6. CASE ReadTile(c)
      <3>1. ~tx[c].replay => Req(c) \notin bound
        BY <2>2, <2>4, <2>6 DEF ReadTile, Entitled, Holding
      <3> QED BY <1>1, <2>3, <2>6, <3>1 DEF ReadTile, NoAnswer
    <2>7. CASE Check(c)
      <3>1. ~IsReplay(c) => Req(c) \notin bound
        <4>1. CASE Req(c).kind = "remove"
          BY <2>2, <2>4, <2>7, <4>1 DEF Check, Entitled, Holding, IsReplay
        <4>2. CASE Req(c).kind # "remove"
          BY <4>2 DEF IsReplay, Replays
        <4> QED BY <4>1, <4>2
      <3>2. IsMisuse(c) => Req(c) \notin bound
        BY DEF IsMisuse, Misuses, Replays
      <3> QED BY <1>1, <2>3, <2>7, <3>1, <3>2 DEF Check, NoAnswer
    <2>8. CASE Commit(c)
      BY <2>3, <2>8 DEF Commit
    <2> QED BY <2>1, <2>5, <2>6, <2>7, <2>8
  <1>2. IInv /\ [Next]_vars =>
          [\A a \in answer' : a.request \in bound => a.outcome \in {"accepted", "unauthorized"}]_vars
    BY <1>1
  <1> QED BY <1>2, Inductive, PTL DEF Spec, RetriesAgree

\* The tables and the transactions keep their types.
THEOREM TypeCorrect == Spec => []TypeOK
  <1>1. ASSUME IInv PROVE TypeOK
    <2>1. LogTypes /\ bound \subseteq Request /\ Seen
      BY <1>1 DEF IInv, Tables
    <2>2. \A p \in Patch : \A i \in DOMAIN history[p] : history[p][i] \in Entry
      <3>1. \A p \in Patch : history[p] \in Seq(Entry)
        BY <2>1 DEF LogTypes
      <3> QED BY <3>1
    <2>3. ASSUME NEW c \in Tx
          PROVE  /\ tx[c].step \in Step
                 /\ tx[c].request \subseteq Request
                 /\ tx[c].step # "idle" => Cardinality(tx[c].request) = 1
                 /\ tx[c].todo \cup tx[c].locked \subseteq Patch
                 /\ tx[c].replay \in BOOLEAN
                 /\ tx[c].step \in {"idle", "advisory", "read"} => tx[c].locked = {}
      <3>1. tx[c] \in Row /\ RowInv(tx[c])
        BY <1>1, Others
      <3>2. tx[c].step # "idle" => Cardinality(tx[c].request) = 1
        BY <1>1, InHand, FS_Singleton
      <3>3. tx[c].request \subseteq Request
        BY <3>1 DEF Row
      <3> QED BY <3>1, <3>2, <3>3, OwnFields DEF RowInv
    <2>4. ASSUME NEW r \in Request, expected[r].sent PROVE expected[r].revisions \in Expectations(r.tile)
      <3>1. /\ expected[r].revisions \in [Footprint[r.tile] -> Nat]
            /\ \A p \in Footprint[r.tile] : expected[r].revisions[p] <= revision[p]
        BY <2>1, <2>4 DEF Seen
      <3>2. Footprint[r.tile] \subseteq Patch /\ \A p \in Patch : revision[p] \in Nat
        BY <2>1, Requests DEF LogTypes
      <3>3. ASSUME NEW p \in Footprint[r.tile] PROVE expected[r].revisions[p] \in 0 .. revision[p]
        <4>1. /\ revision[p] \in Nat /\ expected[r].revisions[p] \in Nat
              /\ expected[r].revisions[p] <= revision[p]
          BY <3>1, <3>2
        <4> QED BY <4>1
      <3>4. expected[r].revisions \in [Footprint[r.tile] -> UNION {0 .. revision[p] : p \in Patch}]
        BY <3>1, <3>2, <3>3
      <3> QED BY <3>1, <3>4 DEF Expectations
    <2> QED BY <2>1, <2>2, <2>3, <2>4 DEF TypeOK, LogTypes
  <1> QED BY <1>1, Inductive, PTL

\* Transactions lock patches upwards, and operation ids before patches: they never wait for each
\* other in a circle, however many there are.
THEOREM NoCircle ==
  ASSUME NEW n \in Nat, Patch \subseteq 0 .. n
  PROVE  Spec => []NoLockCycle
  <1>1. ASSUME IInv, NEW S \in SUBSET Tx, S # {}, \A c \in S : BlockedBy(c) \cap S # {} PROVE FALSE
    <2>1. \A c \in S : tx[c].step \in {"advisory", "lock"}
      BY <1>1 DEF BlockedBy
    <2>2. PICK c \in S : tx[c].step = "lock"
      <3>1. PICK c \in S : TRUE
        BY <1>1
      <3>2. PICK d \in S : d \in BlockedBy(c)
        BY <1>1
      <3>3. tx[c].step = "advisory" => tx[d].step \in Holding
        BY <3>2 DEF BlockedBy, HoldsOperation, Holding
      <3>4. tx[c].step = "lock" \/ tx[d].step = "lock"
        BY <2>1, <3>3 DEF Holding
      <3> QED BY <3>4
    <2> DEFINE At == {NextPatch(d) : d \in {e \in S : tx[e].step = "lock"}}
    <2>3. \A d \in S : tx[d].step = "lock" => /\ NextPatch(d) \in tx[d].todo /\ NextPatch(d) \in 0 .. n
                                             /\ \A p \in tx[d].locked : p < NextPatch(d)
      <3>1. SUFFICES ASSUME NEW d \in S, tx[d].step = "lock"
                     PROVE  /\ NextPatch(d) \in tx[d].todo /\ NextPatch(d) \in 0 .. n
                            /\ \A p \in tx[d].locked : p < NextPatch(d)
        OBVIOUS
      <3>2. tx[d] \in Row /\ Entitled(tx[d], Req(d))
        BY <1>1, <3>1, InHand
      <3>3. tx[d].todo # {} /\ tx[d].todo \in SUBSET Patch
            /\ \A p \in tx[d].locked, q \in tx[d].todo : p < q
        BY <3>1, <3>2, OwnFields DEF Entitled
      <3>4. NextPatch(d) \in tx[d].todo
        BY <3>3, Lowest DEF NextPatch
      <3> QED BY <3>3, <3>4
    <2>4. \A p \in At : p \in 0 .. n /\ \E q \in At : p < q
      <3>1. SUFFICES ASSUME NEW d \in S, tx[d].step = "lock"
                     PROVE  NextPatch(d) \in 0 .. n /\ \E q \in At : NextPatch(d) < q
        OBVIOUS
      <3>2. PICK e \in S : e \in BlockedBy(d)
        BY <1>1
      <3>3. e \in Tx /\ NextPatch(d) \in tx[e].locked
        BY <3>1, <3>2 DEF BlockedBy
      <3>4. tx[e].step = "lock"
        BY <1>1, <2>1, <3>3, Others DEF RowInv
      <3> QED BY <2>3, <3>1, <3>3, <3>4
    <2>5. NextPatch(c) \in At
      BY <2>2
    <2> HIDE DEF At
    <2> DEFINE Down == {n - p : p \in At}
    <2>6. Down \in SUBSET Nat /\ n - NextPatch(c) \in Down
      BY <2>4, <2>5
    <2>7. PICK m \in Down : \A q \in Down : m <= q
      BY <2>6, Least
    <2>8. PICK p \in At : m = n - p
      BY <2>7
    <2>9. PICK q \in At : p < q
      BY <2>4
    <2>10. n - q \in Down
      OBVIOUS
    <2>11. n - p <= n - q /\ p \in 0 .. n /\ q \in 0 .. n
      BY <2>4, <2>7, <2>8, <2>10
    <2> QED BY <2>9, <2>11
  <1>2. IInv => NoLockCycle
    BY <1>1 DEF NoLockCycle
  <1> QED BY <1>2, Inductive, PTL
=============================================================================
