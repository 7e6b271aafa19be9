# A formal model of the collaborative quilt

zzyix is a shared world of tiles. A React client (`apps/client/src`) talks over HTTP and
Socket.IO to an Express server (`apps/server/src`) that runs in several replicas over one
PostgreSQL database. The world is a torus of patches; a principal owns at most one patch, places
tiles in it, sees the tiles and the presence of the others, and chats with them.

This directory models that program in TLA+, checks the models with TLC on small instances, and
proves theorems about patch ownership, presence, tile mutation, delivery, chat, the canonical
world, the rooms of a connection and the arithmetic of the torus with TLAPS. Paths below are relative to the repository;
`repository.ts` is `apps/server/src/db/repository.ts`, `index.ts` is `apps/server/src/index.ts`.

- [Inventory](#inventory)
- [Modules and their correspondence to the code](#modules)
- [Runs](#runs)
- [Fairness](#fairness)
- [Proofs](#proofs)
- [Disagreements found](#disagreements-found)
- [What is not modelled](#what-is-not-modelled)
- [Plan](#plan)

## Inventory

| Component | State | Operations | What makes it correct |
| --- | --- | --- | --- |
| Patch ownership (`repository.ts` 346-832, 3050-3118) | `patches`, `patch_memberships`, `pending_ownership_transfers`, `patch_claim_quota_records` | claim, assignment on discovery, create/accept/cancel/expire a transfer, abandon | a principal owns one patch; only the owner offers it; memberships follow ownership; each change moves the revision by one |
| Account deletion (`repository.ts` 841-1005, `jobs/principalDeletion.ts`) | `principals.status`, recovery deadline | request, recover, complete | a deleted principal owns nothing; nobody pending deletion receives a patch |
| Tile mutation (`repository.ts` 1784-2155) | `tiles`, `tile_spatial_refs`, `patch_operations`, `patches.revision`, `idempotency_keys` | place, remove, retry | tiles never overlap; an operation takes effect once; the log of each patch rebuilds its tiles |
| Quilt delivery (`index.ts` 1920-2353, `App.tsx`, `domain/quiltCache.ts`) | rooms of a socket; cursors and cache of a client | subscribe, broadcast, snapshot, acknowledge, reconnect, evict | a client that is told it is up to date is |
| Presence (`repository.ts` 1581-1742, `index.ts` 1800-1894, 2357-2418) | `quilt_presence_leases`, timers and flags of each socket | acquire, renew, release, reap, announce | a departure is decided exactly when the last lease goes, and every lease goes |
| Chat (`realtime/chatHandlers.ts`, `db/chatRepository.ts`, `domain/chatCache.ts`) | `chat_messages`; message list, cursor and socket of a client | send, join, page, reconnect | each message is stored once; a client that has caught up has what was there when it connected |
| Canonical world (`repository.ts` 2805-3048, 3209-3358, `db/initializeCanonicalWorld.ts`) | `canonical_world` pointer with a generation | discover, provision, activate, deactivate | the pointer never changes its quilt; a retired world stays retired |
| Connection entry and lineage (`migration/canonicalAttempts.ts`, `index.ts` 1642-1800, `useSocketConnection.ts`) | `canonical_attempts`; entry, lineage and epoch of a client | issue, rotate, observe, consume, renew, rediscover | an attempt is counted once; an online client can reconnect |
| Room resolution (`realtime/quiltRooms.ts`, `index.ts` 2115-2353) | rooms, chunks and churn of a socket; the subscription in flight | resolve request by request, load the snapshots, change rooms | budgets hold; the answer says which rooms the socket is in |
| Visibility (`domain/authorizationPolicy.ts`) | none | evaluate surface, state and membership | nothing is visible of a deleted patch |
| Topology (`domain/quiltTopology.ts`, `math2d.ts`, `App.tsx` 930-980) | none | wrap points, rectangles, viewports and images | every address has one canonical form; what is in view is loaded |
| Retention (`jobs/retention.ts`, `repository.ts` 3658-3733) | snapshots, operations, idempotency keys | hourly snapshot and pruning | what is pruned is not needed to rebuild tiles |
| Principals (`auth/`) | `principals`, `external_principal_mappings` | provision at the first request | one principal for each external identity |
| Optimistic placement (`App.tsx` 1008-1235, `quiltCache.ts`) | optimistic tiles, undo records, pins | place, undo, answer, evict | what is shown is what was committed, once everything is answered |
| Rendering, telemetry, infrastructure, legacy sessions | | | outside the models, see [below](#what-is-not-modelled) |

The components meet in four places.

- **The database.** All server transactions run at READ COMMITTED. Ownership commands, mutations
  and assignment lock rows of `patches` with `FOR UPDATE`; presence, assignment, the canonical
  pointer, provisioning and idempotent mutations take advisory locks; foreign keys take
  `FOR KEY SHARE` locks on principals. `patches.revision` is shared by ownership commands and
  mutations: a mutation carries the revisions it expects, so a change of ownership makes it stale.
- **Awaits.** A handler is a sequence of awaited calls; between two of them other handlers,
  other replicas and the same socket's own disconnect handler run.
- **Broadcasts.** After a commit an event is emitted to Socket.IO rooms through the Postgres
  adapter. Delivery is at most once: a socket that is not in the room, or no longer connected,
  never receives it.
- **Client callbacks.** Acknowledgements, events and React effects change the client's cursors
  and caches in whatever order they arrive.

Hence what is hard: transactions that lock in different orders or not at all; state read before
an await and used after it; events that overtake each other, snapshots and acknowledgements; a
connection that ends between two of them; replicas that die holding leases; retries that run
beside the request they repeat. `PROJECT.json` lists each such hazard at its line, with the
property that watches it or the reason why none does yet.

## Modules

| Module | Models | Extends or instantiates |
| --- | --- | --- |
| `Ownership` | ownership commands and account deletion, statement by statement | refines `PatchLifecycle` |
| `PatchLifecycle` | what ownership promises: take, propose, hand over, withdraw, give up | |
| `OwnershipProofs` | theorems about `Ownership` | extends `Ownership`, `TLAPS` |
| `Presence` | leases, connections, reapers, announcements | |
| `PresenceProofs` | theorems about it | extends `Presence`, `TLAPS` |
| `QuiltLog` | what mutation promises: each operation at once and at most once | |
| `QuiltMutation` | the mutation transactions | extends and refines `QuiltLog` |
| `QuiltMutationProofs` | theorems about both | extends `QuiltMutation`, `TLAPS` |
| `QuiltDelivery` | subscription, events, cursors, cache and own tiles of one patch | |
| `QuiltDeliveryProofs` | theorems about it | extends `QuiltDelivery`, `TLAPS` |
| `QuiltRooms` | the rooms of a connection: resolution, budgets, visibility, change | |
| `QuiltRoomsProofs` | theorems about them | extends `QuiltRooms`, `TLAPS` |
| `QuiltTopology` | the arithmetic of the torus on one axis, as operators | |
| `QuiltTopologyProofs` | theorems about it | extends `QuiltTopology`, `TLAPS` |
| `QuiltView` | what a moving client loads of the tiles others place | extends `QuiltTopology` |
| `Chat` | sending, joining, paging and the client's catching up | |
| `ChatProofs` | theorems about it | extends `Chat`, `TLAPS` |
| `CanonicalWorld` | the pointer, its commands, the initializers of deployments | |
| `CanonicalEntry` | attempts, handshakes, lineages, reports; the page | extends `CanonicalWorld` |
| `CanonicalProofs` | theorems about both | extends `CanonicalEntry`, `TLAPS` |
| `MC...` | small instances for TLC; `MCQuiltSubscription` joins `QuiltDelivery`, `QuiltRooms` and `QuiltTopology` | extend the module they instantiate |

### Ownership

`patches`, `members`, `transfers`, `principals` and `quota` are the tables; `due` and `lapsed`
say which deadlines the clock has passed; `tx` holds, per database connection, the command it
runs, the next statement, the rows it holds locked and the copies it has read. `PlanOf` gives
for each command the statements in the order of the code; `Read(t)` executes the next one when
nobody blocks it (`BlockedBy`, with the lock conflicts of PostgreSQL) and copies the latest
committed row; `Commit(t)` re-evaluates the guards of the command on those copies and writes
every row it writes in the code: owner, revision, membership, transfers, quota, status.
`Abort(t)` is a deadlock victim or a lost connection, `Clock` the passing of a deadline or a
quota window.

Abstractions. A statement over several rows locks all of them at once. Operation identifiers are
fresh; replay belongs to `QuiltMutation`. A patch is active exactly when it has an owner.
Quota windows forget one attempt at a time. The operator's variants of cancellation and recovery
have no caller and are left out, and so are audit rows (but for the locks their foreign keys take) and
telemetry. A deletion's recovery window may end with requests of the principal in flight, but not
with a discovery: that one has looked at the status before the thirty days began.

### Presence

One quilt. `lease` is the table ("fresh" until its expiry passes, then "stale"), `conn` the
flags of `initializeConnection` and its heartbeat, `job` what each asynchronous function is
doing: the opening and the closing of each socket and the reaper of each replica. A transaction
is `Decide` (the statements under the principal's advisory lock, whose uncommitted deletions are
in `removed`) and `Commit`. `present` records the committed decisions, `shown` the roster of a
client that stays connected. Clocks of replicas are taken as synchronised; what a caller took
for "now" is the set of leases stale at that moment, less those renewed since.

### QuiltLog and QuiltMutation

`QuiltLog` has the tables as they look from outside a transaction and two actions: an operation
on a tile, by the owner of all the patches it lies in, and a change of hands.
`QuiltMutation` runs the transactions: advisory lock on the operation id; for a removal the
lookup and the unlocked read of the tile; the patch locks in order of their ids (`LockPatch`),
for a placement of every patch within the grout gap (`Reach`); then authorization, replay,
revisions and collisions in the order of the code (`Check`), and the commit. Requests carry the
revisions of the moment they were first sent, and may be sent again at any time, also while the
first attempt runs. Geometry is given by constants: the patches a tile lies in, those it may
collide in, and which tiles overlap. Principal status and visibility policy are part of
`Authorized`.

### QuiltDelivery

One patch and one client with rooms of kind "fine". On the server: `Commit` and the later
`Emit` of its event, in any order or never, to the chunk rooms joined at that moment;
`Receive`, `Load` (the repeatable-read snapshot, left out when the cursor matches revision and
chunk scope), `Leave`/`Join` one room at a time, `Acknowledge`, `SendStates`. On the client: the
view, the debounced subscription, cursors that survive a reconnection, the cache, its filing by
chunks and its eviction. `torn` records that a cursor has outlived the tiles it stands for,
because a snapshot was lost with the connection or the patch was evicted: the two ways found in
which the code loses them, see the finding. A snapshot mends the cursor, unless a subscription
that overlaps it was sent with the torn one and may bring it back (`CursorOnItsWay`).

The client's own tiles (`Place`, `Undo`, `TakePlaced`, `TakeUndone`): what is shown is rebuilt
from the cache after every event and snapshot, and the tiles the client placed or may take back
are pinned; the server decides (`Decide`) with the revision the client expected. `shown`,
`optimistic` and `undo` are the tiles on screen and the two sets of pins; `excused` records the
tiles whose answer was lost or that somebody else removed.

### QuiltRooms

One connection and the subscription in flight: `Begin` reads the patches and so fixes what is
visible, `Resolve` answers one request in the order of `resolveQuiltRooms` (`Refuse`, `Merge`,
`TooMuchChurn`, `Admit`), `LoadSnapshot` loads one accepted room and authorizes it again, `Fail`
and `Enter` end it. Aliases of a patch are addresses that `Canonical` maps to the same one.
`patchRow` is what the tables say of each patch for this principal; `Change` changes it at any
time. The answers to a subscription are kept (`told`) to compare them with the rooms.

Abstractions. The answers of one call are given one at a time, and the requests are chosen as
they are answered, which allows every list of requests. Leaving the old rooms and joining the
new is one step here, `Leave` and `Join` of `QuiltDelivery` take it apart.

### QuiltTopology and QuiltView

Operators on integers, for one axis: `PositiveModulo` with the remainder of the language,
`ResolveCanonicalPoint`, `NearestImageDelta`, `DecomposeAxis` at the seam, the patches a placement
locks, the references it stores, the images the renderer draws, the chunks of a viewport and the
patch each is asked of. What the code does to a rectangle is the product of what it does to its
two sides. `QuiltView` uses them: tiles are placed (`PlaceTile`, with their event), the viewport
moves (`Move`, with its snapshots); nothing is late or lost, so that a tile that is missing was
never asked for. The limit of 64 chunks and the hysteresis of movement
(`App.tsx` 904-941) are left out: they ask for less. Coordinates are integers of a unit small enough; the epsilon the code subtracts
is absorbed by the doubles concerned.

### Chat

The steps of `handleChatSend` are access check and rate limit; authorization and lookup of the
client message id; `max(sequence) + 1`; the insert with its two unique keys; the profile read with
broadcast and answer. Those of `handleChatJoin` are access check and history page, then the room
and the answer. A check is thus taken together with the read that follows it. The client merges messages and pages by id; a page that is not empty moves the cursor,
which renews the subscription and so replaces the socket, which asks for the next page. The
button for older messages asks for what follows the oldest message shown. What the server has
sent arrives in any order and is lost with the connection. The limiter's answer is a free
choice; bodies, profiles and the list of pending sends are left out.

### CanonicalWorld and CanonicalEntry

In `CanonicalWorld` every command on the pointer is one step, since it holds one advisory lock
throughout. An initializer is a sequence of commands (`Status`, `Provision`, `Activate`) that
may stop between any two of them (`Crash`) and be repeated (`Rerun`), beside others and beside an
operator (`Operate`). `Untouched` stands for the validation of a provisioned quilt.

`CanonicalEntry` adds a page and the sockets of it that the server serves. `Discover` issues the
entry attempt, `Open` carries what the page presents, `Handshake` rotates the lineage under the
time the middleware has read, `Admit` initializes the connection and says `connect`, `lineage`
and `protocol` in the order of the code, `Validate` is the interval that finds the world
inactive, `Report` and `ReceivePost` consume the attempt over either channel. The page's
reconnections follow socket.io: after a rejection or a server's disconnect it does not try
again, after a lost transport it does; the handshake errors of authentication, on which the page
renews its token or gives up, are left out. Times are numbers of handshakes: only their order counts.

## Runs

| Run | Instance | Shows |
| --- | --- | --- |
| `ownership` | 2 principals, 2 patches, 1 transfer, 2 connections, every command | offers come from the owner; members are owners; claims and transfers add no second patch; a deleted principal owns nothing; no lock cycle; ownership moves the revision; quotas; `PatchLifecycle` implemented |
| `ownership_race` | assignment against acceptance | finding: two patches of one principal |
| `presence_scenes` | two tabs of one principal with a fault, or two reapers and a reconnection after a restart | no departure is decided while a lease remains, and a last lease goes only with a decision, a release without a lease excepted |
| `presence_ends` | 1 socket, 2 reapers, 2 faults, or 2 tabs without faults, fair | leases end, a connection without its lease is closed, the last lease left behind takes its principal off the roster |
| `presence_swallowed` | 2 sockets, no fault | finding: a departure nobody decides |
| `quilt_mutation` | 2 connections, 2 patches of 2 owners, 3 tiles, 5 requests | no overlap, histories rebuild tiles, retries agree, no lock cycle, `QuiltLog` implemented |
| `quilt_delivery` | delivery: 2 chunks, 2 tiles, 2 commits; rooms: 2 patches, an alias, 3 requests in a subscription | the cached revision never goes back; a cursor that suppresses the snapshot tells the truth; own tiles stay, pins have a reason; budgets hold, and the rooms are those of the answer |
| `quilt_snapshot_lost` | the delivery instance | finding: a snapshot lost with the connection is not sent again |
| `quilt_strip` | the canonical sizes on one axis, 4 columns | finding: tiles in view that are never asked for |
| `chat` | 2 clients, 2 messages, one of them sent twice, or 3 with one client away; pages of 1 row, 1 event out of the ordinary | stored once, nothing skipped, what was missed is replayed |
| `chat_jumped` | the same | finding: a message the cursor jumps over |
| `canonical_entry` | 2 initializers, or 1 page with 2 sockets in a world that is up; one mishap | refusals have a reason; the world is not replaced and comes up; one report for an attempt; a page keeps a live lineage; a world taken down is left |

Why the bounds are enough to mean something:

- Two connections are the least that interleave, and every hazard listed for ownership and
  mutation is about two transactions. Three would be needed only for cycles of three,
  and the theorems `LocksAreOrdered` and, for mutations, `NoCircle` cover any number.
- Two patches and two principals let a principal try to own two and a patch have two claimants;
  one transfer row suffices because a patch has at most one pending offer. `MaxRevision` 2
  leaves a patch time to be taken, handed over and given up. `MCOwnership!Scenes` limits what may
  begin beside what: claims, assignments, offers and acceptances mix on two patches; abandonment
  and deletion requests mix with claims and assignments there while nothing is offered; everything
  mixes as long as only one patch has been touched. One principal leaves at a time, and nobody
  abandons a patch or expires offers then; offers, deletion requests, abandonment on two patches
  and the claims beside them begin while no quota window runs. What this leaves out does interact,
  through the rows of a principal: withdrawals and departures beside offers when two patches are
  in use. The theorems of `OwnershipProofs` state the same properties without any of these limits.
  That is 390,000 states instead of many millions. That an assignment beside an acceptance gives
  one principal two patches is part of this run; what it checks is that claims and acceptances
  never do.
- Presence needs two leases of one principal for "last" to mean anything, and two reapers with
  two principals for their lock orders to differ; the "two tabs" and "restart" scenes are those.
  Liveness has to be checked on the whole graph, hence two smaller scenes in `presence_ends`. One
  socket with two failures, such as a failed release followed by a failed reaping, shows that a
  lease ends and that a connection without one does. Two tabs without failures show that the last
  lease takes the principal off the roster: there heartbeats save nothing and do not beat, and the
  second tab opens after the first is initialized.
- The tiles of `quilt_mutation` are the least for the geometry that matters: two that overlap
  over a border between owners and one that lies across it; one operation id is used for two
  requests.
- In `quilt_delivery` one tile lies in one chunk and one in both, so that a view of one chunk
  sees a part of the patch; two commits make an older event and a newer snapshot possible, and
  one drop separates any two messages. `TwoOfThree` lets a behaviour have two of moved views,
  own edits and lost connections, a placement with its undo only without a moved view, and a move
  before the loss (a move after it is a subscription like the one of the new connection). The
  rooms of the same connection are a second scene: two patches, one under two addresses, at most
  two rooms of two chunks and three entries a window, so that each limit is met by old rooms, by
  new ones and by aliases. Together 1.3 million states.
- `quilt_strip` has the canonical patches (31.2), chunks (8) and a viewport of 16 in units of
  0.4, in four columns instead of thirty-two; a border is also a chunk's end at every tenth patch
  only, which four columns do not reach.
- In `chat` pages of one row with two messages make the client read page by page; the bound of
  one event still lets that event happen between any two steps. The gap between history and room
  needs a third message, which is the second scene.
- `canonical_entry` explores the world coming up (two initializers, a crash, an operator) and a
  page in a world that is up (two sockets, three handshakes, one thing lost or one replaced
  socket) as two scenes, because they share nothing but the pointer: 259,000 states.

Deadlock is not checked where the bounds use everything up: the transfers and revisions of
`Ownership`, the sockets of `Presence` (each connects once), the commits of `QuiltDelivery`, the
messages of `Chat`, the handshakes of `CanonicalEntry`. `QuiltMutation` never stops and has the
check on. Every property has a mutant in `PROJECT.json`, a plausible mistake in the modelled
code for which TLC finds the property violated.

Symmetry is used for connections only: two patches of one principal are told apart by the order
of their ids (`OneOf`).

## Fairness

`Spec` of most modules has no fairness; `presence_ends` and `canonical_entry` need it.

- `Presence!FairSpec`: awaited calls return and the functions continue; advisory locks are
  granted in order of arrival (strong fairness of `Decide`); the intervals of heartbeat and
  reaper fire; a deadlock has a victim; the clock passes the expiry of a lease nobody renews.
  No fairness is assumed of connections, disconnections, failures or crashes. With two
  principals and two reapers deadlocks may recur for ever, so liveness is checked with one.
- `CanonicalEntry`: handlers finish, messages that are not lost arrive and the validation
  interval fires (`WF_vars(Proceed)`: each such step uses up a bounded supply, so weak fairness
  of the whole is fairness of each). None of losses, replacements, expiry or operators.
- `CanonicalWorld!WorldFairness`: an initializer that was started runs, and a deployment whose
  job crashed is run again: the job is retried twice (`.github/workflows/cd.yml:444`), hence
  `CrashBound` 2. For `WorldComesUp` only.

## Proofs

Eight modules hold theorems, for every value of the constants under the named assumption of the
component's module (identifiers are distinct from the null values, bounds are naturals, requests
are well formed). `PROJECT.json` lists them all; the arguments are these.

**`OwnershipProofs`**: types; locks exclude each other; what was read under lock stays current;
offers come from the owner; memberships follow ownership; revisions move with ownership; quotas
of claims; nothing is left to a deleted principal; claims and transfers have active receivers
only, who own nothing yet; the ordered commands never deadlock; and `Spec => ImplementsLifecycle`. The invariants the runs
check are not inductive: a commit writes what its copies say, so nothing can be concluded of the
tables without knowing that copies are current, and that needs the locks. The inductive
invariant is built in layers, each proved with the help of the ones below.

1. `Typed`: types, and every transfer named by a transaction has been named in its parameters.
2. `Locking`: row and advisory locks exclude each other (`Exclusion`), and a transaction past a
   locking read holds that lock (`HoldsWhatItRead`).
3. `Serial`: the copies read under a lock equal the committed rows, and a scan made under the
   principal's lock is still complete (`LockedReadsAreCurrent`, `ScansAreCurrent`).
4. `CommitGuarded` then gives the guards of the code in terms of the tables (`Guarded`), and
   `CommitEffect` sums the commit up as one of a few `Effect`s on owner, members and transfers.
5. `Tables`: offers, memberships and parties, preserved by every `Effect`.
6. `Receivers`: whoever gives a principal a patch holds a lock of the principal's row, exclusive
   (claim, acceptance) or shared for the foreign key (assignment), so what another transaction
   found under that lock stays true; and no assignment is under way for a principal whose
   recovery window has ended (`NoLateAssignment`), which rests on the guard of
   `RecoveryWindowEnds` that no request outlasts the thirty days of the window.

The refinement maps an owner and the recipient of the pending offer of each patch to
`PatchLifecycle`; an `Effect` is one of its steps, everything else stutters.
`OnlyAssignmentsExceed` says that whoever gains a patch by a claim or a transfer owns none at that
commit, whatever else is in flight: both search the principal's patches after locking the
principal's row, and an assignment in between has to share that row. An assignment gives no such guarantee,
since it searches before it shares the row; `ownership_race` shows what follows.

`NoLockCycle` has an argument of its own. `Ranked` says that all an ordered transaction has
locked comes before what its next statement locks, in the order advisory lock, patch, offer,
principal row; a blocker among ordered transactions is then further on than the one it blocks,
so one that is furthest on waits for none of them.

**`PresenceProofs`**: types; no two transactions hold the advisory lock of one principal; a
principal with a lease is not decided to have departed (`NoEarlyDeparture`); and a last lease goes
only with a departure decided for it, or by a release that found its own lease gone
(`LastLeaseDecides`). `LeasedIsPresent` alone is not inductive: what a transaction writes when
it commits was decided statements earlier, from leases it has deleted and nobody else sees gone.
`Safe` therefore adds `Exclusion`, that a transaction deletes only leases of a principal it has
locked (`Scoped`), and that one which decided a departure deletes every lease of that principal
and holds its lock, so that no acquisition adds one (`Decided`); `Fresh` says that a handler
starts once, so that no two transactions are of the same job. For the last lease, `Counted`
follows each principal a transaction has locked from the decision to the commit: its departure is
decided, or a lease of it remains, which nobody can take or add while the lock is held
(`CommitSettled`), or it is one of the named cases; `OneLockEach` says that a reaper decides on each
principal once. The release excepted is exactly the finding of `presence_swallowed`.

**`QuiltMutationProofs`**: about the atomic log, that tiles never clash and each patch's history
rebuilds its tiles (`LogInv`: types, `NoTilesClash`, and for each patch `Sound`: replay gives its
tiles, sequence numbers rise and are bounded by the revision, placements and removals of a tile
alternate); that the transactions implement the log, from which both properties carry over; that
retries are answered alike; and that locking patches in the order of their ids makes no circle,
however many patches a tile needs. The invariant of the transactions has two parts. `Tables`:
nobody expects a revision still to come (`Seen`), and every entry of a history belongs to an
operation that is stored (`Stored`). `Rows`: a transaction that has
got to a statement is entitled to what follows (`RowInv`, `Entitled`), and no two have locked the
same patch or operation id (`Apart`). The point that is not obvious is the removal, which reads its
tile before it locks anything: if the tile goes in between, the revisions of its patches have
overtaken those the request expects, and the removal is refused for that reason.

**`QuiltDeliveryProofs`**: types; a cached revision never goes back; a cursor is honest; the
client's own tiles stay shown; pins have reasons. For the cursor every claim the system holds is
followed at once (`Claims`): the client's cursor, the cursors of the subscriptions sent and of
the one the server works on, and those of the answers on the wire. `Honest` says that each claim
to the present revision is `Backed`: the cache has the tiles (`Firm`), or a snapshot of them is on
its way (`Coming`), unless the cursor is torn. The attempt to prove it showed that the
property needed care: a snapshot does not mend a torn cursor while a subscription that was sent
with that cursor is still to be answered, and with more drops and moves than the run has the
acknowledgement of such a one brings the torn cursor back. `torn` is therefore cleared only when no
such claim is left. `OwnTilesStay` needs only that the
cache files its tiles by their chunks (`Filable`). `Pins` follows a request from the click to its
answer: at most one of a kind is under way for a tile (`Once`), what the client knows of it fits
where it is (`Stages`), and so every pin is explained (`Pinned`).

**`ChatProofs`**: a message is stored once and under a number of its own; a client that has not
jumped shows everything stored up to its cursor; one whose connection settles shows what was
stored when it connected. The invariant is `TypeOK`, `Numbered` (the stored sequence numbers are
1 to the last, because the unique key admits one insert of `max + 1`), and for each client
`Reading` (a client that has not jumped knows everything up to its cursor, and with a page on its
way everything up to the page's end), `Owed` (a connection that has not brought what was missed
has rows on their way, or has not read yet) and `Served` (only live connections are read for).
That a largest number exists needs a pigeonhole argument (`MaxExists`).

**`CanonicalProofs`**: a deployment is refused only for a world that is up, was taken down or is
not the one asked for; the pointer keeps its quilt and a retired world stays retired; an attempt
is reported by the client at most once. `WorldInv` has the phases of the pointer (status and generation go
together) and `Informed` (an initializer about to activate names the quilt of the pointer, with a
generation it has had); for reports, `Accounted` says that what is counted as a
report has consumed the row. Of the page it is proved that the types hold, that while nothing is
lost only a page without a lineage is refused, after its entry attempt has ended
(`RefusalsFollowLosses`), and that a connected page holds a lineage nobody has rotated
(`LineageIsCurrent`), for any number of sockets, handshakes, losses and replacements. `EntryInv`
has three ideas. `Counted`: lineages issued and handshakes under way are together fewer than the
handshakes begun. `Newest`: the lineage of an accepted socket is as good as new, and no handshake
that is still to be judged presents it, since only the page could have learned of it. `Lossless`:
while nothing is lost, no handshake is under way but that of the page's own socket, because a page
replaces a socket only after it was accepted. `Attached` and `Readable` say what the page may
still have to read of its socket: messages after which the goodbye comes last, so that a page
that is hung up on has read its lineage.

**`QuiltRoomsProofs`**: budgets and answers. A connection's rooms are within the limit only
because the subscription in flight keeps another: old rooms and accepted ones together
(`|rooms \cup accepted|`), and the churn of the window together with the accepted rooms that are
new. `Answered` says that the accepted rooms and chunks are those of the answers, so that what
`Enter` keeps of one it keeps of the other.

**`QuiltTopologyProofs`**: wrapping gives one canonical form also for negative coordinates; the
nearest image is the only one within half a period; a placement locks every patch its tile has a
point in, also across the seam, and an alias the same ones; the chunk of every point in view is
asked for, also in the last, shorter chunk; the renderer draws exactly the images that show. Then
the two sides of the strip finding: a tile with a point in view is delivered if the patch of
that point is the one its chunk is asked of (`WatchedPointsArrive`), and a tile between a patch
border and the end of the chunk the border runs through is delivered to nobody
(`StripsAreUnwatched`).

Only model-checked: liveness (the temporal properties of `presence_ends`, `WorldComesUp`,
`InactiveWorldIsLeft`), which is out of the reach of the proof system; and `QuiltView`.

## Disagreements found

With a run each:

- **Two patches for one principal** (`ownership_race`): `ensureCanonicalPatchAssignment` and
  `acceptOwnershipTransfer` share no lock, though
  `docs/decisions/2026-07-27-finite-toroidal-quilt-v01.md:198` makes one active patch the quota.
- **A swallowed departure** (`presence_swallowed`): a release whose own lease is gone prunes the
  principal's last expired lease and decides nothing; the reaper then finds no row. Line 114 of
  the same document asks for safe last-lease decisions.
- **A lost snapshot** (`quilt_snapshot_lost`): the client stores acknowledged cursors before the
  snapshots they stand for arrive; after a reconnection the cursors match and the server sends
  none, against `apps/server/README.md:131`.
- **Strips nobody asks for** (`quilt_strip`): a chunk is asked of the one patch its lower corner
  lies in (`App.tsx:957`), while tiles are filed under the patch and chunk they lie in. Patches
  are no multiple of chunks, so a tile between a border and the end of the border's chunk is
  never loaded, against `docs/canonical-quilt-data-storage.md:16`.
- **A jumped message** (`chat_jumped`): a message stored after the history was read and published
  before the room is joined reaches the client by neither; the button for older messages may then
  move the cursor past it (`App.tsx:856`), against `docs/chat-product-contract.md:23`.

Met while modelling and without a run, since a model of it would restate one line of code:

- A refused new room still counts as churn for the requests after it, so that a room the
  connection is already in may be refused (`quiltRooms.ts:174`), where the test
  `quiltRooms.test.ts:99` is about "churn budgets only for new canonical rooms". The "rolling
  minute" of `apps/server/README.md:125` is a window that starts anew with the first subscription
  after sixty seconds (`index.ts:2149`).
- An entry attempt may be given two terminal events, by the server's failed initialization
  (`index.ts:1878`) and by the client, which the report's `canonicalRetirementReportCli.ts:146`
  calls a duplicate.
- A page that lost its lineage, because the socket was replaced, presents the entry attempt again
  and is refused once its ten minutes are over (`useSocketConnection.ts:65`), though
  `.copilot-tracking/plans/logs/2026-07-29/canonical-infinite-canvas-convergence-log.md:57` says
  the lineage "rotates independently of short-lived entry authorization". `RefusedOnlyAfterLoss`
  names the case.
- Pins outlive the answer that was lost with the connection and the removal by somebody else, and
  an accepted tile vanishes when a later event overtakes its answer, where
  `.copilot-tracking/github-issues/execution/2026-07-28/issues-plan.md:242` says "Optimistic and
  undo pins survive traversal and clear after acknowledgement or failure". `PinsAreExplained` and
  `OwnTilesStay` name the cases.
- Chat keeps every message, `docs/chat-product-contract.md:19` says the newest 500.
- Overdue offers are never expired: `jobs/ownershipLifecycle.ts:3` has no caller. `Ownership`
  models the command it would run.

Behaviours that are in the models and that no document of the repository forbids: a departure
announced after the same principal has reconnected; a departure, or a joining, that is not
announced because the connection of the first or last lease ended during its initialization (`index.ts:1835`); a valid chat message rejected because two
were sent at once; a view that stays behind because its subscription arrived while another was
in progress (`index.ts:2120`) or was refused; a far pan refused because old rooms are counted
with new ones; a whole subscription that fails because one patch became invisible.

## What is not modelled

- **Polygons and placement** (`tileGeometry.ts`, `placementSolver.ts`, grid patterns):
  floating-point polygons are out of TLC's reach; `QuiltMutation` is parameterised by their
  results.
- **Rendering, widgets, pointer and camera handling**: no shared state.
- **Legacy sessions** (`createProtectedSession`, `persistTilePlacement`, `persistTileRemoval`,
  session snapshots): no caller in the server outside tests.
- **Retention** (`jobs/retention.ts`): it prunes operations, which only rooms of kind "events"
  would replay, and this client never asks for them; bound operations never expire
  (`repository.ts:284`), and tiles are read from their rows, never rebuilt from snapshots.
- **Backfill, parity, migrations, purge scripts, infrastructure**: run by an operator while
  nothing else writes, or descriptions without behaviour.
- **Telemetry, logging and reports**: output only.
- **Principal provisioning and token verification**: one transaction under one lock, and a
  library.
- **The scripts under `.github/skills`**: tools for writing the code, no part of the program.

Within the modelled components: the operation replay of rooms of kind "events", aggregate rooms
and payload budgets in `QuiltDelivery`; other quilts than the canonical one; the contents of the
chat rate limiter; the reconnect and resubscribe cycles the server also files under an attempt,
which no step of `CanonicalEntry` reads; two lineage rotations by replicas whose clocks disagree;
React's batching of updates, by which a cursor may be read later than the event it belongs to.

## Plan

Done, in this order: `Ownership` with its abstraction and proofs, `Presence`, `QuiltMutation`
over `QuiltLog`, `QuiltDelivery`, `Chat`; then `CanonicalWorld` and `CanonicalEntry`, the client's
own tiles, the gap of `Chat`, `QuiltTopology` and `QuiltView`, `QuiltRooms`, and the proofs of all
of these but `QuiltView`.

Left, in order of what it says about the system:

1. The replay of operations after a cursor for rooms of kind "events", with `Retention`, once a
   client asks for them.
2. Retention of chat messages, once the code has it.
3. Collision of convex polygons with integer corners, against separating axes.
