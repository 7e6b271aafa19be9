-------------------------- MODULE CanonicalEntry --------------------------
(* How a browser enters the canonical world and stays in it. Discovery issues an entry
   attempt; a handshake presents the attempt and, once it has one, a lineage; the server
   rotates the lineage in the database before it accepts the socket, and sends the new one
   over it. What the client reports about its entry consumes the attempt. The client is one
   page of one principal: useSocketConnection and the part of App that discovers the world.
   The world itself is that of CanonicalWorld. (The cycles a disconnect or a subscription
   leaves in the same table, for a report to consume, are left out: no other step reads them.)

   Several sockets of the page may be alive on the server at once, because it notices a
   lost transport late. Times are handshakes: the clock counts them, each reads it before
   its transaction (rotateLineage's now), and a row is valid for whoever read an earlier
   time than its "until". *)
EXTENDS CanonicalWorld, Sequences

CONSTANTS
  Socket,           \* sockets the server may serve at once
  MaxHandshake,     \* bound on handshakes
  LossBound,        \* bound on what goes wrong on the network and in the database
  ReplacementBound  \* bound on how often the page replaces its socket

ASSUME EntryAssumption ==
  /\ 0 \notin Socket
  /\ MaxHandshake \in Nat /\ LossBound \in Nat /\ ReplacementBound \in Nat

VARIABLES
  clock,         \* the next handshake's number
  attempt,       \* the canonical_attempts row of kind entry, and what was reported under it
  lineages,      \* the rows of kind reconnect that were issued: until when each is valid
  sockets,       \* the sockets, as the server sees them
  client,        \* the page
  posts,         \* entry reports on their way over HTTP
  losses, replacements

entryVars == <<clock, attempt, lineages, sockets, client, posts, losses, replacements>>
vars == <<worldVars, entryVars>>

Far == MaxHandshake + 2
NoAttempt == [until |-> 0, consumed |-> FALSE, reports |-> 0, failures |-> 0]
NoSocket == [at |-> "none", presented |-> 0, now |-> 0, lineage |-> 0, starting |-> FALSE,
             toClient |-> <<>>, reporting |-> FALSE]
Loading == [mode |-> "loading", link |-> "off", socket |-> 0, generation |-> 0, lineage |-> 0,
            epoch |-> 0, reported |-> FALSE, asking |-> FALSE]

TypeOK ==
  /\ WorldTypeOK
  /\ clock \in 1..MaxHandshake + 1
  /\ attempt \in [until: 0..Far, consumed: BOOLEAN, reports: Nat, failures: Nat]
  /\ Len(lineages) <= MaxHandshake
  /\ \A l \in DOMAIN lineages : lineages[l] \in 0..Far
  /\ \A s \in Socket :
       /\ sockets[s].at \in {"none", "rotating", "orphaned", "rejected", "open", "closing", "ended"}
       /\ sockets[s].presented \in 0..Len(lineages) /\ sockets[s].lineage \in 0..Len(lineages)
  /\ client.mode \in {"loading", "world", "unavailable", "signedOut"}
  /\ client.link \in {"off", "connecting", "opening", "up", "renewing", "refused", "failed", "exhausted"}
  /\ client.socket \in Socket \cup {0} /\ client.lineage \in 0..Len(lineages)
  /\ losses \in 0..LossBound /\ replacements \in 0..ReplacementBound

EntryInit ==
  /\ clock = 1 /\ attempt = NoAttempt /\ lineages = <<>>
  /\ sockets = [s \in Socket |-> NoSocket]
  /\ client = Loading /\ posts = 0
  /\ losses = 0 /\ replacements = 0

Init == WorldInit /\ EntryInit

\* One of the bounded number of things that go wrong.
Loss == losses < LossBound /\ losses' = losses + 1

-----------------------------------------------------------------------------
(* The page *)

\* The page lets go of its socket; what the server has sent and not delivered is lost.
LetGo ==
  LET s == client.socket IN
  IF s = 0 THEN UNCHANGED sockets
  ELSE sockets' = [sockets EXCEPT ![s] =
         IF @.at \in {"rejected", "ended"} THEN NoSocket ELSE [@ EXCEPT !.toClient = <<>>]]

\* clearProtectedWorldState: no descriptor, hence no socket.
Leave(mode) ==
  /\ client' = [client EXCEPT !.mode = mode, !.link = "off", !.socket = 0, !.asking = FALSE]
  /\ LetGo

\* GET /quilts/canonical as the page loads. The attempt is issued whatever the answer is;
\* one that never reaches the page is not kept here.
Discover ==
  /\ client.mode = "loading" /\ client.link = "off"
  /\ \/ /\ Discoverable
        /\ attempt' = [NoAttempt EXCEPT !.until = Far]
        /\ client' = [client EXCEPT !.link = "connecting", !.generation = pointer.generation]
        /\ UNCHANGED <<sockets, losses>>
     \/ ~Discoverable /\ Leave("unavailable") /\ UNCHANGED <<attempt, losses>>
     \/ Loss /\ Leave("unavailable") /\ UNCHANGED attempt
  /\ UNCHANGED <<worldVars, clock, lineages, posts, replacements>>

\* The discovery after every connection but a socket's first. A generation other than the
\* page's would replace the descriptor, but no world is active in two generations.
Rediscover ==
  /\ client.asking
  /\ \/ Discoverable /\ client' = [client EXCEPT !.asking = FALSE] /\ UNCHANGED <<sockets, losses>>
     \/ ~Discoverable /\ Leave("unavailable") /\ UNCHANGED losses
     \/ Loss /\ Leave("unavailable")
  /\ UNCHANGED <<worldVars, clock, attempt, lineages, posts, replacements>>

\* One of the sockets not in use; which one is all the same.
FreeSocket ==
  LET free == {s \in Socket : sockets[s] = NoSocket}
  IN IF free = {} THEN {} ELSE {CHOOSE s \in free : TRUE}

\* The transport opens and carries the handshake; the middleware reads the time.
Open ==
  /\ client.link = "connecting" /\ clock <= MaxHandshake
  /\ \E s \in FreeSocket :
       /\ sockets' = [sockets EXCEPT ![s] =
            [NoSocket EXCEPT !.at = "rotating", !.presented = client.lineage, !.now = clock]]
       /\ client' = [client EXCEPT !.link = "opening", !.socket = s]
  /\ clock' = clock + 1
  /\ UNCHANGED <<worldVars, attempt, lineages, posts, losses, replacements>>

\* The first connect_error of an effect is reported as a failed entry, over HTTP.
ReportFailedEntry == posts' = IF client.reported THEN posts ELSE posts + 1

\* The transport does not open: connect_error, and another attempt later.
ConnectFails ==
  /\ client.link = "connecting" /\ Loss
  /\ ReportFailedEntry
  /\ client' = [client EXCEPT !.reported = TRUE]
  /\ UNCHANGED <<worldVars, clock, attempt, lineages, sockets, replacements>>

\* Five failed attempts in a row: reconnect_failed, and socket.io stops trying.
GiveUp ==
  /\ client.link = "connecting" /\ client.reported /\ Loss
  /\ client' = [client EXCEPT !.link = "exhausted"]
  /\ UNCHANGED <<worldVars, clock, attempt, lineages, sockets, posts, replacements>>

\* The transport is lost: the page's disconnect handler, and socket.io reconnects.
TransportLost ==
  /\ client.link \in {"opening", "up"} /\ Loss
  /\ client' = [client EXCEPT !.link = "connecting", !.socket = 0]
  /\ LetGo
  /\ UNCHANGED <<worldVars, clock, attempt, lineages, posts, replacements>>

\* The effect of useSocketConnection runs again, because a page of chat history changed the
\* subscription it depends on: a new socket, and nothing of the old one's state. The
\* discovery under way belongs to App and goes on.
Replace ==
  /\ client.link = "up" /\ replacements < ReplacementBound
  /\ replacements' = replacements + 1
  /\ client' = [client EXCEPT !.link = "connecting", !.socket = 0, !.lineage = 0, !.epoch = 0,
                              !.reported = FALSE]
  /\ LetGo
  /\ UNCHANGED <<worldVars, clock, attempt, lineages, posts, losses>>

\* renewAndReconnect: a new token and a manual connect, or the session is over.
Renew ==
  /\ client.link = "renewing"
  /\ \/ client' = [client EXCEPT !.link = "connecting"] /\ UNCHANGED <<sockets, losses>>
     \/ Loss /\ Leave("signedOut")
  /\ UNCHANGED <<worldVars, clock, attempt, lineages, posts, replacements>>

-----------------------------------------------------------------------------
(* What the server sends, as the page receives it *)

Mail == IF client.socket = 0 THEN <<>> ELSE sockets[client.socket].toClient

\* The page takes the next message, and may report its entry over the same socket.
Take(message, report) ==
  /\ Mail # <<>> /\ Head(Mail) = message
  /\ sockets' = [sockets EXCEPT ![client.socket].toClient = Tail(@),
                                ![client.socket].reporting = @ \/ report]

OnConnect ==
  /\ Take("connect", FALSE)
  /\ client' = [client EXCEPT !.link = "up", !.asking = client.epoch >= 1,
                              !.epoch = IF @ = 0 THEN 1 ELSE 2]
  /\ UNCHANGED posts

OnLineage ==
  /\ Take("lineage", FALSE)
  /\ client' = [client EXCEPT !.lineage = sockets[client.socket].lineage]
  /\ UNCHANGED posts

OnProtocol ==
  /\ Take("protocol", ~client.reported)
  /\ client' = [client EXCEPT !.mode = "world", !.reported = TRUE]
  /\ UNCHANGED posts

\* A middleware error: socket.io does not try again, and nothing tells the page to.  The
\* errors of authentication, on which the page renews its token or gives up, are left out
\* with the verification of tokens.
OnRejection ==
  \E error \in {"refused", "failed"} :
    /\ Mail # <<>> /\ Head(Mail) = error
    /\ ReportFailedEntry
    /\ client' = [client EXCEPT !.link = error, !.socket = 0, !.reported = TRUE]
    /\ LetGo

\* The server closes the socket ("io server disconnect"), which ends the reconnecting of socket.io.
OnHangup ==
  /\ Mail # <<>> /\ Head(Mail) = "hangup"
  /\ client' = [client EXCEPT !.link = "renewing", !.socket = 0]
  /\ LetGo
  /\ UNCHANGED posts

Receive ==
  /\ OnConnect \/ OnLineage \/ OnProtocol \/ OnRejection \/ OnHangup
  /\ UNCHANGED <<worldVars, clock, attempt, lineages, losses, replacements>>

-----------------------------------------------------------------------------
(* The server *)

Listening(s) == client.socket = s
Say(s, messages) == IF Listening(s) THEN sockets[s].toClient \o messages ELSE <<>>

\* The server is done with the socket; the page may still have to read the last message.
Done(s, row) == IF Listening(s) /\ row.toClient # <<>> THEN [row EXCEPT !.at = "ended"] ELSE NoSocket

\* Mutant: every handshake needs the entry attempt itself.
UsableWithin(s) == attempt.until > sockets[s].now

\* What the handshake presents is still valid at the time it read: the lineage when it has
\* one, the entry attempt otherwise.
Usable(s) ==
  IF sockets[s].presented # 0 THEN lineages[sockets[s].presented] > sockets[s].now
                              ELSE attempt.until > sockets[s].now

\* Mutant: a rotation ends every lineage of the attempt.
RotatedAll(s) == Append([l \in DOMAIN lineages |-> sockets[s].now], Far)

\* rotateLineage: the presented lineage ends at the handshake's time and a new one begins.
Rotated(s) ==
  Append(IF sockets[s].presented = 0 THEN lineages
         ELSE [lineages EXCEPT ![sockets[s].presented] = sockets[s].now], Far)

\* next(error) in the middleware; a socket whose transport has closed is dropped.
Rejected(s, error) ==
  sockets' = [sockets EXCEPT ![s] =
    IF @.at = "orphaned" THEN NoSocket
    ELSE [NoSocket EXCEPT !.at = "rejected", !.toClient = Say(s, <<error>>)]]

\* enforceCanonicalSocketCompatibility, and the connection handler's first statements.
Handshake(s) ==
  /\ sockets[s].at \in {"rotating", "orphaned"}
  /\ IF Usable(s)
     THEN /\ lineages' = Rotated(s)
          /\ sockets' = [sockets EXCEPT ![s] =
               IF @.at = "orphaned" THEN NoSocket
               ELSE [NoSocket EXCEPT !.at = "open", !.presented = sockets[s].presented, !.starting = TRUE,
                       !.lineage = Len(lineages) + 1, !.toClient = Say(s, <<"connect", "lineage">>)]]
     ELSE Rejected(s, "refused") /\ UNCHANGED lineages
  /\ UNCHANGED <<worldVars, clock, attempt, client, posts, losses, replacements>>

\* The rotation throws, or it succeeds and the rate limiter rejects the connection after it.
HandshakeFails(s) ==
  /\ sockets[s].at \in {"rotating", "orphaned"} /\ Loss
  /\ \/ UNCHANGED lineages
     \/ Usable(s) /\ lineages' = Rotated(s)
  /\ Rejected(s, "failed")
  /\ UNCHANGED <<worldVars, clock, attempt, client, posts, replacements>>

OnTarget == Discoverable /\ pointer.generation = client.generation

\* initializeConnection: with the target still active the protocol is announced, otherwise
\* the failed entry is recorded and the socket disconnected. It goes on after a disconnect.
Admit(s) ==
  /\ sockets[s].starting
  /\ LET row == [sockets[s] EXCEPT !.starting = FALSE]
         open == row.at = "open"
     IN \/ /\ OnTarget
           /\ sockets' = [sockets EXCEPT ![s] =
                IF open THEN [row EXCEPT !.toClient = Say(s, <<"protocol">>)] ELSE row]
           /\ UNCHANGED <<attempt, losses>>
        \/ /\ (~OnTarget /\ UNCHANGED losses) \/ Loss
           /\ attempt' = [attempt EXCEPT !.failures = @ + 1]
           /\ sockets' = [sockets EXCEPT ![s] =
                IF open THEN [row EXCEPT !.at = "closing", !.reporting = FALSE, !.toClient = Say(s, <<"hangup">>)]
                ELSE row]
  /\ UNCHANGED <<worldVars, clock, lineages, client, posts, replacements>>

Hangup(s) ==
  sockets' = [sockets EXCEPT ![s].at = "closing", ![s].reporting = FALSE,
                             ![s].toClient = Say(s, <<"hangup">>)]

\* Mutant: the target is only looked at when the socket starts.
NotValidated(s) == FALSE

\* The validation interval of a socket finds the world inactive or changed.
Validate(s) ==
  /\ sockets[s].at = "open" /\ ~sockets[s].starting /\ ~OnTarget
  /\ Hangup(s)
  /\ UNCHANGED <<worldVars, clock, attempt, lineages, client, posts, losses, replacements>>

\* scheduleSocketExpiry: the access token has expired.
TokenExpires(s) ==
  /\ sockets[s].at = "open"
  /\ Hangup(s)
  /\ UNCHANGED <<worldVars, clock, attempt, lineages, client, posts, losses, replacements>>

\* The server notices that the transport is gone.
Notice(s) ==
  /\ sockets[s].at \in {"rotating", "rejected", "open"} /\ ~Listening(s)
  /\ sockets' = [sockets EXCEPT ![s] =
       CASE @.at = "rotating" -> [@ EXCEPT !.at = "orphaned"]
         [] @.at = "rejected" -> NoSocket
         [] @.at = "open" -> [@ EXCEPT !.at = "closing", !.reporting = FALSE]]
  /\ UNCHANGED <<worldVars, clock, attempt, lineages, client, posts, losses, replacements>>

\* The disconnect handler ends.
Disconnect(s) ==
  /\ sockets[s].at = "closing" /\ ~sockets[s].starting
  /\ sockets' = [sockets EXCEPT ![s] = Done(s, @)]
  /\ UNCHANGED <<worldVars, clock, attempt, lineages, client, posts, losses, replacements>>

\* Mutant: the row is not asked whether it has been consumed.
ConsumeAgain ==
  IF attempt.until > clock
  THEN attempt' = [attempt EXCEPT !.consumed = TRUE, !.reports = @ + 1]
  ELSE UNCHANGED attempt

\* consumeCanonicalAttempt of an entry: the row is consumed by one caller.
ConsumeEntry ==
  IF ~attempt.consumed /\ attempt.until > clock
  THEN attempt' = [attempt EXCEPT !.consumed = TRUE, !.reports = @ + 1]
  ELSE UNCHANGED attempt

\* canonical_telemetry over the socket.
Report(s) ==
  /\ sockets[s].reporting
  /\ sockets' = [sockets EXCEPT ![s].reporting = FALSE]
  /\ ConsumeEntry
  /\ UNCHANGED <<worldVars, clock, lineages, client, posts, losses, replacements>>

\* The same over HTTP, which needs an active world to name in the event.
ReceivePost ==
  /\ posts > 0
  /\ posts' = posts - 1
  /\ IF Discoverable THEN ConsumeEntry ELSE UNCHANGED attempt
  /\ UNCHANGED <<worldVars, clock, lineages, sockets, client, losses, replacements>>

\* The ten minutes of the entry attempt are over. (The 24 hours of a lineage never are:
\* every socket ends with its access token, after an hour or so.)
AttemptEnds ==
  /\ attempt.until = Far
  /\ attempt' = [attempt EXCEPT !.until = clock]
  /\ UNCHANGED <<worldVars, clock, lineages, sockets, client, posts, losses, replacements>>

-----------------------------------------------------------------------------

Serve(s) == Handshake(s) \/ Admit(s) \/ Validate(s) \/ Notice(s) \/ Disconnect(s) \/ Report(s)
Proceed == \/ Discover \/ Rediscover \/ Renew \/ Receive \/ ReceivePost
           \/ Open \/ \E s \in Socket : Serve(s)

Disturb == \/ ConnectFails \/ GiveUp \/ TransportLost \/ Replace \/ AttemptEnds
           \/ \E s \in Socket : HandshakeFails(s) \/ TokenExpires(s)

WorldMoves ==
  \/ Operate /\ UNCHANGED entryVars
  \/ Claim /\ UNCHANGED entryVars
  \/ \E i \in Initializer :
       \/ Status(i) /\ UNCHANGED entryVars
       \/ Provision(i) /\ UNCHANGED entryVars
       \/ Activate(i) /\ UNCHANGED entryVars
       \/ Crash(i) /\ UNCHANGED entryVars
       \/ Rerun(i) /\ UNCHANGED entryVars

Next == Proceed \/ Disturb \/ WorldMoves

\* Handlers finish, messages that are not lost arrive, intervals fire. Every one of these
\* steps uses up a bounded supply, so that what stays possible is taken in the end.
Spec == Init /\ [][Next]_vars /\ WF_vars(Proceed)

-----------------------------------------------------------------------------
(* Properties *)

\* The client reports an entry at most once, over whatever sockets and requests it tries.
ClientReportsOnce == attempt.reports <= 1

\* A page that holds a lineage is refused as too old only after something was lost. One
\* without is refused only after the ten minutes of its entry attempt: it connects that
\* late, or it has replaced its socket and forgotten the lineage that would have served.
RefusedOnlyAfterLoss ==
  client.link = "refused" => losses > 0 \/ (client.lineage = 0 /\ attempt.until # Far)

\* The lineage a connected page holds has not been rotated, not even by an earlier handshake
\* of its own that the server finishes late: the next reconnection will be accepted.
LineageInHand ==
  client.link = "up" /\ (\A i \in DOMAIN Mail : Mail[i] # "lineage") =>
    lineages[client.lineage] = Far

\* Once the world is inactive no page goes on showing it over a live connection: it is told
\* that the world is unavailable, unless its connection is given up before that (or the
\* handshakes of the bound are used up).
InactiveWorldIsLeft ==
  (client.mode = "world" /\ ~Discoverable) ~>
    [](\/ client.mode # "world" \/ client.link \in {"refused", "failed", "exhausted"}
       \/ client.link = "connecting" /\ clock > MaxHandshake)
=============================================================================
