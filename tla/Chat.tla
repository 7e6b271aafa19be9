-------------------------------- MODULE Chat --------------------------------
(***************************************************************************)
(* The shared conversation: handleChatSend and handleChatJoin of           *)
(* apps/server/src/realtime/chatHandlers.ts over chatRepository.ts, and    *)
(* the client's chat cache with the connection that follows its cursor     *)
(* (App.tsx, useSocketConnection.ts, chatCache.ts of apps/client).         *)
(*                                                                         *)
(* A handler is several steps, none of them in a transaction; a step takes  *)
(* an access check together with the read that follows it.  One replica     *)
(* serves everybody; what it has sent to a client arrives in any order, or  *)
(* never once the connection has ended.                                     *)
(***************************************************************************)
EXTENDS Naturals, FiniteSets, FiniteSetsExt

CONSTANTS
  Client, Principal,
  PrincipalOf,   \* the principal a client has signed in as
  Message,       \* client message ids
  AuthorOf,      \* the client that sends it
  Call,          \* its attempts: <<m, 1>>, and <<m, 2>> if it is sent again
  PageSize,      \* rows of a history page: 50
  MaxEvents      \* bound: second attempts, dropped connections, failed statements, crashes,
                 \* deactivations and presses of the button that loads more

ASSUME ChatAssumption ==
  /\ PrincipalOf \in [Client -> Principal]
  /\ AuthorOf \in [Message -> Client]
  /\ Call \subseteq Message \X Nat
  /\ {PageSize, MaxEvents} \subseteq Nat
  /\ PageSize > 0

VARIABLES
  rows,     \* chat_messages
  active,   \* the principals whose status is active
  call,     \* handleChatSend, by message and attempt
  join,     \* the chat_join requests of a connection that are being handled
  wire,     \* what the server has sent to a client
  conn,     \* the connection of a client, on both sides; due: the rows stored when it began
  cache,    \* the messages a client shows, its continuation cursor and its loading flag;
            \* jumped: it has asked for what follows a message it shows beyond its cursor
  events    \* those of the bound so far

vars == <<rows, active, call, join, wire, conn, cache, events>>

Sender(k) == AuthorOf[k[1]]
Row == [id : Message, seq : Nat \ {0}]

Step == {"none", "sent", "limited", "looked", "numbered", "stored", "done"}
Request == [cursor : Nat, page : SUBSET Row, read : BOOLEAN]

History(page) == [type |-> "history", page |-> page]
Accepted(r)   == [type |-> "accepted", row |-> r]
Refused       == [type |-> "refused"]

Answer == [type : {"history"}, page : SUBSET Row] \cup [type : {"accepted"}, row : Row]
          \cup {Refused}

Off == [on |-> FALSE, joined |-> FALSE, stale |-> FALSE, due |-> {}]

SeqOf(rs) == {r.seq : r \in rs}
Last(rs)  == IF rs = {} THEN 0 ELSE Max(SeqOf(rs))

Init ==
  /\ rows = {}
  /\ active = Principal
  /\ call = [k \in Call |-> [step |-> "none", seq |-> 0, live |-> FALSE]]
  /\ join = [c \in Client |-> {}]
  /\ wire = [c \in Client |-> {}]
  /\ conn = [c \in Client |-> Off]
  /\ cache = [c \in Client |-> [shown |-> {}, cursor |-> 0, loading |-> TRUE, jumped |-> FALSE]]
  /\ events = 0

-----------------------------------------------------------------------------
(* Sending: handleChatSend and sendMessage *)

\* The handler answers; a rejection leaves no trace but in the list of pending sends.
End(k) == call' = [call EXCEPT ![k].step = "done", ![k].seq = 0]
Reject(k) == End(k) /\ UNCHANGED wire

\* sendChatMessage; a second attempt is another user of the protocol.
Send(k) ==
  LET c == Sender(k) IN
  /\ call[k].step = "none"
  /\ \A h \in Call : h[1] = k[1] /\ h[2] < k[2] => call[h].step # "none"
  /\ conn[c].on
  /\ k[2] > 1 => events < MaxEvents
  /\ events' = IF k[2] > 1 THEN events + 1 ELSE events
  /\ call' = [call EXCEPT ![k] = [step |-> "sent", seq |-> 0, live |-> TRUE]]
  /\ UNCHANGED <<rows, active, join, wire, conn, cache>>

\* canAccessChatConversation, then checkChatRateLimit, which may find any number of
\* sends in the principal's rolling minute.
Admit(k) ==
  /\ call[k].step = "sent"
  /\ \/ /\ PrincipalOf[Sender(k)] \in active
        /\ call' = [call EXCEPT ![k].step = "limited"]
        /\ UNCHANGED wire
     \/ Reject(k)
  /\ UNCHANGED <<rows, active, join, conn, cache, events>>

\* sendMessage: authorization again and the row of an earlier attempt, two selects taken
\* together (the conversation itself is always there).
LookUp(k) ==
  LET found == {r \in rows : r.id = k[1]} IN
  /\ call[k].step = "limited"
  /\ \/ /\ PrincipalOf[Sender(k)] \notin active
        /\ Reject(k)
     \/ /\ PrincipalOf[Sender(k)] \in active /\ found # {}
        /\ End(k)
        /\ wire' = IF call[k].live THEN [wire EXCEPT ![Sender(k)] = @ \cup {Accepted(r) : r \in found}]
                   ELSE wire
     \/ /\ PrincipalOf[Sender(k)] \in active /\ found = {}
        /\ call' = [call EXCEPT ![k].step = "looked"]
        /\ UNCHANGED wire
  /\ UNCHANGED <<rows, active, join, conn, cache, events>>

\* Fault: the number comes from a counter, as a database sequence would give it.
NextOfCounter == 1 + Max({0} \cup SeqOf(rows) \cup {call[k].seq : k \in Call})

\* coalesce(max(sequence), 0) + 1
NextSequence == 1 + Last(rows)

Number(k) ==
  /\ call[k].step = "looked"
  /\ call' = [call EXCEPT ![k].step = "numbered", ![k].seq = NextSequence]
  /\ UNCHANGED <<rows, active, join, wire, conn, cache, events>>

\* Fault: no unique key on the client message id.
DuplicateNumber(r) == r.seq \in SeqOf(rows)

\* The unique constraints of chat_messages.
Duplicate(r) == \E s \in rows : s.seq = r.seq \/ s.id = r.id

Insert(k) ==
  LET r == [id |-> k[1], seq |-> call[k].seq] IN
  /\ call[k].step = "numbered"
  /\ \/ /\ ~Duplicate(r)
        /\ rows' = rows \cup {r}
        /\ call' = [call EXCEPT ![k].step = "stored"]
        /\ UNCHANGED wire
     \/ Duplicate(r) /\ Reject(k) /\ UNCHANGED rows
  /\ UNCHANGED <<active, join, conn, cache, events>>

\* The author's profile is read; the event goes to the room and to the sender.
Publish(k) ==
  LET r == [id |-> k[1], seq |-> call[k].seq] IN
  /\ call[k].step = "stored"
  /\ End(k)
  /\ wire' = [c \in Client |->
       IF conn[c].joined \/ (c = Sender(k) /\ call[k].live)
       THEN wire[c] \cup {Accepted(r)} ELSE wire[c]]
  /\ UNCHANGED <<rows, active, join, conn, cache, events>>

\* A statement fails: the catch clause rejects the send, even if its row is stored.
SendFails(k) ==
  /\ events < MaxEvents
  /\ call[k].step \in {"limited", "looked", "numbered", "stored"}
  /\ Reject(k)
  /\ events' = events + 1
  /\ UNCHANGED <<rows, active, join, conn, cache>>

-----------------------------------------------------------------------------
(* Joining: handleChatJoin and getConversationHistory *)

After(n) == {r \in rows : r.seq > n}

Page(n) == {r \in After(n) : Cardinality({s \in After(n) : s.seq < r.seq}) < PageSize}

\* The access check and the history read, taken together; the room comes later.
ReadHistory(c, q) ==
  /\ q \in join[c] /\ ~q.read
  /\ \/ /\ PrincipalOf[c] \in active
        /\ join' = [join EXCEPT ![c] = (@ \ {q}) \cup {[q EXCEPT !.read = TRUE, !.page = Page(q.cursor)]}]
        /\ UNCHANGED wire
     \/ /\ PrincipalOf[c] \notin active
        /\ join' = [join EXCEPT ![c] = @ \ {q}]
        /\ wire' = [wire EXCEPT ![c] = @ \cup {Refused}]
  /\ UNCHANGED <<rows, active, call, conn, cache, events>>

JoinRoom(c, q) ==
  /\ q \in join[c] /\ q.read
  /\ join' = [join EXCEPT ![c] = @ \ {q}]
  /\ conn' = [conn EXCEPT ![c].joined = TRUE]
  /\ wire' = [wire EXCEPT ![c] = @ \cup {History(q.page)}]
  /\ UNCHANGED <<rows, active, call, cache, events>>

-----------------------------------------------------------------------------
(* The client *)

\* Fault: a chat_join goes on, and joins whatever connection the client has by then.
HangUpOnly(cs) ==
  /\ wire' = [c \in Client |-> IF c \in cs THEN {} ELSE wire[c]]
  /\ conn' = [c \in Client |-> IF c \in cs THEN Off ELSE conn[c]]
  /\ UNCHANGED join

\* The connections of cs end: what is on its way to them is lost, the calls go on.
HangUp(cs) ==
  /\ wire' = [c \in Client |-> IF c \in cs THEN {} ELSE wire[c]]
  /\ join' = [c \in Client |-> IF c \in cs THEN {} ELSE join[c]]
  /\ conn' = [c \in Client |-> IF c \in cs THEN Off
                               ELSE conn[c]]

Ask(c, n) == join' = [join EXCEPT ![c] = @ \cup {[cursor |-> n, page |-> {}, read |-> FALSE]}]

\* The connect handler asks for the history after the cursor.  An effect that replaces
\* the socket runs before socket.io would connect the old one again.
Connect(c) ==
  /\ ~conn[c].on
  /\ conn' = [conn EXCEPT ![c].on = TRUE, ![c].due = rows]
  /\ Ask(c, cache[c].cursor)
  /\ UNCHANGED <<rows, active, call, wire, cache, events>>

\* "Load older messages" asks for what follows the oldest message shown; where that one
\* came as an event, what is stored between the cursor and it is jumped.
LoadMore(c) ==
  LET oldest == Min(SeqOf(cache[c].shown)) IN
  /\ conn[c].on /\ ~cache[c].loading /\ cache[c].shown # {}
  /\ events < MaxEvents
  /\ events' = events + 1
  /\ cache' = [cache EXCEPT ![c].loading = TRUE,
                            ![c].jumped = @ \/ oldest > cache[c].cursor + 1]
  /\ Ask(c, oldest)
  /\ UNCHANGED <<rows, active, call, wire, conn>>

\* mergeChatStateHistory
MergeHistory(c, page) ==
  [cache[c] EXCEPT !.shown = @ \cup page, !.loading = FALSE,
                   !.cursor = IF page = {} THEN @ ELSE Last(page)]

\* Fault: the subscription is not made anew.
ReceiveOnly(c, w) ==
  /\ w.type = "history"
  /\ cache' = [cache EXCEPT ![c] = MergeHistory(c, w.page)]
  /\ UNCHANGED conn

\* A new cursor is a new subscription, for which the effect opens a new socket.
ReceiveHistory(c, w) ==
  /\ w.type = "history"
  /\ cache' = [cache EXCEPT ![c] = MergeHistory(c, w.page)]
  /\ conn' = [conn EXCEPT ![c].stale = @ \/ w.page # {}]

\* mergeChatStateMessage, acknowledgeMessage and onChatError
ReceiveOther(c, w) ==
  /\ \/ w.type = "accepted" /\ cache' = [cache EXCEPT ![c].shown = @ \cup {w.row}]
     \/ w.type = "refused" /\ cache' = [cache EXCEPT ![c].loading = FALSE]
  /\ UNCHANGED conn

Receive(c, w) ==
  /\ w \in wire[c]
  /\ ReceiveHistory(c, w) \/ ReceiveOther(c, w)
  /\ wire' = [wire EXCEPT ![c] = @ \ {w}]
  /\ UNCHANGED <<rows, active, call, join, events>>

\* The calls of a connection that has ended answer nobody.
Mute(cs) == [k \in Call |-> IF Sender(k) \in cs THEN [call[k] EXCEPT !.live = FALSE] ELSE call[k]]

\* The effect runs again because chatSubscription has changed.
Replace(c) ==
  /\ conn[c].stale
  /\ HangUp({c}) /\ call' = Mute({c})
  /\ UNCHANGED <<rows, active, cache, events>>

Drop(c) ==
  /\ conn[c].on /\ ~conn[c].stale
  /\ events < MaxEvents
  /\ events' = events + 1
  /\ HangUp({c}) /\ call' = Mute({c})
  /\ UNCHANGED <<rows, active, cache>>

\* A call that was on its way when its connection ended may never arrive.
Lose(k) ==
  /\ call[k].step = "sent" /\ ~call[k].live
  /\ End(k)
  /\ UNCHANGED <<rows, active, join, wire, conn, cache, events>>

-----------------------------------------------------------------------------
(* The rest of the server *)

\* The process dies; so it does when a statement of handleChatJoin, or the access check
\* of handleChatSend, fails, which nothing catches.
Crash ==
  /\ events < MaxEvents
  /\ events' = events + 1
  /\ HangUp(Client)
  /\ call' = [k \in Call |-> IF call[k].step = "none" THEN call[k]
                             ELSE [step |-> "done", seq |-> 0, live |-> FALSE]]
  /\ UNCHANGED <<rows, active, cache>>

\* The account is to be deleted.
Deactivate(p) ==
  /\ events < MaxEvents
  /\ p \in active
  /\ active' = active \ {p}
  /\ events' = events + 1
  /\ UNCHANGED <<rows, call, join, wire, conn, cache>>

-----------------------------------------------------------------------------
Handle(k) == Admit(k) \/ LookUp(k) \/ Number(k) \/ Insert(k) \/ Publish(k)

Next ==
  \/ \E k \in Call : Send(k) \/ Handle(k) \/ SendFails(k) \/ Lose(k)
  \/ \E c \in Client : \/ Connect(c) \/ LoadMore(c) \/ Replace(c) \/ Drop(c)
                       \/ \E q \in join[c] : ReadHistory(c, q) \/ JoinRoom(c, q)
                       \/ \E w \in wire[c] : Receive(c, w)
  \/ \E p \in Principal : Deactivate(p)
  \/ Crash

Spec == Init /\ [][Next]_vars

-----------------------------------------------------------------------------
(* Type correctness *)

\* Tables, handlers, connections and caches are well formed, a handler that has ended
\* holds no number, and only a connection that is up is in the room.
TypeOK ==
  /\ rows \subseteq Row
  /\ active \subseteq Principal
  /\ call \in [Call -> [step : Step, seq : Nat, live : BOOLEAN]]
  /\ join \in [Client -> SUBSET Request]
  /\ wire \in [Client -> SUBSET Answer]
  /\ conn \in [Client -> [on : BOOLEAN, joined : BOOLEAN, stale : BOOLEAN, due : SUBSET Row]]
  /\ cache \in [Client -> [shown : SUBSET Row, cursor : Nat, loading : BOOLEAN, jumped : BOOLEAN]]
  /\ \A k \in Call : call[k].step \in {"none", "done"} => call[k].seq = 0
  /\ \A c \in Client : conn[c].joined => conn[c].on
  /\ events \in 0 .. MaxEvents

(* Safety *)

\* A client asks for the history after its cursor only: whatever is stored up to there,
\* however concurrently it was numbered and stored, the client has, unless it has jumped.
NothingSkipped ==
  \A c \in Client : ~cache[c].jumped =>
    \A r \in rows : r.seq <= cache[c].cursor => r \in cache[c].shown

\* However its attempts interleave, a message is stored once, under a number of its own.
StoredOnce == \A r, s \in rows : r.id = s.id \/ r.seq = s.seq => r = s

\* A connection that has joined, with nothing asked for or on its way.
Settled(c) == conn[c].joined /\ ~conn[c].stale /\ join[c] = {} /\ wire[c] = {}

Replayed(c) == conn[c].due \subseteq cache[c].shown

\* What was stored while a client was away, over however many pages, it has once its
\* connection settles, unless it has jumped.
MissedIsReplayed == \A c \in Client : Settled(c) /\ ~cache[c].jumped => Replayed(c)

\* docs/chat-product-contract.md: "Reconnecting principals receive replay of missed
\* messages via cursor-based replay."  By the time nothing waits to be published either.
ReplayIsComplete ==
  (\A k \in Call : call[k].step # "stored") => \A c \in Client : Settled(c) => Replayed(c)
=============================================================================
