-------------------------- MODULE CanonicalProofs --------------------------
(* Proofs about CanonicalWorld and CanonicalEntry, for any number of initializers and
   sockets and any bounds. *)
EXTENDS CanonicalEntry, FiniteSetTheorems, SequenceTheorems, TLAPS

-----------------------------------------------------------------------------
(* The world *)

\* The status of the pointer and its generation go together.
Phases ==
  /\ pointer.status = "missing" <=> pointer.generation = 0
  /\ pointer.status = "active" <=> pointer.generation = 2
  /\ pointer.status = "missing" => pointer.geometry = Deployed

\* An initializer that is about to activate has read the pointer: it names its quilt, and
\* a generation the pointer had while it was inactive.
Informed ==
  \A i \in Initializer : job[i].at = "activate" =>
    /\ pointer.status # "missing" /\ job[i].quilt = pointer.quilt
    /\ job[i].expected = 1 \/ (job[i].expected = 3 /\ pointer.generation = 3)

Pointers == [status: {"missing", "inactive", "active"}, generation: 0..3,
             quilt: Quilt \cup {NoQuilt}, geometry: Geometry]
Rows == [at: {"status", "provision", "activate", "succeeded", "refused", "crashed"},
         quilt: Quilt \cup {NoQuilt}, expected: 0..3]

WorldInv ==
  /\ pointer \in Pointers /\ job \in [Initializer -> Rows]
  /\ Phases /\ Informed /\ RefusedForAReason

\* No initializer has started, and there is no world.
LEMMA WorldStarts == WorldInit => WorldInv
  <1> SUFFICES ASSUME WorldInit PROVE WorldInv
    OBVIOUS
  <1>1. pointer \in Pointers /\ Phases
    BY WorldAssumption DEF WorldInit, NoPointer, Pointers, Phases
  <1>2. Asking \in Rows
    BY DEF Asking, Rows
  <1>3. job \in [Initializer -> Rows] /\ \A i \in Initializer : job[i].at = "status"
    BY <1>2 DEF WorldInit, Asking
  <1> QED BY <1>1, <1>3 DEF WorldInv, Informed, RefusedForAReason

\* A command on the pointer, whoever gives it, takes it one phase on; nothing else moves it.
Advance ==
  \/ \E q \in Quilt, g \in Geometry : CanProvision /\ SetProvisioned(q, g)
  \/ pointer.status = "inactive" /\ pointer.generation = 1 /\ SetActive
  \/ pointer.status = "active" /\ SetInactive(pointer.generation)
  \/ UNCHANGED pointer

\* Every command is one of these.
LEMMA Advances == ASSUME WorldInv, WorldNext PROVE Advance
  <1>1. CASE Operate
    BY <1>1 DEF Operate, Advance, CanActivate, CanDeactivate
  <1>2. CASE Claim
    BY <1>2 DEF Claim, Advance
  <1>3. ASSUME NEW i \in Initializer, Execute(i) \/ Crash(i) \/ Rerun(i) PROVE Advance
    BY <1>3, WorldAssumption
       DEF Execute, Status, Provision, Activate, Crash, Rerun, Advance, CanActivate, world
  <1> QED BY <1>1, <1>2, <1>3 DEF WorldNext

\* Where a step can leave the pointer.
Onward ==
  /\ pointer' \in Pointers
  /\ Phases'
  /\ pointer.status # "missing" =>
       /\ pointer'.status # "missing" /\ pointer'.quilt = pointer.quilt
       /\ pointer'.geometry = pointer.geometry
  /\ pointer'.generation >= pointer.generation
  /\ pointer.generation = 3 => pointer' = pointer

\* A step of the world leaves the pointer further on.
LEMMA PointerStep == ASSUME WorldInv, WorldNext PROVE Onward
  <1> USE DEF WorldInv, Pointers, Phases, Onward
  <1>1. ASSUME NEW q \in Quilt, NEW g \in Geometry, CanProvision, SetProvisioned(q, g) PROVE Onward
    BY <1>1 DEF CanProvision, SetProvisioned
  <1>2. CASE pointer.status = "inactive" /\ pointer.generation = 1 /\ SetActive
    <2>1. pointer' = [status |-> "active", generation |-> 2,
                      quilt |-> pointer.quilt, geometry |-> pointer.geometry]
      BY <1>2 DEF SetActive
    <2> QED BY <1>2, <2>1
  <1>3. CASE pointer.status = "active" /\ SetInactive(pointer.generation)
    <2>1. pointer.generation = 2
      BY <1>3
    <2>2. pointer' = [status |-> "inactive", generation |-> pointer.generation + 1,
                      quilt |-> pointer.quilt, geometry |-> pointer.geometry]
      BY <1>3 DEF SetInactive
    <2> QED BY <1>3, <2>1, <2>2
  <1>4. CASE UNCHANGED pointer
    BY <1>4
  <1> QED BY <1>1, <1>2, <1>3, <1>4, Advances DEF Advance

\* What a row must satisfy for its initializer to take it on.
Fitting(row) ==
  /\ row \in Rows
  /\ row.at = "activate" =>
       /\ pointer'.status # "missing" /\ row.quilt = pointer'.quilt
       /\ row.expected = 1 \/ (row.expected = 3 /\ pointer'.generation = 3)
  /\ row.at = "refused" => pointer'.generation >= 2 \/ pointer'.geometry # Deployed \/ claimed

\* One initializer gets a row that fits.
LEMMA Rewritten ==
  ASSUME WorldInv, Onward, claimed => claimed',
         NEW i \in Initializer, NEW row, Move(i, row), Fitting(row)
  PROVE  WorldInv'
  <1>1. job' \in [Initializer -> Rows] /\ job'[i] = row
    BY DEF Move, WorldInv, Fitting
  <1>2. \A k \in Initializer \ {i} : job'[k] = job[k]
    BY DEF Move, WorldInv
  <1>3. Informed'
    BY <1>1, <1>2 DEF WorldInv, Onward, Fitting, Informed, Pointers
  <1>4. ASSUME NEW k \in Initializer, job'[k].at = "refused"
        PROVE  pointer'.generation >= 2 \/ pointer'.geometry # Deployed \/ claimed'
    <2>1. CASE k = i
      BY <2>1, <1>1, <1>4 DEF Fitting
    <2>2. CASE k # i
      <3>1. pointer.generation >= 2 \/ pointer.geometry # Deployed \/ claimed
        BY <2>2, <1>2, <1>4 DEF WorldInv, RefusedForAReason
      <3> QED BY <3>1 DEF WorldInv, Onward, Pointers, Phases
    <2> QED BY <2>1, <2>2
  <1> QED BY <1>1, <1>3, <1>4 DEF WorldInv, Onward, RefusedForAReason

\* An initializer that reads or advances the pointer knows it afterwards.
LEMMA WorldStep == ASSUME WorldInv, WorldNext PROVE WorldInv'
  <1>1. Onward
    BY PointerStep
  <1>2. ASSUME UNCHANGED job, claimed => claimed' PROVE WorldInv'
    BY <1>1, <1>2 DEF WorldInv, Onward, Pointers, Phases, Informed, RefusedForAReason
  <1>3. CASE Operate \/ Claim
    BY <1>2, <1>3 DEF Operate, Claim
  <1>4. ASSUME NEW i \in Initializer, UNCHANGED claimed, NEW row, Move(i, row), Fitting(row)
        PROVE  WorldInv'
    <2>1. claimed => claimed'
      BY <1>4
    <2> QED BY <1>1, <1>4, <2>1, Rewritten
  <1>5. ASSUME NEW i \in Initializer, UNCHANGED claimed, NEW at, End(i, at),
               at \in {"status", "provision", "succeeded", "refused", "crashed"},
               at = "refused" => pointer'.generation >= 2 \/ pointer'.geometry # Deployed \/ claimed
        PROVE  WorldInv'
    <2> DEFINE row == [at |-> at, quilt |-> NoQuilt, expected |-> 0]
    <2>1. Move(i, row)
      BY <1>5 DEF End, Asking
    <2>2. Fitting(row)
      BY <1>5 DEF Fitting, Rows
    <2> HIDE DEF row
    <2> QED BY <1>4, <1>5, <2>1, <2>2
  <1>6. ASSUME NEW i \in Initializer, UNCHANGED claimed, NEW q, NEW e, Move(i, ToActivate(q, e)),
               pointer'.status # "missing", q = pointer'.quilt,
               e = 1 \/ (e = 3 /\ pointer'.generation = 3)
        PROVE  WorldInv'
    <2>1. q \in Quilt \cup {NoQuilt}
      BY <1>1, <1>6 DEF Onward, Pointers
    <2>2. Fitting(ToActivate(q, e))
      BY <1>6, <2>1 DEF Fitting, Rows, ToActivate
    <2> QED BY <1>4, <1>6, <2>2
  <1>7. ASSUME NEW i \in Initializer, Execute(i) \/ Crash(i) \/ Rerun(i) PROVE WorldInv'
    <2>1. CASE Status(i)
      <3>1. pointer' = pointer /\ UNCHANGED claimed
        BY <2>1 DEF Status, world
      <3>2. CASE Move(i, [Asking EXCEPT !.at = "provision"])
        BY <3>1, <3>2, <1>5 DEF End
      <3>3. CASE End(i, "succeeded")
        BY <3>1, <3>3, <1>5
      <3>4. CASE pointer.status = "inactive" /\ Move(i, ToActivate(pointer.quilt, pointer.generation))
        <4>1. pointer.generation = 1 \/ pointer.generation = 3
          BY <3>4 DEF WorldInv, Pointers, Phases
        <4> QED BY <3>1, <3>4, <4>1, <1>6
      <3> QED BY <2>1, <3>2, <3>3, <3>4 DEF Status
    <2>2. CASE Provision(i)
      <3>1. UNCHANGED claimed
        BY <2>2 DEF Provision
      <3>2. ASSUME NEW q \in Quilt, SetProvisioned(q, Deployed), Move(i, ToActivate(q, 1))
            PROVE  WorldInv'
        BY <3>1, <3>2, <1>6 DEF SetProvisioned
      <3>3. CASE JustProvisioned(Deployed) /\ Move(i, ToActivate(pointer.quilt, 1)) /\ UNCHANGED pointer
        <4>1. pointer'.status # "missing" /\ pointer'.quilt = pointer.quilt
          BY <3>3 DEF JustProvisioned
        <4> QED BY <3>1, <3>3, <4>1, <1>6
      <3>4. CASE ~CanProvision /\ ~JustProvisioned(Deployed) /\ End(i, "refused") /\ UNCHANGED pointer
        <4>1. pointer'.generation >= 2 \/ pointer'.geometry # Deployed \/ claimed
          BY <3>4 DEF CanProvision, JustProvisioned, Untouched, WorldInv, Pointers, Phases
        <4> QED BY <3>1, <3>4, <4>1, <1>5
      <3> QED BY <2>2, <3>2, <3>3, <3>4 DEF Provision
    <2>3. CASE Activate(i)
      <3>1. UNCHANGED claimed
        BY <2>3 DEF Activate
      <3>2. CASE End(i, "succeeded")
        BY <3>1, <3>2, <1>5
      <3>3. CASE /\ ~CanActivate(job[i].quilt, job[i].expected)
                 /\ ~JustActivated(job[i].quilt, job[i].expected)
                 /\ End(i, "refused") /\ UNCHANGED pointer
        <4>1. pointer.generation = 3
          BY <2>3, <3>3 DEF Activate, CanActivate, JustActivated, WorldInv, Pointers, Phases, Informed
        <4>2. pointer'.generation >= 2
          BY <3>3, <4>1
        <4> QED BY <3>1, <3>3, <4>2, <1>5
      <3> QED BY <2>3, <3>2, <3>3 DEF Activate
    <2>4. CASE Crash(i) \/ Rerun(i)
      <3>1. UNCHANGED claimed
        BY <2>4 DEF Crash, Rerun, world
      <3>2. Asking = [Asking EXCEPT !.at = "status"]
        BY DEF Asking
      <3>3. End(i, "crashed") \/ End(i, "status")
        BY <2>4, <3>2 DEF Crash, Rerun, End
      <3> QED BY <3>1, <3>3, <1>5
    <2> QED BY <1>7, <2>1, <2>2, <2>3, <2>4 DEF Execute
  <1> QED BY <1>3, <1>7 DEF WorldNext

\* The page and the sockets read the world and leave it alone.
LEMMA WorldMoved == [Next]_vars => [WorldNext]_worldVars
  <1>1. ASSUME Proceed PROVE UNCHANGED worldVars
    <2>1. ASSUME NEW s \in Socket, Serve(s) PROVE UNCHANGED worldVars
      BY <2>1 DEF Serve, Handshake, Admit, Validate, Notice, Disconnect, Report
    <2> QED BY <1>1, <2>1 DEF Proceed, Discover, Rediscover, Renew, Receive, ReceivePost, Open
  <1>2. ASSUME Disturb PROVE UNCHANGED worldVars
    BY <1>2 DEF Disturb, ConnectFails, GiveUp, TransportLost, Replace, AttemptEnds,
                HandshakeFails, TokenExpires
  <1>3. ASSUME WorldMoves PROVE WorldNext
    BY <1>3 DEF WorldMoves, WorldNext, Execute
  <1> QED BY <1>1, <1>2, <1>3 DEF Next, vars

\* The world's invariant, whatever the page and the sockets do.
LEMMA WorldAlways == Spec => []WorldInv
  <1>1. Init => WorldInv
    BY WorldStarts DEF Init
  <1>2. WorldInv /\ [Next]_vars => WorldInv'
    <2>1. ASSUME WorldInv, UNCHANGED worldVars PROVE WorldInv'
      BY <2>1 DEF WorldInv, Phases, Informed, RefusedForAReason, worldVars
    <2> QED BY <2>1, WorldStep, WorldMoved
  <1> QED BY <1>1, <1>2, PTL DEF Spec

\* However many deployments run at once, stop half-way and are repeated, an initializer is
\* refused only for a world that is up, was taken down or is not the one it asks for.
THEOREM RefusalsAreJustified == Spec => []RefusedForAReason
  <1>1. WorldInv => RefusedForAReason
    BY DEF WorldInv
  <1> QED BY <1>1, WorldAlways, PTL

\* The canonical quilt is never replaced, and a world taken down stays down.
THEOREM WorldIsFinal == Spec => NeverReplaced
  <1> DEFINE Kept == /\ pointer.status # "missing" => pointer'.quilt = pointer.quilt
                     /\ pointer.generation = 3 => pointer' = pointer
  <1>1. WorldInv /\ [Next]_vars => [Kept]_worldVars
    <2>1. WorldInv /\ WorldNext => Kept
      BY PointerStep DEF Onward
    <2> QED BY <2>1, WorldMoved
  <1>2. Spec => [][Kept]_worldVars
    BY <1>1, WorldAlways, PTL DEF Spec
  <1> QED BY <1>2, PTL DEF NeverReplaced

-----------------------------------------------------------------------------
(* The entry attempt *)

\* The row is consumed by exactly the report that is counted.
Accounted ==
  /\ attempt = [until |-> attempt.until, consumed |-> attempt.consumed,
                reports |-> attempt.reports, failures |-> attempt.failures]
  /\ attempt.reports \in {0, 1}
  /\ attempt.reports = 1 => attempt.consumed

\* Steps that leave the report alone.
LEMMA AttemptKept ==
  ASSUME Accounted, NEW u, NEW f,
         attempt' = [until |-> u, consumed |-> attempt.consumed,
                     reports |-> attempt.reports, failures |-> f]
  PROVE  Accounted'
  <1>1. attempt'.consumed = attempt.consumed
    BY Zenon
  <1>2. attempt'.reports = attempt.reports
    OBVIOUS
  <1>3. attempt' = [until |-> attempt'.until, consumed |-> attempt'.consumed,
                    reports |-> attempt'.reports, failures |-> attempt'.failures]
    BY Zenon
  <1> QED BY <1>1, <1>2, <1>3 DEF Accounted

\* Every step keeps the account.
LEMMA AccountedStep == ASSUME Accounted, [Next]_vars PROVE Accounted'
  <1>1. ASSUME UNCHANGED attempt PROVE Accounted'
    BY <1>1 DEF Accounted
  <1>2. ASSUME ConsumeEntry PROVE Accounted'
    <2>1. CASE ~attempt.consumed /\ attempt' = [attempt EXCEPT !.consumed = TRUE, !.reports = @ + 1]
      <3>1. attempt' = [until |-> attempt.until, consumed |-> TRUE,
                        reports |-> attempt.reports + 1, failures |-> attempt.failures]
        BY <2>1 DEF Accounted
      <3>2. attempt'.consumed = TRUE
        BY <3>1, Zenon
      <3>3. attempt'.reports = 1
        BY <2>1, <3>1 DEF Accounted
      <3>4. attempt' = [until |-> attempt'.until, consumed |-> attempt'.consumed,
                        reports |-> attempt'.reports, failures |-> attempt'.failures]
        BY <3>1
      <3> QED BY <3>2, <3>3, <3>4 DEF Accounted
    <2> QED BY <1>1, <1>2, <2>1 DEF ConsumeEntry
  <1>3. CASE Discover
    <2>1. CASE attempt' = [NoAttempt EXCEPT !.until = Far]
      <3>1. attempt' = [until |-> Far, consumed |-> FALSE, reports |-> 0, failures |-> 0]
        BY <2>1 DEF NoAttempt
      <3>2. attempt'.reports = 0
        BY <3>1
      <3>3. attempt' = [until |-> attempt'.until, consumed |-> attempt'.consumed,
                        reports |-> attempt'.reports, failures |-> attempt'.failures]
        BY <3>1, Zenon
      <3> QED BY <3>2, <3>3 DEF Accounted
    <2> QED BY <1>1, <1>3, <2>1 DEF Discover
  <1>4. CASE Open
    BY <1>4, <1>1 DEF Open
  <1>5. CASE Rediscover \/ Renew \/ Receive
    BY <1>5, <1>1 DEF Rediscover, Renew, Receive
  <1>6. CASE ReceivePost
    BY <1>6, <1>1, <1>2 DEF ReceivePost
  <1>7. ASSUME NEW s \in Socket, Serve(s) PROVE Accounted'
    <2>1. CASE Admit(s)
      <3>1. CASE attempt' = [attempt EXCEPT !.failures = @ + 1]
        <4>1. attempt' = [until |-> attempt.until, consumed |-> attempt.consumed,
                          reports |-> attempt.reports, failures |-> attempt.failures + 1]
          BY <3>1 DEF Accounted
        <4> QED BY <4>1, AttemptKept
      <3> QED BY <1>1, <2>1, <3>1 DEF Admit
    <2>2. CASE Report(s)
      BY <2>2, <1>2 DEF Report
    <2>3. CASE Handshake(s) \/ Validate(s) \/ Notice(s) \/ Disconnect(s)
      BY <2>3, <1>1 DEF Handshake, Validate, Notice, Disconnect
    <2> QED BY <1>7, <2>1, <2>2, <2>3 DEF Serve
  <1>8. CASE AttemptEnds
    <2>1. attempt' = [until |-> clock, consumed |-> attempt.consumed,
                      reports |-> attempt.reports, failures |-> attempt.failures]
      BY <1>8 DEF AttemptEnds, Accounted
    <2> QED BY <2>1, AttemptKept
  <1>9. CASE Disturb /\ ~AttemptEnds
    BY <1>9, <1>1 DEF Disturb, ConnectFails, GiveUp, TransportLost, Replace, HandshakeFails, TokenExpires
  <1>10. CASE WorldMoves \/ UNCHANGED vars
    BY <1>10, <1>1 DEF WorldMoves, entryVars, vars
  <1> QED BY <1>3, <1>4, <1>5, <1>6, <1>7, <1>8, <1>9, <1>10 DEF Next, Proceed

\* An entry attempt is reported by the client at most once, whatever sockets and requests
\* carry the report and however often it is repeated.
THEOREM ReportedOnce == Spec => []ClientReportsOnce
  <1>1. Init => Accounted
    BY DEF Init, EntryInit, NoAttempt, Accounted
  <1>2. Accounted => ClientReportsOnce
    BY DEF Accounted, ClientReportsOnce
  <1>3. Accounted /\ [Next]_vars => Accounted'
    BY AccountedStep
  <1> QED BY <1>1, <1>2, <1>3, PTL DEF Spec

-----------------------------------------------------------------------------
(* Entry: types *)

\* What the server sends.
Word == {"connect", "lineage", "protocol", "hangup", "refused", "failed"}

Pages == [mode : {"loading", "world", "unavailable", "signedOut"},
          link : {"off", "connecting", "opening", "up", "renewing", "refused", "failed",
                  "exhausted"},
          socket : Socket \cup {0}, generation : 0..3, lineage : Nat, epoch : 0..2,
          reported : BOOLEAN, asking : BOOLEAN]
SocketRows == [at : {"none", "rotating", "orphaned", "rejected", "open", "closing", "ended"},
               presented : Nat, now : Nat, lineage : Nat, starting : BOOLEAN,
               toClient : Seq(Word), reporting : BOOLEAN]
Attempts == [until : 0..Far, consumed : BOOLEAN, reports : Nat, failures : Nat]

\* Handshakes that have read the time, and may still rotate a lineage.
Rotating(s) == sockets[s].at \in {"rotating", "orphaned"}
Pending == {s \in Socket : Rotating(s)}

\* Every lineage was issued by a handshake, and those under way may issue one each.
Counted == IsFiniteSet(Pending) /\ Len(lineages) + Cardinality(Pending) < clock

Shaped ==
  /\ clock \in 1..MaxHandshake + 1
  /\ attempt \in Attempts
  /\ lineages \in Seq(0..Far)
  /\ sockets \in [Socket -> SocketRows] /\ client \in Pages
  /\ losses \in 0..LossBound /\ replacements \in 0..ReplacementBound

\* The lineages that sockets and page name have been issued.
Issued ==
  /\ \A s \in Socket : sockets[s].presented <= Len(lineages) /\ sockets[s].lineage <= Len(lineages)
  /\ \A s \in Socket : sockets[s].now < clock
  /\ client.lineage <= Len(lineages)

-----------------------------------------------------------------------------
(* Entry: the page and its socket *)

\* The server has accepted the socket, and may have hung up since.
Accepted(s) == sockets[s].at \in {"open", "closing", "ended"}

Attached ==
  /\ client.socket # 0 <=> client.link \in {"opening", "up"}
  /\ \A s \in Socket :
       sockets[s].at \in {"none", "rotating", "orphaned"} => sockets[s].toClient = <<>>
  /\ client.socket # 0 => sockets[client.socket].at \notin {"none", "orphaned"}
  /\ client.link = "up" => Accepted(client.socket)

\* What the page has still to read of its socket: a rejection, or the messages of a
\* connection, of which the server's goodbye is the last.
Reads(row) ==
  LET mail == row.toClient IN
  /\ row.at = "rejected" => \A i \in DOMAIN mail : mail[i] \in {"refused", "failed"}
  /\ row.at \in {"open", "closing", "ended"} =>
       \A i \in DOMAIN mail : mail[i] \notin {"refused", "failed"}
  /\ row.at = "open" => \A i \in DOMAIN mail : mail[i] # "hangup"
  /\ row.at \in {"closing", "ended"} => mail # <<>> /\ mail[Len(mail)] = "hangup"
  /\ \A i \in DOMAIN mail : mail[i] = "hangup" => i = Len(mail)

Readable == client.socket # 0 => Reads(sockets[client.socket])

\* The server has told the socket.
Told(s, word) == \E i \in DOMAIN sockets[s].toClient : sockets[s].toClient[i] = word

\* The lineage of the page's socket is new: nobody can rotate it but who learns it, and the
\* page has learned it or is about to.
Newest ==
  client.socket # 0 /\ Accepted(client.socket) =>
    LET n == sockets[client.socket].lineage IN
    /\ n \in 1..Len(lineages) /\ lineages[n] = Far
    /\ \A s \in Socket : Rotating(s) => sockets[s].presented # n
    /\ client.lineage = n \/ Told(client.socket, "lineage")

\* A page that has not started has no lineage, and nothing is under way for it.
Beginning ==
  client.mode = "loading" /\ client.link = "off" =>
    client.lineage = 0 /\ \A s \in Socket : ~Rotating(s)

\* The page's lineage is as good as new.
Good == client.lineage = 0 \/ lineages[client.lineage] = Far

\* As long as nothing is lost, no handshake is under way but the page's own, which presents
\* what it holds; and it is refused only without a lineage, after its entry attempt has ended.
Lossless ==
  losses = 0 =>
    /\ client.link \in {"connecting", "opening", "up", "renewing"} =>
         \A s \in Socket : Rotating(s) => s = client.socket
    /\ client.link \in {"connecting", "renewing"} => Good
    /\ client.socket # 0 /\ Rotating(client.socket) =>
         sockets[client.socket].presented = client.lineage /\ Good
    /\ client.socket # 0 /\ sockets[client.socket].at = "rejected"
         /\ Told(client.socket, "refused") =>
         client.lineage = 0 /\ attempt.until # Far
    /\ client.link = "refused" => client.lineage = 0 /\ attempt.until # Far

EntryInv == /\ Shaped /\ Counted /\ Issued /\ Attached /\ Readable /\ Newest /\ Beginning
            /\ Lossless

-----------------------------------------------------------------------------
(* Entry: what several steps have in common *)

\* The bounds of the page are numbers, and no lineage that is over is as good as new.
LEMMA Bounds == Far \in Nat /\ MaxHandshake \in Nat /\ 0 \notin Socket /\ Far > MaxHandshake + 1
  BY EntryAssumption DEF Far

\* An unused socket.
LEMMA Unused ==
  /\ NoSocket \in SocketRows /\ NoSocket.at = "none" /\ NoSocket.toClient = <<>>
  /\ NoSocket.presented = 0 /\ NoSocket.lineage = 0 /\ NoSocket.now = 0
  BY DEF NoSocket, SocketRows, Word

\* Handshakes end and none begins.
LEMMA FewerPending ==
  ASSUME EntryInv, UNCHANGED <<clock, lineages>>, \A s \in Socket : Rotating(s)' => Rotating(s)
  PROVE  Counted'
  <1>1. Pending' \subseteq Pending
    BY DEF Pending
  <1>2. IsFiniteSet(Pending) /\ Len(lineages) + Cardinality(Pending) < clock
    BY DEF EntryInv, Counted
  <1>3. /\ IsFiniteSet(Pending') /\ Cardinality(Pending') <= Cardinality(Pending)
        /\ Cardinality(Pending') \in Nat /\ Cardinality(Pending) \in Nat
    BY <1>1, <1>2, FS_Subset, FS_CardinalityType
  <1>4. Len(lineages) \in Nat /\ clock \in Int
    BY EntryAssumption DEF EntryInv, Shaped
  <1> QED BY <1>2, <1>3, <1>4 DEF Counted

\* One socket changes at the server: it stays attached to its page, or the page has left it,
\* or all that changes is whether it has something to report.
LEMMA SocketStep ==
  ASSUME EntryInv, NEW s \in Socket, NEW row \in SocketRows, sockets' = [sockets EXCEPT ![s] = row],
         UNCHANGED <<clock, lineages, client, replacements>>, attempt' \in Attempts,
         attempt.until # Far => attempt'.until # Far,
         losses' \in 0..LossBound, losses' = 0 => losses = 0,
         row.presented <= Len(lineages), row.lineage <= Len(lineages), row.now < clock,
         row.at \in {"rotating", "orphaned"} => Rotating(s) /\ row.presented = sockets[s].presented,
         row.at \in {"none", "rotating", "orphaned"} => row.toClient = <<>>,
         \/ s # client.socket
         \/ /\ row.at = sockets[s].at /\ row.toClient = sockets[s].toClient
            /\ row.lineage = sockets[s].lineage
         \/ /\ Accepted(s) /\ row.at \in {"open", "closing", "ended"} /\ Reads(row)
            /\ row.lineage = sockets[s].lineage
            /\ Told(s, "lineage") => \E i \in DOMAIN row.toClient : row.toClient[i] = "lineage"
  PROVE  EntryInv'
  <1>1. sockets \in [Socket -> SocketRows] /\ client \in Pages
    BY DEF EntryInv, Shaped
  <1>2. /\ sockets'[s] = row /\ \A q \in Socket : q # s => sockets'[q] = sockets[q]
        /\ sockets' \in [Socket -> SocketRows]
    BY <1>1
  <1>3. Shaped'
    BY <1>2 DEF EntryInv, Shaped
  <1>4. \A q \in Socket :
          Rotating(q)' => Rotating(q) /\ sockets'[q].presented = sockets[q].presented
    BY <1>2 DEF Rotating
  <1>5. Counted'
    BY <1>4, FewerPending
  <1>6. Issued'
    BY <1>2 DEF EntryInv, Issued
  <1>7. client.socket # 0 => client.socket \in Socket
    BY <1>1 DEF Pages
  <1>8. client.socket # 0 =>
          /\ sockets'[client.socket].at \notin {"none", "orphaned"}
          /\ Accepted(client.socket) => Accepted(client.socket)'
          /\ Accepted(client.socket)' => Accepted(client.socket)
          /\ sockets'[client.socket].at = "rejected" => sockets[client.socket].at = "rejected"
          /\ sockets'[client.socket].lineage = sockets[client.socket].lineage
          /\ Reads(sockets'[client.socket])
    BY <1>2, <1>7, SMTT(30) DEF EntryInv, Attached, Accepted, Readable, Reads
  <1>9. client.socket # 0 /\ Told(client.socket, "lineage") => Told(client.socket, "lineage")'
    BY <1>2, <1>7 DEF Told
  <1>10. client.socket # 0 /\ sockets'[client.socket].at = "rejected" =>
           (Told(client.socket, "refused")' => Told(client.socket, "refused"))
    BY <1>2, <1>7 DEF Told
  <1>11. Attached'
    BY <1>2, <1>8, Bounds DEF EntryInv, Attached, Accepted
  <1>12. Readable'
    BY <1>8 DEF Readable
  <1>13. Newest'
    BY <1>4, <1>8, <1>9 DEF EntryInv, Newest
  <1>14. Beginning'
    BY <1>4 DEF EntryInv, Beginning
  <1>15. Lossless'
    BY <1>4, <1>7, <1>8, <1>10 DEF EntryInv, Lossless, Good
  <1> QED BY <1>3, <1>5, <1>6, <1>11, <1>12, <1>13, <1>14, <1>15 DEF EntryInv

\* The page moves and its socket stays.
LEMMA ClientStep ==
  ASSUME EntryInv, UNCHANGED <<clock, attempt, lineages, sockets, replacements>>,
         client' \in Pages, client'.socket = client.socket, client'.lineage = client.lineage,
         losses' \in 0..LossBound, losses' = 0 => losses = 0,
         client.link \in {"opening", "up"} <=> client'.link \in {"opening", "up"},
         client'.link = "up" => client.link = "up",
         client'.link = "off" => client.link = "off" /\ client'.mode = client.mode,
         losses' = 0 /\ client'.link = "connecting" => client.link \in {"connecting", "renewing"},
         client'.link \in {"opening", "renewing", "refused"} => client'.link = client.link
  PROVE  EntryInv'
  <1>1. Shaped' /\ Issued' /\ Attached' /\ Readable' /\ Beginning'
    BY DEF EntryInv, Shaped, Issued, Attached, Accepted, Readable, Reads, Beginning, Rotating
  <1>2. Counted'
    BY FewerPending DEF Rotating
  <1>3. Newest'
    BY DEF EntryInv, Newest, Accepted, Rotating, Told
  <1>4. Lossless'
    BY DEF EntryInv, Lossless, Rotating, Good, Told
  <1> QED BY <1>1, <1>2, <1>3, <1>4 DEF EntryInv

\* What becomes of the sockets when the page lets go of its own.
LEMMA LetsGo ==
  ASSUME EntryInv, LetGo
  PROVE  /\ sockets' \in [Socket -> SocketRows]
         /\ \A s \in Socket :
              /\ Rotating(s)' => Rotating(s)
              /\ sockets'[s].presented \in {0, sockets[s].presented}
              /\ Rotating(s)' => sockets'[s].presented = sockets[s].presented
              /\ sockets'[s].lineage \in {0, sockets[s].lineage}
              /\ sockets'[s].now \in {0, sockets[s].now}
              /\ sockets'[s].at \in {"none", "rotating", "orphaned"} => sockets'[s].toClient = <<>>
  <1>1. sockets \in [Socket -> SocketRows]
    BY DEF EntryInv, Shaped
  <1>2. \A s \in Socket :
          sockets[s].at \in {"none", "rotating", "orphaned"} => sockets[s].toClient = <<>>
    BY DEF EntryInv, Attached
  <1>3. CASE client.socket = 0
    BY <1>1, <1>2, <1>3 DEF LetGo, Rotating
  <1>4. CASE client.socket # 0
    <2>1. PICK c : c = client.socket /\ c \in Socket
      BY <1>4 DEF EntryInv, Shaped, Pages
    <2>2. PICK row : row = (IF sockets[c].at \in {"rejected", "ended"} THEN NoSocket
                            ELSE [sockets[c] EXCEPT !.toClient = <<>>])
      OBVIOUS
    <2>3. sockets' = [sockets EXCEPT ![c] = row]
      BY <1>4, <2>1, <2>2 DEF LetGo
    <2>4. << >> \in Seq(Word)
      OBVIOUS
    <2>5. /\ row \in SocketRows
          /\ row.at \in {"none", sockets[c].at} /\ row.presented \in {0, sockets[c].presented}
          /\ row.lineage \in {0, sockets[c].lineage} /\ row.now \in {0, sockets[c].now}
          /\ row.toClient = <<>>
          /\ row.at \in {"rotating", "orphaned"} =>
               row.at = sockets[c].at /\ row.presented = sockets[c].presented
      BY <1>1, <2>1, <2>2, <2>4, Unused DEF SocketRows
    <2> QED BY <1>1, <1>2, <2>1, <2>3, <2>5 DEF Rotating
  <1> QED BY <1>3, <1>4

\* The page lets go of its socket.
LEMMA LetGoStep ==
  ASSUME EntryInv, LetGo, UNCHANGED <<clock, attempt, lineages>>,
         client' \in Pages, client'.socket = 0, client'.lineage \in {0, client.lineage},
         losses' \in 0..LossBound, losses' = 0 => losses = 0,
         replacements' \in 0..ReplacementBound,
         client'.link \notin {"opening", "up"},
         client'.link = "off" => client'.mode # "loading",
         losses' = 0 /\ client'.link \in {"connecting", "renewing"} =>
           Good' /\ \A s \in Socket : ~Rotating(s),
         losses' = 0 /\ client'.link = "refused" => client'.lineage = 0 /\ attempt.until # Far
  PROVE  EntryInv'
  <1>1. Shaped'
    BY LetsGo DEF EntryInv, Shaped
  <1>2. Counted'
    BY LetsGo, FewerPending
  <1>3. Issued'
    <2>1. Len(lineages) \in Nat /\ clock > 0
      BY EntryAssumption DEF EntryInv, Shaped
    <2> QED BY <2>1, LetsGo DEF EntryInv, Issued
  <1>4. Attached' /\ Readable' /\ Newest' /\ Beginning'
    BY LetsGo DEF Attached, Readable, Newest, Beginning
  <1>5. Lossless'
    BY LetsGo DEF Lossless
  <1> QED BY <1>1, <1>2, <1>3, <1>4, <1>5 DEF EntryInv

\* Nothing of the entry changes.
LEMMA EntryQuiet == ASSUME EntryInv, UNCHANGED entryVars PROVE EntryInv'
  <1>1. UNCHANGED <<clock, attempt, lineages, sockets, client, losses, replacements>>
    BY DEF entryVars
  <1>2. Counted'
    BY <1>1, FewerPending DEF Rotating
  <1> QED BY <1>1, <1>2 DEF EntryInv, Shaped, Issued, Attached, Accepted, Readable, Reads, Newest,
          Beginning, Rotating, Lossless, Good, Told

\* Only the attempt changes, and never back into one that has not ended.
LEMMA AttemptStep ==
  ASSUME EntryInv, UNCHANGED <<clock, lineages, sockets, client, losses, replacements>>,
         attempt' \in Attempts, attempt.until # Far => attempt'.until # Far
  PROVE  EntryInv'
  <1>1. Counted'
    BY FewerPending DEF Rotating
  <1>2. Lossless'
    BY DEF EntryInv, Lossless, Rotating, Good, Told
  <1> QED BY <1>1, <1>2 DEF EntryInv, Shaped, Issued, Attached, Accepted, Readable, Reads, Newest,
          Beginning, Rotating, Told

-----------------------------------------------------------------------------
(* Entry: the page's steps *)

\* The page leaves the world.
LEMMA LeaveStep ==
  ASSUME EntryInv, NEW mode \in {"unavailable", "signedOut"}, Leave(mode),
         UNCHANGED <<clock, attempt, lineages, replacements>>,
         losses' \in 0..LossBound, losses' = 0 => losses = 0
  PROVE  EntryInv'
  <1>1. /\ client' \in Pages /\ client'.socket = 0 /\ client'.lineage = client.lineage
        /\ client'.link = "off" /\ client'.mode = mode
    BY DEF Leave, EntryInv, Shaped, Pages
  <1>2. replacements' \in 0..ReplacementBound /\ LetGo
    BY DEF Leave, EntryInv, Shaped
  <1> QED BY <1>1, <1>2, LetGoStep

\* What is lost is counted.
LEMMA Losing == ASSUME EntryInv, Loss PROVE losses' \in 0..LossBound /\ losses' # 0
  BY EntryAssumption DEF EntryInv, Shaped, Loss

\* Nothing is lost.
LEMMA Lossfree == ASSUME EntryInv, UNCHANGED losses PROVE losses' \in 0..LossBound
  BY DEF EntryInv, Shaped

\* The page discovers the world as it loads: nothing of an earlier entry is under way.
LEMMA DiscoverStep == ASSUME EntryInv, WorldInv, Discover PROVE EntryInv'
  <1>1. CASE Leave("unavailable") /\ UNCHANGED attempt /\ (Loss \/ UNCHANGED losses)
    BY <1>1, LeaveStep, Losing, Lossfree DEF Discover
  <1>2. CASE /\ attempt' = [NoAttempt EXCEPT !.until = Far]
             /\ client' = [client EXCEPT !.link = "connecting", !.generation = pointer.generation]
             /\ UNCHANGED <<sockets, losses>>
    <2>1. /\ client.mode = "loading" /\ client.link = "off"
          /\ UNCHANGED <<clock, lineages, replacements, sockets, losses>>
      BY <1>2 DEF Discover
    <2>2. pointer.generation \in 0..3
      BY DEF WorldInv, Pointers
    <2>3. /\ client' \in Pages /\ client'.link = "connecting" /\ client'.socket = client.socket
          /\ client'.lineage = client.lineage
      BY <1>2, <2>2 DEF EntryInv, Shaped, Pages
    <2>4. client.socket = 0 /\ client.lineage = 0 /\ \A s \in Socket : ~Rotating(s)
      BY <2>1 DEF EntryInv, Attached, Beginning
    <2>5. attempt' \in Attempts
      <3>1. attempt' = [until |-> Far, consumed |-> FALSE, reports |-> 0, failures |-> 0]
        BY <1>2 DEF NoAttempt
      <3> QED BY <3>1, Bounds DEF Attempts
    <2>6. Shaped' /\ Issued' /\ Attached' /\ Readable' /\ Newest' /\ Beginning'
      BY <2>1, <2>3, <2>4, <2>5
         DEF EntryInv, Shaped, Issued, Attached, Readable, Newest, Beginning
    <2>7. Counted'
      BY <2>1, FewerPending DEF Rotating
    <2>8. Lossless'
      BY <2>1, <2>3, <2>4 DEF Lossless, Good, Rotating
    <2> QED BY <2>6, <2>7, <2>8 DEF EntryInv
  <1> QED BY <1>1, <1>2 DEF Discover

\* The page discovers the world again.
LEMMA RediscoverStep == ASSUME EntryInv, Rediscover PROVE EntryInv'
  <1>1. CASE Leave("unavailable")
    BY <1>1, LeaveStep, Losing, Lossfree DEF Rediscover
  <1>2. CASE client' = [client EXCEPT !.asking = FALSE] /\ UNCHANGED <<sockets, losses>>
    <2>1. /\ client' \in Pages /\ client'.socket = client.socket
          /\ client'.lineage = client.lineage /\ client'.link = client.link
          /\ client'.mode = client.mode
      BY <1>2 DEF EntryInv, Shaped, Pages
    <2> QED BY <1>2, <2>1, ClientStep, Lossfree DEF Rediscover
  <1> QED BY <1>1, <1>2 DEF Rediscover

\* The transport does not open, and at last the page gives up.
LEMMA ConnectFailsStep == ASSUME EntryInv, ConnectFails \/ GiveUp PROVE EntryInv'
  <1>1. /\ client' \in Pages /\ client'.socket = client.socket
        /\ client'.lineage = client.lineage /\ client'.link \in {"connecting", "exhausted"}
        /\ client.link = "connecting"
    <2>1. CASE ConnectFails
      BY <2>1 DEF ConnectFails, EntryInv, Shaped, Pages
    <2>2. CASE GiveUp
      BY <2>2 DEF GiveUp, EntryInv, Shaped, Pages
    <2> QED BY <2>1, <2>2
  <1> QED BY <1>1, ClientStep, Losing DEF ConnectFails, GiveUp

\* The transport is lost.
LEMMA TransportLostStep == ASSUME EntryInv, TransportLost PROVE EntryInv'
  <1>1. /\ client' \in Pages /\ client'.socket = 0 /\ client'.lineage = client.lineage
        /\ client'.link = "connecting"
    BY DEF TransportLost, EntryInv, Shaped, Pages
  <1>2. losses' \in 0..LossBound /\ losses' # 0
    BY Losing DEF TransportLost
  <1>3. replacements' \in 0..ReplacementBound
    BY DEF TransportLost, EntryInv, Shaped
  <1> QED BY <1>1, <1>2, <1>3, LetGoStep DEF TransportLost

\* The page replaces its socket, and forgets its lineage.
LEMMA ReplaceStep == ASSUME EntryInv, Replace PROVE EntryInv'
  <1>1. /\ client' \in Pages /\ client'.socket = 0 /\ client'.lineage = 0
        /\ client'.link = "connecting"
    <2>1. client \in Pages
      BY DEF EntryInv, Shaped
    <2>2. PICK moved : moved = [client EXCEPT !.link = "connecting", !.socket = 0]
      OBVIOUS
    <2>3. moved \in Pages /\ moved.socket = 0 /\ moved.link = "connecting"
      BY <2>1, <2>2 DEF Pages
    <2>4. PICK bare : bare = [moved EXCEPT !.lineage = 0]
      OBVIOUS
    <2>5. bare \in Pages /\ bare.socket = 0 /\ bare.link = "connecting" /\ bare.lineage = 0
      BY <2>3, <2>4 DEF Pages
    <2>6. PICK early : early = [bare EXCEPT !.epoch = 0]
      OBVIOUS
    <2>7. early \in Pages /\ early.socket = 0 /\ early.link = "connecting" /\ early.lineage = 0
      BY <2>5, <2>6 DEF Pages
    <2>8. client' = [early EXCEPT !.reported = FALSE]
      BY <2>1, <2>2, <2>4, <2>6 DEF Replace, Pages
    <2> QED BY <2>7, <2>8 DEF Pages
  <1>2. losses' \in 0..LossBound /\ losses' = losses
    BY Lossfree DEF Replace
  <1>3. replacements' \in 0..ReplacementBound
    BY EntryAssumption DEF Replace, EntryInv, Shaped
  <1>4. losses = 0 => \A s \in Socket : ~Rotating(s)
    <2>1. client.link = "up" /\ Accepted(client.socket)
      BY DEF Replace, EntryInv, Attached
    <2> QED BY <2>1 DEF EntryInv, Lossless, Accepted, Rotating
  <1> QED BY <1>1, <1>2, <1>3, <1>4, LetGoStep DEF Replace, Good

\* The page renews its token, or its session is over.
LEMMA RenewStep == ASSUME EntryInv, Renew PROVE EntryInv'
  <1>1. CASE Leave("signedOut") /\ Loss
    BY <1>1, LeaveStep, Losing DEF Renew
  <1>2. CASE client' = [client EXCEPT !.link = "connecting"] /\ UNCHANGED <<sockets, losses>>
    <2>1. /\ client' \in Pages /\ client'.socket = client.socket
          /\ client'.lineage = client.lineage /\ client'.link = "connecting"
      BY <1>2 DEF EntryInv, Shaped, Pages
    <2> QED BY <1>2, <2>1, ClientStep, Lossfree DEF Renew
  <1> QED BY <1>1, <1>2 DEF Renew

\* The page opens a socket, which presents what it holds: one more handshake is under way.
LEMMA OpenStep == ASSUME EntryInv, Open PROVE EntryInv'
  <1>1. PICK s \in FreeSocket :
          /\ sockets' = [sockets EXCEPT ![s] =
               [NoSocket EXCEPT !.at = "rotating", !.presented = client.lineage, !.now = clock]]
          /\ client' = [client EXCEPT !.link = "opening", !.socket = s]
    BY DEF Open
  <1>2. s \in Socket /\ sockets[s] = NoSocket
    BY DEF FreeSocket
  <1>3. /\ client.link = "connecting" /\ clock <= MaxHandshake /\ clock' = clock + 1
        /\ UNCHANGED <<attempt, lineages, losses, replacements>>
    BY DEF Open
  <1>4. /\ sockets \in [Socket -> SocketRows] /\ client \in Pages
        /\ clock \in Nat /\ client.lineage \in Nat /\ client.lineage <= Len(lineages)
        /\ clock \in 1..MaxHandshake + 1
    BY EntryAssumption DEF EntryInv, Shaped, Pages, Issued
  <1>5. PICK row : row = [NoSocket EXCEPT !.at = "rotating", !.presented = client.lineage,
                                          !.now = clock]
    OBVIOUS
  <1>6. /\ row \in SocketRows /\ row.at = "rotating" /\ row.presented = client.lineage
        /\ row.now = clock /\ row.lineage = 0 /\ row.toClient = <<>>
    BY <1>4, <1>5, Unused DEF SocketRows
  <1>7. /\ sockets' \in [Socket -> SocketRows] /\ sockets'[s] = row
        /\ \A q \in Socket : q # s => sockets'[q] = sockets[q]
    BY <1>1, <1>2, <1>4, <1>5, <1>6
  <1>8. /\ client' \in Pages /\ client'.link = "opening" /\ client'.socket = s
        /\ client'.lineage = client.lineage
    BY <1>1, <1>2, <1>4 DEF Pages
  <1>9. Shaped'
    BY <1>3, <1>4, <1>7, <1>8, EntryAssumption DEF EntryInv, Shaped
  <1>10. Counted'
    <2>1. Pending' = Pending \cup {s} /\ s \notin Pending
      BY <1>2, <1>6, <1>7, Unused DEF Pending, Rotating
    <2>2. IsFiniteSet(Pending) /\ Len(lineages) + Cardinality(Pending) < clock
      BY DEF EntryInv, Counted
    <2>3. /\ IsFiniteSet(Pending') /\ Cardinality(Pending') = Cardinality(Pending) + 1
          /\ Cardinality(Pending) \in Nat
      BY <2>1, <2>2, FS_AddElement, FS_CardinalityType
    <2>4. Len(lineages) \in Nat
      BY DEF EntryInv, Shaped
    <2> QED BY <1>3, <1>4, <2>2, <2>3, <2>4 DEF Counted
  <1>11. Issued'
    <2>1. \A q \in Socket : sockets[q].now \in Nat /\ sockets[q].now < clock
      BY <1>4 DEF SocketRows, EntryInv, Issued
    <2>2. Len(lineages) \in Nat
      BY DEF EntryInv, Shaped
    <2> QED BY <1>3, <1>4, <1>6, <1>7, <1>8, <2>1, <2>2 DEF EntryInv, Issued
  <1>12. s # 0
    BY <1>2, Bounds
  <1>13. Attached' /\ Readable' /\ Newest' /\ Beginning'
    BY <1>6, <1>7, <1>8, <1>12
       DEF EntryInv, Attached, Accepted, Readable, Reads, Newest, Beginning
  <1>14. client.socket = 0
    BY <1>3 DEF EntryInv, Attached
  <1>15. Lossless'
    <2>1. losses = 0 => Good /\ \A q \in Socket : ~Rotating(q)
      BY <1>3, <1>14, Bounds DEF EntryInv, Lossless
    <2> QED BY <1>3, <1>6, <1>7, <1>8, <2>1 DEF Lossless, Good, Rotating
  <1> QED BY <1>9, <1>10, <1>11, <1>13, <1>15 DEF EntryInv

-----------------------------------------------------------------------------
(* Entry: what the page reads *)

\* The page takes a message that is no rejection and no goodbye: its socket was accepted,
\* and what it has still to read is what a socket of its kind may be sent.
LEMMA Taken ==
  ASSUME EntryInv, NEW message \in {"connect", "lineage", "protocol"}, NEW report \in BOOLEAN,
         Take(message, report)
  PROVE  \E c \in Socket, row \in SocketRows :
           /\ client.socket = c /\ c # 0 /\ Accepted(c) /\ client.link \in {"opening", "up"}
           /\ sockets' = [sockets EXCEPT ![c] = row]
           /\ row.at = sockets[c].at /\ row.presented = sockets[c].presented
           /\ row.lineage = sockets[c].lineage /\ row.now = sockets[c].now
           /\ Reads(row)
           /\ Told(c, "lineage") /\ message # "lineage" =>
                \E i \in DOMAIN row.toClient : row.toClient[i] = "lineage"
  <1>1. client.socket # 0 /\ client.socket \in Socket /\ client.link \in {"opening", "up"}
    BY DEF Take, Mail, EntryInv, Shaped, Pages, Attached
  <1>2. PICK c \in Socket : c = client.socket
    BY <1>1
  <1>3. PICK mail : mail = sockets[c].toClient
    OBVIOUS
  <1>4. /\ sockets[c] \in SocketRows /\ sockets \in [Socket -> SocketRows] /\ mail \in Seq(Word)
        /\ mail # <<>> /\ Head(mail) = message
    BY <1>1, <1>2, <1>3 DEF Take, Mail, EntryInv, Shaped, SocketRows
  <1>5. 1 \in DOMAIN mail /\ mail[1] = message /\ Len(mail) \in Nat /\ Len(mail) >= 1
    BY <1>4
  <1>6. Reads(sockets[c])
    BY <1>1, <1>2 DEF EntryInv, Readable
  <1>7. Accepted(c)
    <2>1. sockets[c].at \notin {"none", "rotating", "orphaned"}
      BY <1>3, <1>4 DEF EntryInv, Attached
    <2>2. sockets[c].at # "rejected"
      BY <1>3, <1>5, <1>6 DEF Reads
    <2> QED BY <1>4, <2>1, <2>2 DEF Accepted, SocketRows
  <1>8. PICK rest : rest = Tail(mail)
    OBVIOUS
  <1>9. /\ rest \in Seq(Word) /\ Len(rest) = Len(mail) - 1
        /\ \A i \in DOMAIN rest : i + 1 \in DOMAIN mail /\ rest[i] = mail[i + 1]
    BY <1>4, <1>5, <1>8
  <1>10. PICK row : row = [sockets[c] EXCEPT !.toClient = rest, !.reporting = @ \/ report]
    OBVIOUS
  <1>11. sockets' = [sockets EXCEPT ![c] = row]
    BY <1>2, <1>3, <1>4, <1>8, <1>10 DEF Take, SocketRows
  <1>12. PICK shorter : shorter = [sockets[c] EXCEPT !.toClient = rest]
    OBVIOUS
  <1>13. /\ shorter \in SocketRows /\ shorter.toClient = rest
         /\ shorter.at = sockets[c].at /\ shorter.presented = sockets[c].presented
         /\ shorter.lineage = sockets[c].lineage /\ shorter.now = sockets[c].now
         /\ shorter.reporting = sockets[c].reporting
    BY <1>4, <1>9, <1>12 DEF SocketRows
  <1>14. PICK flag : flag = (sockets[c].reporting \/ report)
    OBVIOUS
  <1>15. flag \in BOOLEAN
    BY <1>14
  <1>16. row = [shorter EXCEPT !.reporting = flag]
    BY <1>4, <1>10, <1>12, <1>14 DEF SocketRows
  <1>17. /\ row \in SocketRows /\ row.toClient = rest
         /\ row.at = sockets[c].at /\ row.presented = sockets[c].presented
         /\ row.lineage = sockets[c].lineage /\ row.now = sockets[c].now
    BY <1>13, <1>15, <1>16 DEF SocketRows
  <1>18. Reads(row)
    <2>1. \A i \in DOMAIN rest : rest[i] \notin {"refused", "failed"}
      BY <1>3, <1>6, <1>7, <1>9 DEF Reads, Accepted
    <2>2. row.at = "open" => \A i \in DOMAIN rest : rest[i] # "hangup"
      BY <1>3, <1>6, <1>9, <1>17 DEF Reads
    <2>3. \A i \in DOMAIN rest : rest[i] = "hangup" => i = Len(rest)
      <3> SUFFICES ASSUME NEW i \in DOMAIN rest, rest[i] = "hangup" PROVE i = Len(rest)
        OBVIOUS
      <3>1. i + 1 = Len(mail)
        BY <1>3, <1>6, <1>9 DEF Reads
      <3>2. i \in Int
        BY <1>9
      <3> QED BY <1>5, <1>9, <3>1, <3>2
    <2>4. row.at \in {"closing", "ended"} => rest # <<>> /\ rest[Len(rest)] = "hangup"
      <3> SUFFICES ASSUME row.at \in {"closing", "ended"}
                   PROVE  rest # <<>> /\ rest[Len(rest)] = "hangup"
        OBVIOUS
      <3>1. mail[Len(mail)] = "hangup"
        BY <1>3, <1>6, <1>17 DEF Reads
      <3>2. Len(mail) # 1
        BY <1>5, <3>1
      <3>3. Len(rest) >= 1 /\ Len(rest) \in DOMAIN rest
        BY <1>5, <1>9, <3>2
      <3>4. rest[Len(rest)] = mail[Len(mail)]
        BY <1>5, <1>9, <3>3
      <3> QED BY <3>1, <3>3, <3>4
    <2> QED BY <1>7, <1>17, <2>1, <2>2, <2>3, <2>4 DEF Reads, Accepted
  <1>19. ASSUME Told(c, "lineage"), message # "lineage"
         PROVE  \E i \in DOMAIN rest : rest[i] = "lineage"
    <2>1. PICK i \in DOMAIN mail : mail[i] = "lineage"
      BY <1>3, <1>19 DEF Told
    <2>2. i \in 1..Len(mail) /\ i # 1
      BY <1>4, <1>5, <1>19, <2>1
    <2>3. i - 1 \in DOMAIN rest /\ (i - 1) + 1 = i
      BY <1>5, <1>9, <2>2
    <2> QED BY <1>9, <2>1, <2>3
  <1> QED BY <1>1, <1>2, <1>7, <1>11, <1>17, <1>18, <1>19

\* The page learns of its connection, of its lineage, or of the world.
LEMMA TakeStep ==
  ASSUME EntryInv, NEW message \in {"connect", "lineage", "protocol"}, NEW report \in BOOLEAN,
         Take(message, report), UNCHANGED <<clock, attempt, lineages, losses, replacements>>,
         client' \in Pages, client'.socket = client.socket,
         client'.link \in {"up", client.link},
         client'.lineage = (IF message = "lineage" THEN sockets[client.socket].lineage
                            ELSE client.lineage)
  PROVE  EntryInv'
  <1>1. PICK c \in Socket, row \in SocketRows :
          /\ client.socket = c /\ c # 0 /\ Accepted(c) /\ client.link \in {"opening", "up"}
          /\ sockets' = [sockets EXCEPT ![c] = row]
          /\ row.at = sockets[c].at /\ row.presented = sockets[c].presented
          /\ row.lineage = sockets[c].lineage /\ row.now = sockets[c].now
          /\ Reads(row)
          /\ Told(c, "lineage") /\ message # "lineage" =>
               \E i \in DOMAIN row.toClient : row.toClient[i] = "lineage"
    BY Taken
  <1>2. /\ sockets \in [Socket -> SocketRows] /\ sockets' \in [Socket -> SocketRows]
        /\ sockets'[c] = row /\ \A q \in Socket : q # c => sockets'[q] = sockets[q]
    BY <1>1 DEF EntryInv, Shaped
  <1>3. client'.socket = c /\ client'.link \in {"opening", "up"}
    BY <1>1
  <1>4. Shaped'
    BY <1>2 DEF EntryInv, Shaped
  <1>5. \A q \in Socket : /\ Rotating(q)' <=> Rotating(q)
                          /\ sockets'[q].presented = sockets[q].presented
    BY <1>1, <1>2 DEF Rotating
  <1>6. Counted'
    BY <1>5, FewerPending
  <1>7. Issued'
    BY <1>1, <1>2 DEF EntryInv, Issued
  <1>8. Accepted(c)' /\ ~Rotating(c)' /\ row.at # "rejected" /\ sockets'[c].at = row.at
    BY <1>1, <1>2 DEF Accepted, Rotating
  <1>9. Attached'
    BY <1>1, <1>2, <1>3, <1>8 DEF EntryInv, Attached, Accepted
  <1>10. Readable'
    BY <1>1, <1>2, <1>3 DEF Readable
  <1>11. Newest'
    <2>1. PICK n : n = sockets[c].lineage
      OBVIOUS
    <2>2. /\ n \in 1..Len(lineages) /\ lineages[n] = Far
          /\ \A q \in Socket : Rotating(q) => sockets[q].presented # n
          /\ client.lineage = n \/ Told(c, "lineage")
      BY <1>1, <2>1 DEF EntryInv, Newest
    <2>3. client'.lineage = n \/ Told(c, "lineage")'
      BY <1>1, <1>2, <2>1, <2>2 DEF Told
    <2>4. sockets'[c].lineage = n
      BY <1>1, <1>2, <2>1
    <2> QED BY <1>3, <1>5, <2>2, <2>3, <2>4 DEF Newest
  <1>12. Beginning'
    BY <1>3 DEF Beginning
  <1>13. Lossless'
    BY <1>1, <1>2, <1>3, <1>5, <1>8 DEF EntryInv, Lossless
  <1> QED BY <1>4, <1>6, <1>7, <1>9, <1>10, <1>11, <1>12, <1>13 DEF EntryInv

\* The page is rejected: without a lineage, unless something was lost.
LEMMA OnRejectionStep ==
  ASSUME EntryInv, OnRejection, UNCHANGED <<clock, attempt, lineages, losses, replacements>>
  PROVE  EntryInv'
  <1>1. PICK error \in {"refused", "failed"} :
          /\ Mail # <<>> /\ Head(Mail) = error
          /\ client' = [client EXCEPT !.link = error, !.socket = 0, !.reported = TRUE]
          /\ LetGo
    BY DEF OnRejection
  <1>2. /\ client' \in Pages /\ client'.socket = 0 /\ client'.lineage = client.lineage
        /\ client'.link = error
    <2>1. client \in Pages
      BY DEF EntryInv, Shaped
    <2>2. PICK moved : moved = [client EXCEPT !.link = error, !.socket = 0]
      OBVIOUS
    <2>3. /\ moved \in Pages /\ moved.socket = 0 /\ moved.link = error
          /\ moved.lineage = client.lineage
      BY <2>1, <2>2 DEF Pages
    <2>4. client' = [moved EXCEPT !.reported = TRUE]
      BY <1>1, <2>1, <2>2 DEF Pages
    <2> QED BY <2>3, <2>4 DEF Pages
  <1>3. ASSUME losses = 0, error = "refused" PROVE client.lineage = 0 /\ attempt.until # Far
    <2>1. client.socket # 0 /\ client.socket \in Socket /\ client.link \in {"opening", "up"}
      BY <1>1 DEF Mail, EntryInv, Shaped, Pages, Attached
    <2>2. PICK c \in Socket : c = client.socket
      BY <2>1
    <2>3. PICK mail : mail = sockets[c].toClient
      OBVIOUS
    <2>4. sockets[c] \in SocketRows /\ mail \in Seq(Word) /\ mail # <<>> /\ Head(mail) = "refused"
      BY <1>1, <1>3, <2>1, <2>2, <2>3 DEF Mail, EntryInv, Shaped, SocketRows
    <2>5. 1 \in DOMAIN mail /\ mail[1] = "refused"
      BY <2>4
    <2>6. sockets[c].at \notin {"none", "rotating", "orphaned"}
      BY <2>3, <2>4 DEF EntryInv, Attached
    <2>7. ~Accepted(c)
      BY <2>1, <2>2, <2>3, <2>5 DEF EntryInv, Readable, Reads, Accepted
    <2>8. sockets[c].at = "rejected" /\ Told(c, "refused")
      BY <2>3, <2>4, <2>5, <2>6, <2>7 DEF Accepted, Told, SocketRows
    <2> QED BY <1>3, <2>1, <2>2, <2>8 DEF EntryInv, Lossless
  <1>4. losses' \in 0..LossBound /\ losses' = losses
    BY Lossfree
  <1>5. replacements' \in 0..ReplacementBound
    BY DEF EntryInv, Shaped
  <1> QED BY <1>1, <1>2, <1>3, <1>4, <1>5, LetGoStep

\* The server has hung up, after everything else it had to say: the page holds the lineage.
LEMMA OnHangupStep ==
  ASSUME EntryInv, OnHangup, UNCHANGED <<clock, attempt, lineages, losses, replacements>>
  PROVE  EntryInv'
  <1>1. /\ client' \in Pages /\ client'.socket = 0 /\ client'.lineage = client.lineage
        /\ client'.link = "renewing" /\ LetGo
    BY DEF OnHangup, EntryInv, Shaped, Pages
  <1>2. client.socket # 0 /\ client.socket \in Socket /\ client.link \in {"opening", "up"}
    BY DEF OnHangup, Mail, EntryInv, Shaped, Pages, Attached
  <1>3. PICK c \in Socket : c = client.socket
    BY <1>2
  <1>4. PICK mail : mail = sockets[c].toClient
    OBVIOUS
  <1>5. sockets[c] \in SocketRows /\ mail \in Seq(Word) /\ mail # <<>> /\ Head(mail) = "hangup"
    BY <1>2, <1>3, <1>4 DEF OnHangup, Mail, EntryInv, Shaped, SocketRows
  <1>6. 1 \in DOMAIN mail /\ mail[1] = "hangup"
    BY <1>5
  <1>7. sockets[c].at \notin {"none", "rotating", "orphaned"}
    BY <1>4, <1>5 DEF EntryInv, Attached
  <1>8. Reads(sockets[c])
    BY <1>2, <1>3 DEF EntryInv, Readable
  <1>9. sockets[c].at # "rejected" /\ Len(mail) = 1
    BY <1>4, <1>6, <1>8 DEF Reads
  <1>10. Accepted(c)
    BY <1>5, <1>7, <1>9 DEF Accepted, SocketRows
  <1>11. ~Told(c, "lineage")
    BY <1>4, <1>5, <1>6, <1>9 DEF Told
  <1>12. lineages[client.lineage] = Far
    BY <1>2, <1>3, <1>10, <1>11 DEF EntryInv, Newest
  <1>13. losses = 0 => \A s \in Socket : ~Rotating(s)
    BY <1>2, <1>3, <1>10 DEF EntryInv, Lossless, Accepted, Rotating
  <1>14. losses' \in 0..LossBound /\ losses' = losses
    BY Lossfree
  <1>15. replacements' \in 0..ReplacementBound
    BY DEF EntryInv, Shaped
  <1> QED BY <1>1, <1>12, <1>13, <1>14, <1>15, LetGoStep DEF Good

\* The page reads what the server has sent it.
LEMMA ReceiveStep == ASSUME EntryInv, Receive PROVE EntryInv'
  <1>1. UNCHANGED <<clock, attempt, lineages, losses, replacements>> /\ client \in Pages
    BY DEF Receive, EntryInv, Shaped
  <1>2. CASE OnConnect
    <2>1. PICK again, count :
            again = (client.epoch >= 1) /\ count = (IF client.epoch = 0 THEN 1 ELSE 2)
      OBVIOUS
    <2>2. again \in BOOLEAN /\ count \in 0..2
      BY <2>1
    <2>3. client' = [client EXCEPT !.link = "up", !.asking = again, !.epoch = count]
      BY <1>2, <2>1 DEF OnConnect
    <2>4. PICK moved : moved = [client EXCEPT !.link = "up", !.asking = again]
      OBVIOUS
    <2>5. /\ moved \in Pages /\ moved.link = "up" /\ moved.socket = client.socket
          /\ moved.lineage = client.lineage
      BY <1>1, <2>2, <2>4 DEF Pages
    <2>6. client' = [moved EXCEPT !.epoch = count]
      BY <1>1, <2>3, <2>4 DEF Pages
    <2>7. /\ client' \in Pages /\ client'.link = "up" /\ client'.socket = client.socket
          /\ client'.lineage = client.lineage
      BY <2>2, <2>5, <2>6 DEF Pages
    <2>8. Take("connect", FALSE)
      BY <1>2 DEF OnConnect
    <2> QED BY <1>1, <2>7, <2>8, TakeStep
  <1>3. CASE OnLineage
    <2>1. Take("lineage", FALSE)
      BY <1>3 DEF OnLineage
    <2>2. PICK c \in Socket : c = client.socket
      BY <2>1, Taken
    <2>3. sockets[c].lineage \in Nat
      BY DEF EntryInv, Shaped, SocketRows
    <2>4. /\ client' \in Pages /\ client'.socket = client.socket /\ client'.link = client.link
          /\ client'.lineage = sockets[client.socket].lineage
      BY <1>1, <1>3, <2>2, <2>3 DEF OnLineage, Pages
    <2> QED BY <1>1, <2>1, <2>4, TakeStep
  <1>4. CASE OnProtocol
    <2>1. Take("protocol", ~client.reported) /\ (~client.reported) \in BOOLEAN
      BY <1>4 DEF OnProtocol
    <2>2. /\ client' \in Pages /\ client'.socket = client.socket /\ client'.link = client.link
          /\ client'.lineage = client.lineage
      BY <1>1, <1>4 DEF OnProtocol, Pages
    <2> QED BY <1>1, <2>1, <2>2, TakeStep
  <1>5. CASE OnRejection \/ OnHangup
    BY <1>1, <1>5, OnRejectionStep, OnHangupStep
  <1> QED BY <1>2, <1>3, <1>4, <1>5 DEF Receive

-----------------------------------------------------------------------------
(* Entry: the server's handshakes *)

\* What a rotation makes of the lineages: the presented one ends before it is as good as
\* new, the others are kept, and there is one more.
LEMMA Rotates ==
  ASSUME EntryInv, NEW s \in Socket, lineages' = Rotated(s)
  PROVE  /\ lineages' \in Seq(0..Far) /\ Len(lineages') = Len(lineages) + 1
         /\ lineages'[Len(lineages) + 1] = Far
         /\ \A l \in 1..Len(lineages) : l # sockets[s].presented => lineages'[l] = lineages[l]
  <1>1. /\ lineages \in Seq(0..Far) /\ sockets[s].now \in Nat /\ sockets[s].now < clock
        /\ clock \in 1..MaxHandshake + 1 /\ Len(lineages) \in Nat
    BY DEF EntryInv, Shaped, SocketRows, Issued
  <1>2. sockets[s].now \in 0..Far /\ Far \in 0..Far
    BY <1>1, Bounds
  <1>3. PICK old : old = (IF sockets[s].presented = 0 THEN lineages
                          ELSE [lineages EXCEPT ![sockets[s].presented] = sockets[s].now])
    OBVIOUS
  <1>4. /\ old \in Seq(0..Far) /\ Len(old) = Len(lineages)
        /\ \A l \in 1..Len(lineages) : l # sockets[s].presented => old[l] = lineages[l]
    <2>1. CASE sockets[s].presented = 0
      BY <1>1, <1>3, <2>1
    <2>2. CASE sockets[s].presented # 0
      <3>1. sockets[s].presented \in 1..Len(lineages)
        BY <1>1, <2>2 DEF EntryInv, Shaped, SocketRows, Issued
      <3>2. old = [lineages EXCEPT ![sockets[s].presented] = sockets[s].now]
        BY <1>3, <2>2
      <3> QED BY <1>1, <1>2, <3>1, <3>2, ExceptSeq
    <2> QED BY <2>1, <2>2
  <1>5. lineages' = Append(old, Far)
    BY <1>3 DEF Rotated
  <1> QED BY <1>1, <1>2, <1>4, <1>5

\* A handshake rotates a lineage: its socket is accepted with the new one, or the page is
\* told that it failed, or has left.
LEMMA RotateStep ==
  ASSUME EntryInv, NEW s \in Socket, Rotating(s), lineages' = Rotated(s),
         NEW row \in SocketRows, sockets' = [sockets EXCEPT ![s] = row],
         UNCHANGED <<clock, attempt, client, replacements>>,
         losses' \in 0..LossBound, losses' = 0 => losses = 0,
         row.at \in {"none", "rejected", "open"}, row.at = "none" => row.toClient = <<>>,
         row.presented <= Len(lineages), row.lineage <= Len(lineages) + 1, row.now = 0,
         s = client.socket =>
           \/ row.at = "rejected" /\ losses' # 0 /\ Reads(row)
           \/ /\ row.at = "open" /\ row.lineage = Len(lineages) + 1 /\ Reads(row)
              /\ \E i \in DOMAIN row.toClient : row.toClient[i] = "lineage"
  PROVE  EntryInv'
  <1>1. /\ sockets \in [Socket -> SocketRows] /\ client \in Pages /\ Len(lineages) \in Nat
        /\ clock \in Nat /\ clock > 0
    BY Bounds DEF EntryInv, Shaped
  <1>2. /\ sockets'[s] = row /\ \A q \in Socket : q # s => sockets'[q] = sockets[q]
        /\ sockets' \in [Socket -> SocketRows]
    BY <1>1
  <1>3. client.socket # 0 => client.socket \in Socket
    BY <1>1 DEF Pages
  <1>4. Shaped'
    BY <1>2, Rotates DEF EntryInv, Shaped
  <1>5. ~Rotating(s)' /\ \A q \in Socket : q # s => (Rotating(q)' <=> Rotating(q))
    BY <1>2 DEF Rotating
  <1>6. Counted'
    <2>1. Pending' = Pending \ {s} /\ s \in Pending
      BY <1>5 DEF Pending
    <2>2. IsFiniteSet(Pending) /\ Len(lineages) + Cardinality(Pending) < clock
      BY DEF EntryInv, Counted
    <2>3. /\ IsFiniteSet(Pending') /\ Cardinality(Pending') = Cardinality(Pending) - 1
          /\ Cardinality(Pending) \in Nat
      BY <2>1, <2>2, FS_RemoveElement, FS_CardinalityType
    <2>4. Len(lineages') = Len(lineages) + 1
      BY Rotates
    <2> QED BY <1>1, <2>2, <2>3, <2>4 DEF Counted
  <1>7. Issued'
    <2>1. Len(lineages') = Len(lineages) + 1
      BY Rotates
    <2>2. \A q \in Socket : sockets'[q].presented <= Len(lineages) + 1
      <3>1. \A q \in Socket : sockets[q].presented \in Nat /\ sockets[q].presented <= Len(lineages)
        BY <1>1 DEF SocketRows, EntryInv, Issued
      <3>2. row.presented \in Nat
        BY DEF SocketRows
      <3> QED BY <1>1, <1>2, <3>1, <3>2
    <2>3. \A q \in Socket : sockets'[q].lineage <= Len(lineages) + 1
      <3>1. \A q \in Socket : sockets[q].lineage \in Nat /\ sockets[q].lineage <= Len(lineages)
        BY <1>1 DEF SocketRows, EntryInv, Issued
      <3> QED BY <1>1, <1>2, <3>1
    <2>4. \A q \in Socket : sockets'[q].now < clock
      BY <1>1, <1>2 DEF EntryInv, Issued
    <2>5. client.lineage <= Len(lineages) + 1
      BY <1>1 DEF Pages, EntryInv, Issued
    <2> QED BY <2>1, <2>2, <2>3, <2>4, <2>5 DEF Issued
  <1>8. client.socket # 0 =>
          /\ sockets'[client.socket].at \notin {"none", "orphaned"}
          /\ Reads(sockets'[client.socket])
          /\ client.socket # s => sockets'[client.socket] = sockets[client.socket]
    BY <1>2, <1>3 DEF EntryInv, Attached, Readable
  <1>9. Attached'
    <2>1. client.link = "up" => client.socket # s
      BY DEF EntryInv, Attached, Accepted, Rotating
    <2> QED BY <1>2, <1>3, <1>8, <2>1 DEF EntryInv, Attached, Accepted
  <1>10. Readable'
    BY <1>8 DEF Readable
  <1>11. Newest'
    <2> SUFFICES ASSUME client.socket # 0, Accepted(client.socket)' PROVE Newest'
      BY DEF Newest
    <2>1. PICK c \in Socket : c = client.socket
      BY <1>3
    <2>2. CASE c = s
      <3>1. row.at = "open" /\ row.lineage = Len(lineages) + 1 /\ Told(c, "lineage")'
        BY <1>2, <2>1, <2>2 DEF Accepted, Told
      <3>2. \A q \in Socket : Rotating(q)' => sockets'[q].presented # Len(lineages) + 1
        <4>1. \A q \in Socket :
                sockets[q].presented \in Nat /\ sockets[q].presented <= Len(lineages)
          BY <1>1 DEF SocketRows, EntryInv, Issued
        <4> QED BY <1>1, <1>2, <1>5, <4>1
      <3>3. Len(lineages) + 1 \in 1..Len(lineages')
        BY <1>1, Rotates
      <3> QED BY <1>2, <2>1, <2>2, <3>1, <3>2, <3>3, Rotates DEF Newest
    <2>3. CASE c # s
      <3>1. PICK n : n = sockets[c].lineage
        OBVIOUS
      <3>2. Accepted(c)
        BY <1>2, <2>1, <2>3 DEF Accepted
      <3>3. /\ n \in 1..Len(lineages) /\ lineages[n] = Far
            /\ \A q \in Socket : Rotating(q) => sockets[q].presented # n
            /\ client.lineage = n \/ Told(c, "lineage")
        BY <2>1, <3>1, <3>2 DEF EntryInv, Newest
      <3>4. lineages'[n] = Far /\ n \in 1..Len(lineages')
        BY <1>1, <3>3, Rotates
      <3>5. \A q \in Socket : Rotating(q)' => sockets'[q].presented # n
        BY <1>2, <1>5, <3>3
      <3>6. client.lineage = n \/ Told(c, "lineage")'
        BY <1>2, <2>3, <3>3 DEF Told
      <3>7. sockets'[c].lineage = n
        BY <1>2, <2>3, <3>1
      <3> QED BY <2>1, <3>4, <3>5, <3>6, <3>7 DEF Newest
    <2> QED BY <2>2, <2>3
  <1>12. Beginning'
    BY DEF EntryInv, Beginning
  <1>13. Lossless'
    <2> SUFFICES ASSUME losses' = 0 PROVE Lossless'
      BY DEF Lossless
    <2>1. /\ client.link \notin {"connecting", "renewing"}
          /\ client.socket # 0 => client.socket = s
      BY Bounds DEF EntryInv, Attached, Lossless
    <2>2. client.link \in {"opening", "up"} => \A q \in Socket : ~Rotating(q)'
      BY <1>5, Bounds DEF EntryInv, Attached, Lossless
    <2>3. client.socket # 0 => sockets'[client.socket].at = "open"
      BY <1>2, <2>1
    <2>4. client.link = "refused" => client.lineage = 0 /\ attempt.until # Far
      BY DEF EntryInv, Lossless
    <2> QED BY <2>1, <2>2, <2>3, <2>4 DEF Lossless, Rotating
  <1> QED BY <1>4, <1>6, <1>7, <1>9, <1>10, <1>11, <1>12, <1>13 DEF EntryInv

\* The middleware rejects the handshake of the page's own socket, and issues nothing.
LEMMA RejectStep ==
  ASSUME EntryInv, NEW s \in Socket, Rotating(s), s = client.socket,
         NEW row \in SocketRows, sockets' = [sockets EXCEPT ![s] = row],
         UNCHANGED <<clock, attempt, lineages, client, replacements>>,
         losses' \in 0..LossBound, losses' = 0 => losses = 0,
         row.at = "rejected", row.presented = 0, row.lineage = 0, row.now = 0, Reads(row),
         losses' = 0 => client.lineage = 0 /\ attempt.until # Far
  PROVE  EntryInv'
  <1>1. /\ sockets \in [Socket -> SocketRows] /\ Len(lineages) \in Nat /\ clock \in Nat /\ clock > 0
    BY Bounds DEF EntryInv, Shaped
  <1>2. /\ sockets'[s] = row /\ \A q \in Socket : q # s => sockets'[q] = sockets[q]
        /\ sockets' \in [Socket -> SocketRows]
    BY <1>1
  <1>3. Shaped'
    BY <1>2 DEF EntryInv, Shaped
  <1>4. ~Rotating(s)' /\ \A q \in Socket : q # s => (Rotating(q)' <=> Rotating(q))
    BY <1>2 DEF Rotating
  <1>5. Counted'
    BY <1>4, FewerPending
  <1>6. Issued'
    BY <1>1, <1>2 DEF EntryInv, Issued
  <1>7. Attached'
    <2>1. client.link # "up"
      BY DEF EntryInv, Attached, Accepted, Rotating
    <2> QED BY <1>2, <2>1 DEF EntryInv, Attached, Accepted
  <1>8. Readable'
    BY <1>2 DEF Readable
  <1>9. Newest' /\ Beginning'
    BY <1>2 DEF EntryInv, Newest, Beginning, Accepted
  <1>10. Lossless'
    <2>1. client.link \in {"opening", "up"}
      BY Bounds DEF EntryInv, Attached
    <2> QED BY <1>2, <1>4, <2>1 DEF EntryInv, Lossless
  <1> QED BY <1>3, <1>5, <1>6, <1>7, <1>8, <1>9, <1>10 DEF EntryInv

\* What a rejection leaves of the socket.
LEMMA Rejecting ==
  ASSUME EntryInv, NEW s \in Socket, Rotating(s), NEW error \in {"refused", "failed"},
         Rejected(s, error)
  PROVE  \E row \in SocketRows :
           /\ sockets' = [sockets EXCEPT ![s] = row]
           /\ row.at \in {"none", "rejected"}
           /\ row.at = "none" => row.toClient = <<>>
           /\ row.presented = 0 /\ row.lineage = 0 /\ row.now = 0
           /\ s = client.socket => row.at = "rejected" /\ Reads(row)
  <1>1. sockets \in [Socket -> SocketRows]
    BY DEF EntryInv, Shaped
  <1>2. CASE sockets[s].at = "orphaned"
    <2>1. s # client.socket
      BY <1>2, Bounds DEF EntryInv, Attached
    <2> QED BY <1>2, <2>1, Unused DEF Rejected
  <1>3. CASE sockets[s].at # "orphaned"
    <2>1. PICK mail : mail = Say(s, <<error>>)
      OBVIOUS
    <2>2. sockets[s].toClient = <<>>
      BY DEF EntryInv, Attached, Rotating
    <2>3. mail = <<error>> \/ mail = <<>>
      BY <2>1, <2>2 DEF Say
    <2>4. mail \in Seq(Word) /\ \A i \in DOMAIN mail : mail[i] \in {"refused", "failed"}
      <3>1. CASE mail = <<>>
        BY <3>1
      <3>2. CASE mail = <<error>>
        <4>1. mail \in Seq(Word) /\ DOMAIN mail = {1} /\ mail[1] = error
          BY <3>2 DEF Word
        <4> QED BY <4>1
      <3> QED BY <2>3, <3>1, <3>2
    <2>5. PICK row : row = [NoSocket EXCEPT !.at = "rejected", !.toClient = mail]
      OBVIOUS
    <2>6. /\ row \in SocketRows /\ row.at = "rejected" /\ row.toClient = mail
          /\ row.presented = 0 /\ row.lineage = 0 /\ row.now = 0
      BY <2>4, <2>5, Unused DEF SocketRows
    <2>7. Reads(row)
      BY <2>4, <2>6 DEF Reads
    <2>8. sockets' = [sockets EXCEPT ![s] = row]
      BY <1>3, <2>1, <2>5 DEF Rejected
    <2> QED BY <2>6, <2>7, <2>8
  <1> QED BY <1>2, <1>3

\* A handshake is refused only if what it presents is over, and while nothing is lost the
\* page's own presents what is as good as new.
LEMMA RefusedHandshake ==
  ASSUME EntryInv, NEW s \in Socket, Rotating(s), ~Usable(s), s = client.socket, losses = 0
  PROVE  client.lineage = 0 /\ attempt.until # Far
  <1>1. sockets[s].presented = client.lineage /\ Good
    BY Bounds DEF EntryInv, Lossless
  <1>2. sockets[s].now \in Nat /\ sockets[s].now < Far
    BY Bounds DEF EntryInv, Shaped, SocketRows, Issued
  <1>3. CASE client.lineage # 0
    BY <1>1, <1>2, <1>3, Bounds DEF Usable, Good
  <1>4. CASE client.lineage = 0
    BY <1>1, <1>2, <1>4, Bounds DEF Usable
  <1> QED BY <1>3, <1>4

\* A handshake is judged, and the socket accepted or rejected.
LEMMA HandshakeStep == ASSUME EntryInv, NEW s \in Socket, Handshake(s) PROVE EntryInv'
  <1>1. /\ Rotating(s) /\ UNCHANGED <<clock, attempt, client, losses, replacements>>
        /\ sockets \in [Socket -> SocketRows] /\ Len(lineages) \in Nat /\ losses' \in 0..LossBound
        /\ clock > 0
    BY Bounds DEF Handshake, Rotating, EntryInv, Shaped
  <1>2. CASE Usable(s) /\ sockets[s].at = "orphaned"
    <2>1. lineages' = Rotated(s) /\ sockets' = [sockets EXCEPT ![s] = NoSocket]
      BY <1>2 DEF Handshake
    <2>2. s # client.socket
      BY <1>2, Bounds DEF EntryInv, Attached
    <2>3. 0 <= Len(lineages) /\ 0 <= Len(lineages) + 1
      BY <1>1
    <2> QED BY <1>1, <2>1, <2>2, <2>3, Unused, RotateStep
  <1>3. CASE Usable(s) /\ sockets[s].at # "orphaned"
    <2>1. PICK mail : mail = Say(s, <<"connect", "lineage">>)
      OBVIOUS
    <2>2. sockets[s].toClient = <<>>
      BY <1>1 DEF EntryInv, Attached, Rotating
    <2>3. /\ mail = <<"connect", "lineage">> \/ mail = <<>>
          /\ s = client.socket => mail = <<"connect", "lineage">>
      BY <2>1, <2>2 DEF Say, Listening
    <2>4. /\ mail \in Seq(Word)
          /\ \A i \in DOMAIN mail : mail[i] \in {"connect", "lineage"}
          /\ s = client.socket => \E i \in DOMAIN mail : mail[i] = "lineage"
      <3>1. CASE mail = <<>>
        BY <2>3, <3>1
      <3>2. CASE mail = <<"connect", "lineage">>
        <4>1. /\ mail \in Seq(Word) /\ DOMAIN mail = {1, 2}
              /\ mail[1] = "connect" /\ mail[2] = "lineage"
          BY <3>2 DEF Word
        <4> QED BY <4>1
      <3> QED BY <2>3, <3>1, <3>2
    <2>5. PICK n, old : n = Len(lineages) + 1 /\ old = sockets[s].presented
      OBVIOUS
    <2>6. n \in Nat /\ old \in Nat /\ old <= Len(lineages)
      BY <1>1, <2>5 DEF SocketRows, EntryInv, Issued
    <2>7. PICK row : row = [at |-> "open", presented |-> old, now |-> 0, lineage |-> n,
                            starting |-> TRUE, toClient |-> mail, reporting |-> FALSE]
      OBVIOUS
    <2>8. /\ row \in SocketRows /\ row.at = "open" /\ row.presented = old /\ row.now = 0
          /\ row.lineage = n /\ row.toClient = mail
      BY <2>4, <2>6, <2>7 DEF SocketRows
    <2>9. sockets' = [sockets EXCEPT ![s] = row] /\ lineages' = Rotated(s)
      BY <1>3, <2>1, <2>5, <2>7 DEF Handshake, NoSocket
    <2>10. Reads(row)
      BY <2>4, <2>8 DEF Reads
    <2>11. row.presented <= Len(lineages) /\ row.lineage <= Len(lineages) + 1
      BY <2>5, <2>6, <2>8
    <2> QED BY <1>1, <2>4, <2>5, <2>8, <2>9, <2>10, <2>11, RotateStep
  <1>4. CASE ~Usable(s)
    <2>1. Rejected(s, "refused") /\ UNCHANGED lineages
      BY <1>4 DEF Handshake
    <2>2. PICK row \in SocketRows :
            /\ sockets' = [sockets EXCEPT ![s] = row]
            /\ row.at \in {"none", "rejected"}
            /\ row.at = "none" => row.toClient = <<>>
            /\ row.presented = 0 /\ row.lineage = 0 /\ row.now = 0
            /\ s = client.socket => row.at = "rejected" /\ Reads(row)
      BY <1>1, <2>1, Rejecting
    <2>3. CASE s = client.socket
      <3>1. losses = 0 => client.lineage = 0 /\ attempt.until # Far
        BY <1>1, <1>4, <2>3, RefusedHandshake
      <3> QED BY <1>1, <2>1, <2>2, <2>3, <3>1, RejectStep
    <2>4. CASE s # client.socket
      <3>1. 0 <= Len(lineages) /\ attempt \in Attempts
        BY <1>1 DEF EntryInv, Shaped
      <3> QED BY <1>1, <2>1, <2>2, <2>4, <3>1, SocketStep
    <2> QED BY <2>3, <2>4
  <1> QED BY <1>2, <1>3, <1>4

\* The middleware fails, before or after it has rotated the lineage.
LEMMA HandshakeFailsStep == ASSUME EntryInv, NEW s \in Socket, HandshakeFails(s) PROVE EntryInv'
  <1>1. /\ Rotating(s) /\ UNCHANGED <<clock, attempt, client, replacements>>
        /\ Rejected(s, "failed") /\ losses' \in 0..LossBound /\ losses' # 0
        /\ Len(lineages) \in Nat /\ clock > 0
    BY Losing, Bounds DEF HandshakeFails, Rotating, EntryInv, Shaped
  <1>2. PICK row \in SocketRows :
          /\ sockets' = [sockets EXCEPT ![s] = row]
          /\ row.at \in {"none", "rejected"}
          /\ row.at = "none" => row.toClient = <<>>
          /\ row.presented = 0 /\ row.lineage = 0 /\ row.now = 0
          /\ s = client.socket => row.at = "rejected" /\ Reads(row)
    BY <1>1, Rejecting
  <1>3. 0 <= Len(lineages) /\ 0 <= Len(lineages) + 1
    BY <1>1
  <1>4. CASE lineages' = Rotated(s)
    BY <1>1, <1>2, <1>3, <1>4, RotateStep
  <1>5. CASE UNCHANGED lineages /\ s = client.socket
    BY <1>1, <1>2, <1>5, RejectStep
  <1>6. CASE UNCHANGED lineages /\ s # client.socket
    BY <1>1, <1>2, <1>3, <1>6, SocketStep DEF EntryInv, Shaped
  <1> QED BY <1>4, <1>5, <1>6 DEF HandshakeFails

-----------------------------------------------------------------------------
(* Entry: the server's sockets *)

\* A report keeps the row's validity.
LEMMA Consumes ==
  ASSUME EntryInv, ConsumeEntry PROVE attempt' \in Attempts /\ attempt'.until = attempt.until
  <1>1. attempt \in Attempts
    BY DEF EntryInv, Shaped
  <1>2. CASE UNCHANGED attempt
    BY <1>1, <1>2
  <1>3. CASE attempt' = [attempt EXCEPT !.consumed = TRUE, !.reports = @ + 1]
    <2>1. attempt' = [until |-> attempt.until, consumed |-> TRUE, reports |-> attempt.reports + 1,
                      failures |-> attempt.failures]
      BY <1>1, <1>3 DEF Attempts
    <2>2. /\ attempt.until \in 0..Far /\ attempt.reports \in Nat /\ attempt.failures \in Nat
      BY <1>1 DEF Attempts
    <2>3. attempt.reports + 1 \in Nat
      BY <2>2
    <2> QED BY <2>1, <2>2, <2>3 DEF Attempts
  <1> QED BY <1>2, <1>3 DEF ConsumeEntry

\* What the server says once the socket is open: nothing more, if the page has left; to the
\* page's own socket, after all it has said before, and a goodbye ends it.
LEMMA Saying ==
  ASSUME EntryInv, NEW s \in Socket, sockets[s].at = "open", NEW word \in {"protocol", "hangup"},
         NEW mail, mail = Say(s, <<word>>)
  PROVE  /\ mail \in Seq(Word)
         /\ s = client.socket =>
              /\ mail # <<>> /\ mail[Len(mail)] = word
              /\ \A i \in DOMAIN mail : mail[i] \notin {"refused", "failed"}
              /\ \A i \in DOMAIN mail : mail[i] = "hangup" => i = Len(mail) /\ word = "hangup"
              /\ Told(s, "lineage") => \E i \in DOMAIN mail : mail[i] = "lineage"
  <1>1. PICK old : old = sockets[s].toClient
    OBVIOUS
  <1>2. old \in Seq(Word) /\ word \in Word
    BY <1>1 DEF EntryInv, Shaped, SocketRows, Word
  <1>3. CASE s # client.socket
    <2>1. mail = <<>>
      BY <1>3 DEF Say, Listening
    <2>2. mail \in Seq(Word)
      BY <2>1
    <2> QED BY <1>3, <2>2
  <1>4. CASE s = client.socket
    <2>1. mail = old \o <<word>>
      BY <1>1, <1>4 DEF Say, Listening
    <2>2. /\ mail \in Seq(Word) /\ Len(mail) = Len(old) + 1 /\ Len(old) \in Nat
          /\ mail[Len(mail)] = word /\ \A i \in 1..Len(old) : mail[i] = old[i]
      <3>1. PICK one : one = <<word>>
        OBVIOUS
      <3>2. one \in Seq(Word) /\ Len(one) = 1 /\ one[1] = word
        BY <1>2, <3>1
      <3>3. mail = old \o one
        BY <2>1, <3>1
      <3>4. /\ mail \in Seq(Word) /\ Len(mail) = Len(old) + Len(one)
            /\ \A i \in 1..Len(old) + Len(one) :
                 mail[i] = IF i <= Len(old) THEN old[i] ELSE one[i - Len(old)]
        <4>1. /\ old \o one \in Seq(Word) /\ Len(old \o one) = Len(old) + Len(one)
              /\ \A i \in 1..Len(old) + Len(one) :
                   (old \o one)[i] = IF i <= Len(old) THEN old[i] ELSE one[i - Len(old)]
          BY <1>2, <3>2, ConcatProperties
        <4> QED BY <3>3, <4>1
      <3>5. Len(old) \in Nat
        BY <1>2
      <3>6. mail[Len(old) + 1] = one[1]
        BY <3>2, <3>4, <3>5
      <3> QED BY <3>2, <3>4, <3>5, <3>6, SMTT(60)
    <2>3. \A i \in DOMAIN old : old[i] \notin {"refused", "failed", "hangup"}
      <3>1. Reads(sockets[s])
        BY <1>4, Bounds DEF EntryInv, Readable
      <3> QED BY <1>1, <3>1 DEF Reads
    <2>4. ASSUME NEW i \in DOMAIN mail, i # Len(mail)
          PROVE  i \in DOMAIN old /\ mail[i] = old[i]
      BY <1>2, <2>2, <2>4
    <2>5. /\ mail # <<>>
          /\ \A i \in DOMAIN mail : mail[i] \notin {"refused", "failed"}
          /\ \A i \in DOMAIN mail : mail[i] = "hangup" => i = Len(mail) /\ word = "hangup"
      <3>1. mail # <<>>
        BY <2>2
      <3> QED BY <2>2, <2>3, <2>4, <3>1
    <2>6. Told(s, "lineage") => \E i \in DOMAIN mail : mail[i] = "lineage"
      <3>1. \A i \in DOMAIN old : i \in DOMAIN mail /\ mail[i] = old[i]
        BY <1>2, <2>2
      <3> QED BY <1>1, <3>1 DEF Told
    <2> QED BY <2>2, <2>5, <2>6
  <1> QED BY <1>3, <1>4

\* An open socket is told something, and closes with a goodbye.
LEMMA SpeakStep ==
  ASSUME EntryInv, NEW s \in Socket, sockets[s].at = "open", NEW word \in {"protocol", "hangup"},
         NEW row \in SocketRows, sockets' = [sockets EXCEPT ![s] = row],
         row.at = (IF word = "hangup" THEN "closing" ELSE "open"),
         row.presented = sockets[s].presented, row.lineage = sockets[s].lineage,
         row.now = sockets[s].now, row.toClient = Say(s, <<word>>),
         UNCHANGED <<clock, lineages, client, replacements>>, attempt' \in Attempts,
         attempt.until # Far => attempt'.until # Far,
         losses' \in 0..LossBound, losses' = 0 => losses = 0
  PROVE  EntryInv'
  <1>1. PICK mail : mail = row.toClient
    OBVIOUS
  <1>2. mail = Say(s, <<word>>)
    BY <1>1
  <1>3. s = client.socket =>
          /\ mail # <<>> /\ mail[Len(mail)] = word
          /\ \A i \in DOMAIN mail : mail[i] \notin {"refused", "failed"}
          /\ \A i \in DOMAIN mail : mail[i] = "hangup" => i = Len(mail) /\ word = "hangup"
          /\ Told(s, "lineage") => \E i \in DOMAIN mail : mail[i] = "lineage"
    BY <1>2, Saying, ZenonT(60)
  <1>4. s = client.socket => Reads(row)
    BY <1>1, <1>3 DEF Reads
  <1>5. s = client.socket /\ Told(s, "lineage") =>
          \E i \in DOMAIN row.toClient : row.toClient[i] = "lineage"
    BY <1>1, <1>3
  <1>6. row.presented <= Len(lineages) /\ row.lineage <= Len(lineages) /\ row.now < clock
    BY DEF EntryInv, Issued
  <1>7. Accepted(s) /\ row.at \in {"open", "closing"}
    BY DEF Accepted
  <1> QED BY <1>4, <1>5, <1>6, <1>7, SocketStep

\* A socket that the page does not listen to is forgotten by the server.
LEMMA ForgetStep ==
  ASSUME EntryInv, NEW s \in Socket, s # client.socket, sockets' = [sockets EXCEPT ![s] = NoSocket],
         UNCHANGED <<clock, attempt, lineages, client, losses, replacements>>
  PROVE  EntryInv'
  <1>1. /\ attempt \in Attempts /\ losses \in 0..LossBound /\ 0 <= Len(lineages) /\ 0 < clock
    BY Bounds DEF EntryInv, Shaped
  <1> QED BY <1>1, Unused, SocketStep

\* A started connection is admitted, or its failure recorded and the socket closed.
LEMMA AdmitStep == ASSUME EntryInv, NEW s \in Socket, Admit(s) PROVE EntryInv'
  <1>1. /\ UNCHANGED <<clock, lineages, client, replacements>>
        /\ sockets \in [Socket -> SocketRows] /\ sockets[s] \in SocketRows /\ attempt \in Attempts
    BY DEF Admit, EntryInv, Shaped
  <1>2. PICK row : row = [sockets[s] EXCEPT !.starting = FALSE]
    OBVIOUS
  <1>3. /\ row \in SocketRows /\ row.at = sockets[s].at /\ row.toClient = sockets[s].toClient
        /\ row.presented = sockets[s].presented /\ row.lineage = sockets[s].lineage
        /\ row.now = sockets[s].now
    BY <1>1, <1>2 DEF SocketRows
  <1>4. /\ attempt' \in Attempts /\ attempt'.until = attempt.until
        /\ losses' \in 0..LossBound /\ (losses' = 0 => losses = 0)
    <2>1. CASE UNCHANGED attempt /\ UNCHANGED losses
      BY <1>1, <2>1, Lossfree
    <2>2. CASE attempt' = [attempt EXCEPT !.failures = @ + 1] /\ (UNCHANGED losses \/ Loss)
      <3>1. attempt' = [until |-> attempt.until, consumed |-> attempt.consumed,
                        reports |-> attempt.reports, failures |-> attempt.failures + 1]
        BY <1>1, <2>2 DEF Attempts
      <3>2. attempt' \in Attempts /\ attempt'.until = attempt.until
        BY <1>1, <3>1 DEF Attempts
      <3> QED BY <2>2, <3>2, Losing, Lossfree
    <2> QED BY <2>1, <2>2 DEF Admit
  <1>5. CASE sockets[s].at # "open"
    <2>1. sockets' = [sockets EXCEPT ![s] = row]
      BY <1>2, <1>3, <1>5 DEF Admit
    <2>2. row.presented <= Len(lineages) /\ row.lineage <= Len(lineages) /\ row.now < clock
      BY <1>3 DEF EntryInv, Issued
    <2>3. /\ row.at \in {"rotating", "orphaned"} => Rotating(s)
          /\ row.at \in {"none", "rotating", "orphaned"} => row.toClient = <<>>
      BY <1>3 DEF Rotating, EntryInv, Attached
    <2> QED BY <1>1, <1>3, <1>4, <2>1, <2>2, <2>3, SocketStep
  <1>6. CASE sockets[s].at = "open"
    <2>1. CASE sockets' = [sockets EXCEPT ![s] = [row EXCEPT !.toClient = Say(s, <<"protocol">>)]]
      <3>1. PICK mail \in Seq(Word) : mail = Say(s, <<"protocol">>)
        BY <1>6, Saying
      <3>2. PICK told : told = [row EXCEPT !.toClient = mail]
        OBVIOUS
      <3>3. /\ told \in SocketRows /\ told.at = "open" /\ told.toClient = mail
            /\ told.presented = sockets[s].presented /\ told.lineage = sockets[s].lineage
            /\ told.now = sockets[s].now
        BY <1>3, <1>6, <3>2 DEF SocketRows
      <3>4. sockets' = [sockets EXCEPT ![s] = told]
        BY <2>1, <3>1, <3>2
      <3> QED BY <1>1, <1>4, <1>6, <3>1, <3>3, <3>4, SpeakStep
    <2>2. CASE sockets' = [sockets EXCEPT ![s] = [row EXCEPT !.at = "closing", !.reporting = FALSE,
                                                            !.toClient = Say(s, <<"hangup">>)]]
      <3>1. PICK mail \in Seq(Word) : mail = Say(s, <<"hangup">>)
        BY <1>6, Saying
      <3>2. PICK shut : shut = [row EXCEPT !.at = "closing", !.reporting = FALSE]
        OBVIOUS
      <3>3. /\ shut \in SocketRows /\ shut.at = "closing"
            /\ shut.presented = sockets[s].presented /\ shut.lineage = sockets[s].lineage
            /\ shut.now = sockets[s].now
        BY <1>3, <3>2 DEF SocketRows
      <3>4. PICK told : told = [shut EXCEPT !.toClient = mail]
        OBVIOUS
      <3>5. /\ told \in SocketRows /\ told.at = "closing" /\ told.toClient = mail
            /\ told.presented = sockets[s].presented /\ told.lineage = sockets[s].lineage
            /\ told.now = sockets[s].now
        BY <3>3, <3>4 DEF SocketRows
      <3>6. sockets' = [sockets EXCEPT ![s] = told]
        BY <2>2, <3>1, <3>2, <3>4
      <3> QED BY <1>1, <1>4, <1>6, <3>1, <3>5, <3>6, SpeakStep
    <2> QED BY <1>2, <1>3, <1>6, <2>1, <2>2 DEF Admit
  <1> QED BY <1>5, <1>6

\* The server hangs up.
LEMMA HangupStep ==
  ASSUME EntryInv, NEW s \in Socket, sockets[s].at = "open", Hangup(s),
         UNCHANGED <<clock, attempt, lineages, client, losses, replacements>>
  PROVE  EntryInv'
  <1>1. /\ sockets \in [Socket -> SocketRows] /\ sockets[s] \in SocketRows
        /\ attempt \in Attempts /\ losses \in 0..LossBound
    BY DEF EntryInv, Shaped
  <1>2. PICK mail \in Seq(Word) : mail = Say(s, <<"hangup">>)
    BY Saying
  <1>3. PICK shut : shut = [sockets[s] EXCEPT !.at = "closing", !.reporting = FALSE]
    OBVIOUS
  <1>4. /\ shut \in SocketRows /\ shut.at = "closing"
        /\ shut.presented = sockets[s].presented /\ shut.lineage = sockets[s].lineage
        /\ shut.now = sockets[s].now
    BY <1>1, <1>3 DEF SocketRows
  <1>5. PICK told : told = [shut EXCEPT !.toClient = mail]
    OBVIOUS
  <1>6. /\ told \in SocketRows /\ told.at = "closing" /\ told.toClient = mail
        /\ told.presented = sockets[s].presented /\ told.lineage = sockets[s].lineage
        /\ told.now = sockets[s].now
    BY <1>4, <1>5 DEF SocketRows
  <1>7. sockets' = [sockets EXCEPT ![s] = told]
    BY <1>1, <1>2, <1>3, <1>5 DEF Hangup, SocketRows
  <1> QED BY <1>1, <1>2, <1>6, <1>7, SpeakStep

\* The server notices that the transport of a socket is gone.
LEMMA NoticeStep == ASSUME EntryInv, NEW s \in Socket, Notice(s) PROVE EntryInv'
  <1>1. /\ UNCHANGED <<clock, attempt, lineages, client, losses, replacements>>
        /\ s # client.socket /\ sockets \in [Socket -> SocketRows] /\ sockets[s] \in SocketRows
        /\ attempt \in Attempts /\ losses \in 0..LossBound
    BY DEF Notice, Listening, EntryInv, Shaped
  <1>2. /\ sockets[s].presented <= Len(lineages) /\ sockets[s].lineage <= Len(lineages)
        /\ sockets[s].now < clock
    BY DEF EntryInv, Issued
  <1>3. CASE sockets[s].at = "rotating"
    <2>1. PICK row : row = [sockets[s] EXCEPT !.at = "orphaned"]
      OBVIOUS
    <2>2. sockets' = [sockets EXCEPT ![s] = row]
      BY <1>3, <2>1 DEF Notice
    <2>3. /\ row \in SocketRows /\ row.at = "orphaned" /\ row.toClient = sockets[s].toClient
          /\ row.presented = sockets[s].presented /\ row.lineage = sockets[s].lineage
          /\ row.now = sockets[s].now
      BY <1>1, <2>1 DEF SocketRows
    <2>4. Rotating(s) /\ row.toClient = <<>>
      BY <1>3, <2>3 DEF Rotating, EntryInv, Attached
    <2> QED BY <1>1, <1>2, <2>2, <2>3, <2>4, SocketStep
  <1>4. CASE sockets[s].at = "rejected"
    <2>1. sockets' = [sockets EXCEPT ![s] = NoSocket]
      BY <1>4 DEF Notice
    <2> QED BY <1>1, <2>1, ForgetStep
  <1>5. CASE sockets[s].at = "open"
    <2>1. PICK row : row = [sockets[s] EXCEPT !.at = "closing", !.reporting = FALSE]
      OBVIOUS
    <2>2. sockets' = [sockets EXCEPT ![s] = row]
      BY <1>5, <2>1 DEF Notice
    <2>3. /\ row \in SocketRows /\ row.at = "closing"
          /\ row.presented = sockets[s].presented /\ row.lineage = sockets[s].lineage
          /\ row.now = sockets[s].now
      BY <1>1, <2>1 DEF SocketRows
    <2> QED BY <1>1, <1>2, <2>2, <2>3, SocketStep
  <1> QED BY <1>3, <1>4, <1>5 DEF Notice

\* The disconnect handler ends, and the page may still have to read the goodbye.
LEMMA DisconnectStep == ASSUME EntryInv, NEW s \in Socket, Disconnect(s) PROVE EntryInv'
  <1>1. /\ UNCHANGED <<clock, attempt, lineages, client, losses, replacements>>
        /\ sockets \in [Socket -> SocketRows] /\ sockets[s] \in SocketRows
        /\ sockets[s].at = "closing" /\ sockets' = [sockets EXCEPT ![s] = Done(s, sockets[s])]
        /\ attempt \in Attempts /\ losses \in 0..LossBound
    BY DEF Disconnect, EntryInv, Shaped
  <1>2. CASE s = client.socket
    <2>1. Reads(sockets[s])
      BY <1>2, Bounds DEF EntryInv, Readable
    <2>2. PICK row : row = [sockets[s] EXCEPT !.at = "ended"]
      OBVIOUS
    <2>3. sockets' = [sockets EXCEPT ![s] = row]
      BY <1>1, <1>2, <2>1, <2>2 DEF Done, Listening, Reads
    <2>4. /\ row \in SocketRows /\ row.at = "ended" /\ row.toClient = sockets[s].toClient
          /\ row.presented = sockets[s].presented /\ row.lineage = sockets[s].lineage
          /\ row.now = sockets[s].now
      BY <1>1, <2>2 DEF SocketRows
    <2>5. Reads(row)
      BY <1>1, <2>1, <2>4 DEF Reads
    <2>6. row.presented <= Len(lineages) /\ row.lineage <= Len(lineages) /\ row.now < clock
      BY <2>4 DEF EntryInv, Issued
    <2>7. /\ Accepted(s)
          /\ Told(s, "lineage") => \E i \in DOMAIN row.toClient : row.toClient[i] = "lineage"
      BY <1>1, <2>4 DEF Accepted, Told
    <2> QED BY <1>1, <2>3, <2>4, <2>5, <2>6, <2>7, SocketStep
  <1>3. CASE s # client.socket
    BY <1>1, <1>3, ForgetStep DEF Done, Listening
  <1> QED BY <1>2, <1>3

\* An entry is reported over its socket.
LEMMA ReportStep == ASSUME EntryInv, NEW s \in Socket, Report(s) PROVE EntryInv'
  <1>1. /\ UNCHANGED <<clock, lineages, client, losses, replacements>> /\ ConsumeEntry
        /\ sockets \in [Socket -> SocketRows] /\ sockets[s] \in SocketRows
        /\ losses \in 0..LossBound
    BY DEF Report, EntryInv, Shaped
  <1>2. PICK row : row = [sockets[s] EXCEPT !.reporting = FALSE]
    OBVIOUS
  <1>3. sockets' = [sockets EXCEPT ![s] = row]
    BY <1>2 DEF Report
  <1>4. /\ row \in SocketRows /\ row.at = sockets[s].at /\ row.toClient = sockets[s].toClient
        /\ row.presented = sockets[s].presented /\ row.lineage = sockets[s].lineage
        /\ row.now = sockets[s].now
    BY <1>1, <1>2 DEF SocketRows
  <1>5. row.presented <= Len(lineages) /\ row.lineage <= Len(lineages) /\ row.now < clock
    BY <1>4 DEF EntryInv, Issued
  <1>6. /\ row.at \in {"rotating", "orphaned"} => Rotating(s)
        /\ row.at \in {"none", "rotating", "orphaned"} => row.toClient = <<>>
    BY <1>4 DEF Rotating, EntryInv, Attached
  <1>7. attempt' \in Attempts /\ attempt'.until = attempt.until
    BY <1>1, Consumes
  <1> QED BY <1>1, <1>3, <1>4, <1>5, <1>6, <1>7, SocketStep

\* Everything else that only concerns the attempt.
LEMMA AttemptSteps == ASSUME EntryInv, ReceivePost \/ AttemptEnds PROVE EntryInv'
  <1>1. CASE ReceivePost
    <2>1. attempt' \in Attempts /\ attempt'.until = attempt.until
      BY <1>1, Consumes DEF ReceivePost, EntryInv, Shaped
    <2> QED BY <1>1, <2>1, AttemptStep DEF ReceivePost
  <1>2. CASE AttemptEnds
    <2>1. attempt \in Attempts /\ clock \in 0..Far
      BY Bounds DEF EntryInv, Shaped
    <2>2. attempt' \in Attempts
      BY <1>2, <2>1 DEF AttemptEnds, Attempts
    <2> QED BY <1>2, <2>2, AttemptStep DEF AttemptEnds
  <1> QED BY <1>1, <1>2

-----------------------------------------------------------------------------
(* Entry: theorems *)

\* The page has just loaded.
LEMMA EntryStarts == EntryInit => EntryInv
  <1> SUFFICES ASSUME EntryInit PROVE EntryInv
    OBVIOUS
  <1>1. /\ clock = 1 /\ attempt = NoAttempt /\ lineages = <<>>
        /\ sockets = [s \in Socket |-> NoSocket] /\ client = Loading
        /\ losses = 0 /\ replacements = 0
    BY DEF EntryInit
  <1>2. NoAttempt \in Attempts
    BY Bounds DEF NoAttempt, Attempts
  <1>3. /\ Loading \in Pages /\ Loading.mode = "loading" /\ Loading.link = "off"
        /\ Loading.socket = 0 /\ Loading.lineage = 0
    BY DEF Loading, Pages
  <1>4. \A s \in Socket : sockets[s] = NoSocket /\ ~Rotating(s)
    BY <1>1, Unused DEF Rotating
  <1>5. Shaped
    BY <1>1, <1>2, <1>3, Unused, EntryAssumption DEF Shaped
  <1>6. Counted
    <2>1. Pending = {}
      BY <1>4 DEF Pending
    <2> QED BY <1>1, <2>1, FS_EmptySet DEF Counted
  <1>7. Issued /\ Attached /\ Readable /\ Newest /\ Beginning /\ Lossless
    BY <1>1, <1>3, <1>4, Unused
       DEF Issued, Attached, Readable, Newest, Beginning, Lossless, Good
  <1> QED BY <1>5, <1>6, <1>7 DEF EntryInv

\* Every step of the page, the server, the network and the world keeps the invariant.
LEMMA EntryStep == ASSUME WorldInv, EntryInv, [Next]_vars PROVE EntryInv'
  <1>1. CASE Discover \/ Rediscover \/ Renew \/ Receive \/ Open
    BY <1>1, DiscoverStep, RediscoverStep, RenewStep, ReceiveStep, OpenStep
  <1>2. CASE ReceivePost \/ AttemptEnds
    BY <1>2, AttemptSteps
  <1>3. ASSUME NEW s \in Socket, Serve(s) PROVE EntryInv'
    <2>1. CASE Handshake(s)
      BY <2>1, HandshakeStep
    <2>2. CASE Admit(s)
      BY <2>2, AdmitStep
    <2>3. CASE Validate(s)
      BY <2>3, HangupStep DEF Validate
    <2>4. CASE Notice(s)
      BY <2>4, NoticeStep
    <2>5. CASE Disconnect(s)
      BY <2>5, DisconnectStep
    <2>6. CASE Report(s)
      BY <2>6, ReportStep
    <2> QED BY <1>3, <2>1, <2>2, <2>3, <2>4, <2>5, <2>6 DEF Serve
  <1>4. CASE ConnectFails \/ GiveUp \/ TransportLost \/ Replace
    BY <1>4, ConnectFailsStep, TransportLostStep, ReplaceStep
  <1>5. ASSUME NEW s \in Socket, HandshakeFails(s) \/ TokenExpires(s) PROVE EntryInv'
    BY <1>5, HandshakeFailsStep, HangupStep DEF TokenExpires
  <1>6. CASE WorldMoves \/ UNCHANGED vars
    BY <1>6, EntryQuiet DEF WorldMoves, vars, entryVars
  <1> QED BY <1>1, <1>2, <1>3, <1>4, <1>5, <1>6 DEF Next, Proceed, Disturb

\* The entry's invariant holds throughout.
LEMMA EntryAlways == Spec => []EntryInv
  <1>1. Init => EntryInv
    BY EntryStarts DEF Init
  <1>2. WorldInv /\ EntryInv /\ [Next]_vars => EntryInv'
    BY EntryStep
  <1> QED BY <1>1, <1>2, WorldAlways, PTL DEF Spec

\* What the world's type invariant says beside the pointer and the initializers.
Marked == claimed \in BOOLEAN /\ crashes \in 0..CrashBound

\* Claims and crashes are what they are said to be.
LEMMA MarkedAlways == Spec => []Marked
  <1>1. Init => Marked
    <2>1. claimed = FALSE => claimed \in BOOLEAN
      OBVIOUS
    <2>2. crashes = 0 => crashes \in 0..CrashBound
      BY WorldAssumption
    <2> QED BY <2>1, <2>2 DEF Init, WorldInit, Marked
  <1>2. Marked /\ [Next]_vars => Marked'
    <2>1. ASSUME Marked, UNCHANGED worldVars PROVE Marked'
      BY <2>1 DEF Marked, worldVars
    <2>2. ASSUME Marked, Operate \/ Claim PROVE Marked'
      BY <2>2 DEF Marked, Operate, Claim
    <2>3. ASSUME Marked, NEW i \in Initializer, Execute(i) \/ Crash(i) \/ Rerun(i) PROVE Marked'
      BY <2>3, WorldAssumption
         DEF Marked, Execute, Status, Provision, Activate, Crash, Rerun, world
    <2> QED BY <2>1, <2>2, <2>3, WorldMoved DEF WorldNext
  <1> QED BY <1>1, <1>2, PTL DEF Spec

\* Every variable of the world and of the entry keeps its type; in particular no more
\* lineages are issued than there are handshakes.
THEOREM TypeCorrect == Spec => []TypeOK
  <1>1. WorldInv /\ Marked /\ EntryInv => TypeOK
    <2> SUFFICES ASSUME WorldInv, Marked, EntryInv PROVE TypeOK
      OBVIOUS
    <2>1. WorldTypeOK
      BY DEF WorldInv, Pointers, Rows, Marked, WorldTypeOK
    <2>2. /\ clock \in 1..MaxHandshake + 1 /\ lineages \in Seq(0..Far) /\ client \in Pages
          /\ sockets \in [Socket -> SocketRows]
          /\ losses \in 0..LossBound /\ replacements \in 0..ReplacementBound
      BY DEF EntryInv, Shaped
    <2>3. attempt \in [until: 0..Far, consumed: BOOLEAN, reports: Nat, failures: Nat]
      BY DEF EntryInv, Shaped, Attempts
    <2>4. Len(lineages) <= MaxHandshake
      <3>1. IsFiniteSet(Pending) /\ Len(lineages) + Cardinality(Pending) < clock
        BY DEF EntryInv, Counted
      <3>2. Cardinality(Pending) \in Nat /\ Len(lineages) \in Nat
        BY <2>2, <3>1, FS_CardinalityType
      <3> QED BY <2>2, <3>1, <3>2, Bounds
    <2>5. \A l \in DOMAIN lineages : lineages[l] \in 0..Far
      <3>1. PICK rows \in Seq(0..Far) : rows = lineages
        BY <2>2
      <3>2. \A l \in DOMAIN rows : rows[l] \in 0..Far
        BY ElementOfSeq, LenProperties
      <3> QED BY <3>1, <3>2
    <2>6. \A s \in Socket :
            /\ sockets[s].at \in {"none", "rotating", "orphaned", "rejected", "open", "closing",
                                  "ended"}
            /\ sockets[s].presented \in 0..Len(lineages)
            /\ sockets[s].lineage \in 0..Len(lineages)
      BY <2>2 DEF SocketRows, EntryInv, Issued
    <2>7. /\ client.mode \in {"loading", "world", "unavailable", "signedOut"}
          /\ client.link \in {"off", "connecting", "opening", "up", "renewing", "refused",
                              "failed", "exhausted"}
          /\ client.socket \in Socket \cup {0} /\ client.lineage \in 0..Len(lineages)
      BY <2>2 DEF Pages, EntryInv, Issued
    <2> QED BY <2>1, <2>2, <2>3, <2>4, <2>5, <2>6, <2>7 DEF TypeOK
  <1> QED BY <1>1, WorldAlways, MarkedAlways, EntryAlways, PTL

\* While nothing has been lost, no page that holds a lineage is refused for being too old,
\* and one without only after its entry attempt has ended: however the page replaces its
\* sockets, and however late the server finishes the handshakes of those it left.
THEOREM RefusalsFollowLosses == Spec => []RefusedOnlyAfterLoss
  <1>1. EntryInv => RefusedOnlyAfterLoss
    BY DEF EntryInv, Shaped, Lossless, RefusedOnlyAfterLoss
  <1> QED BY <1>1, EntryAlways, PTL

\* A connected page that has read its lineage holds one nobody has rotated, or will with a
\* handshake that is under way.
THEOREM LineageIsCurrent == Spec => []LineageInHand
  <1>1. EntryInv => LineageInHand
    <2> SUFFICES ASSUME EntryInv, client.link = "up", \A i \in DOMAIN Mail : Mail[i] # "lineage"
                 PROVE  lineages[client.lineage] = Far
      BY DEF LineageInHand
    <2>1. client.socket # 0 /\ Accepted(client.socket)
      BY DEF EntryInv, Attached
    <2>2. ~Told(client.socket, "lineage")
      BY <2>1 DEF Mail, Told
    <2> QED BY <2>1, <2>2 DEF EntryInv, Newest
  <1> QED BY <1>1, EntryAlways, PTL
=============================================================================
