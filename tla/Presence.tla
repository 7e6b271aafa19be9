------------------------------ MODULE Presence ------------------------------
(***************************************************************************)
(* Presence leases: who is announced as joined to or departed from a quilt *)
(* while its principals connect with several sockets to several replicas.  *)
(* acquire-, renew-, release- and reapExpiredQuiltPresenceLease(s) of      *)
(* apps/server/src/db/repository.ts, and their callers in index.ts: the    *)
(* connection's initialization, its heartbeat, its disconnect handler and  *)
(* each replica's reaper.                                                  *)
(*                                                                         *)
(* One quilt.  A lease is fresh or stale (its expiresAt has passed); what a *)
(* caller took for "now" is the set of leases stale at that moment, less   *)
(* those renewed since.  A transaction is two steps, the statements under   *)
(* its advisory lock and the commit; what it deletes stays visible to the  *)
(* others until it commits.                                                *)
(***************************************************************************)
EXTENDS Naturals

CONSTANTS
  Principal, Socket, Replica,
  PrincipalOf,   \* the principal that opens a socket
  ReplicaOf,     \* the replica that serves it
  Orphan,        \* sockets of an earlier run of the server, whose leases it left behind
  MaxFaults,     \* bound: crashes, failed transactions and late heartbeats
  NoPrincipal

ASSUME PresenceAssumption ==
  /\ PrincipalOf \in [Socket -> Principal]
  /\ ReplicaOf \in [Socket -> Replica]
  /\ Orphan \subseteq Socket
  /\ MaxFaults \in Nat
  /\ NoPrincipal \notin Principal

\* The asynchronous functions that run transactions.
Opening(s) == <<"opening", s>>      \* initializeConnection
Closing(s) == <<"closing", s>>      \* the disconnect handler
Reaping(r) == <<"reaping", r>>      \* the presenceLeaseReaper interval
Worker == {Opening(s) : s \in Socket} \cup {Closing(s) : s \in Socket}
            \cup {Reaping(r) : r \in Replica}

VARIABLES
  lease,     \* quilt_presence_leases, by socket: "none", "fresh" or "stale"
  conn,      \* the local variables of each connection
  job,       \* what each worker is doing, its transaction included
  present,   \* history: the principals whose last committed decision was to join
  shown,     \* the roster of a client that has been connected all along
  faults     \* crashes, failures and late heartbeats so far

vars == <<lease, conn, job, present, shown, faults>>

Phase == {"idle", "joining", "waiting", "lock", "commit", "answer"}

Connection == [used : BOOLEAN, open : BOOLEAN, active : BOOLEAN,
               beating : BOOLEAN, renewing : BOOLEAN]
Unused == [used |-> FALSE, open |-> FALSE, active |-> FALSE,
           beating |-> FALSE, renewing |-> FALSE]

Job == [phase : Phase, kind : {"none", "acquire", "release", "reap"},
        scope : Principal \cup {NoPrincipal}, todo : SUBSET Principal,
        old : SUBSET Socket, removed : SUBSET Socket, locks : SUBSET Principal,
        first : BOOLEAN, last : SUBSET Principal]
Idle == [phase |-> "idle", kind |-> "none", scope |-> NoPrincipal, todo |-> {},
         old |-> {}, removed |-> {}, locks |-> {}, first |-> FALSE, last |-> {}]

Leases(p) == {s \in Socket : PrincipalOf[s] = p /\ lease[s] # "none"}
Stale     == {s \in Socket : lease[s] = "stale"}

\* A transaction of w over scope p, whose "now" makes the leases in old expired.
Transaction(kind, p, todo, old) ==
  [Idle EXCEPT !.phase = "lock", !.kind = kind, !.scope = p, !.todo = todo, !.old = old]

Init ==
  /\ lease = [s \in Socket |-> IF s \in Orphan THEN "fresh" ELSE "none"]
  /\ conn = [s \in Socket |-> IF s \in Orphan THEN [Unused EXCEPT !.used = TRUE] ELSE Unused]
  /\ job = [w \in Worker |-> Idle]
  /\ present = {PrincipalOf[s] : s \in Orphan}
  /\ shown = {} /\ faults = 0

-----------------------------------------------------------------------------
(* The database *)

LockFree(w) == TRUE   \* fault: no advisory lock

\* lockQuiltPresence
Lockable(w) == \A v \in Worker \ {w} : job[w].scope \notin job[v].locks

\* The rows a transaction deletes: a release its own, and everyone the expired ones of
\* the principal.  A row another transaction is deleting makes it wait.
Own(w)     == IF job[w].kind = "release" THEN {s \in Leases(job[w].scope) : w[2] = s} ELSE {}
Expired(w) == Leases(job[w].scope) \cap job[w].old
Others(w)  == Leases(job[w].scope) \ (Own(w) \cup Expired(w))

Removing(w) == UNION {job[v].removed : v \in Worker \ {w}}

\* Fault: the reaper deletes without deciding.
IsLastOfRelease(w) == job[w].kind = "release" /\ Own(w) # {} /\ Others(w) = {}

IsFirst(w) == job[w].kind = "acquire" /\ Others(w) = {}
IsLast(w) ==
  /\ \/ job[w].kind = "release" /\ Own(w) # {}
     \/ job[w].kind = "reap" /\ Expired(w) # {}
  /\ Others(w) = {}

\* Once the scope is locked, the deletions and the count that decides; the reaper goes
\* on to its next scope with the lock kept.
Decide(w) ==
  /\ job[w].phase = "lock"
  /\ Lockable(w)
  /\ (Own(w) \cup Expired(w)) \cap Removing(w) = {}
  /\ \E next \in IF job[w].todo = {} THEN {NoPrincipal} ELSE job[w].todo :
       job' = [job EXCEPT ![w] =
         [phase   |-> IF next = NoPrincipal THEN "commit" ELSE "lock",
          kind    |-> @.kind,
          scope   |-> IF next = NoPrincipal THEN @.scope ELSE next,
          todo    |-> @.todo \ {next},
          old     |-> @.old,
          removed |-> @.removed \cup Own(w) \cup Expired(w),
          locks   |-> @.locks \cup {@.scope},
          first   |-> IsFirst(w),
          last    |-> IF IsLast(w) THEN @.last \cup {@.scope} ELSE @.last]]
  /\ UNCHANGED <<lease, conn, present, shown, faults>>

\* The deletions, and the lease an acquisition inserts, become visible.
Commit(w) ==
  /\ job[w].phase = "commit"
  /\ lease' = [s \in Socket |->
       IF job[w].kind = "acquire" /\ s = w[2] THEN "fresh"
       ELSE IF s \in job[w].removed THEN "none" ELSE lease[s]]
  /\ present' = (present \ job[w].last) \cup (IF job[w].first THEN {job[w].scope} ELSE {})
  /\ job' = [job EXCEPT ![w] = [@ EXCEPT !.phase = "answer", !.removed = {}, !.locks = {},
                                         !.old = {}]]
  /\ UNCHANGED <<conn, shown, faults>>

\* The clock passes a lease's expiresAt: forty-five seconds without a renewal, which is
\* a fault as long as the connection is open.
Expire(s) ==
  /\ lease[s] = "fresh"
  /\ conn[s].open => faults < MaxFaults
  /\ faults' = IF conn[s].open THEN faults + 1 ELSE faults
  /\ lease' = [lease EXCEPT ![s] = "stale"]
  /\ UNCHANGED <<conn, job, present, shown>>

-----------------------------------------------------------------------------
(* Connections *)

\* joinedAt = Date.now() is the acquisition's "now".
Connect(s) ==
  /\ ~conn[s].used
  /\ conn' = [conn EXCEPT ![s].used = TRUE, ![s].open = TRUE]
  /\ job' = [job EXCEPT ![Opening(s)].phase = "joining", ![Opening(s)].old = Stale]
  /\ UNCHANGED <<lease, present, shown, faults>>

\* Fault: the heartbeat interval is not cleared.
CloseBeating(s) == [conn[s] EXCEPT !.open = FALSE]

\* The connection ends; the handler awaits the chat and the cycle observation first.
Close(s) == [conn[s] EXCEPT !.open = FALSE, !.beating = FALSE]

Disconnect(s) ==
  /\ conn[s].open
  /\ conn' = [conn EXCEPT ![s] = Close(s)]
  /\ job' = [job EXCEPT ![Closing(s)].phase = "waiting"]
  /\ UNCHANGED <<lease, present, shown, faults>>

\* socket.join returns: acquire, unless the connection has ended meanwhile.
Joined(s) ==
  LET w == Opening(s) IN
  /\ job[w].phase = "joining"
  /\ job' = [job EXCEPT ![w] = IF conn[s].open
                               THEN Transaction("acquire", PrincipalOf[s], {}, job[w].old)
                               ELSE Idle]
  /\ UNCHANGED <<lease, conn, present, shown, faults>>

\* The acquisition returns: release again if the connection has ended, else start the
\* heartbeat and announce the first lease.
Opened(s) ==
  LET w == Opening(s) IN
  /\ job[w].phase = "answer" /\ job[w].kind = "acquire"
  /\ \/ /\ conn[s].open
        /\ conn' = [conn EXCEPT ![s].active = TRUE, ![s].beating = TRUE]
        /\ shown' = IF job[w].first THEN shown \cup {PrincipalOf[s]} ELSE shown
        /\ job' = [job EXCEPT ![w] = Idle]
     \/ /\ ~conn[s].open
        /\ conn' = [conn EXCEPT ![s].active = TRUE]
        /\ job' = [job EXCEPT ![w] = Transaction("release", PrincipalOf[s], {}, Stale)]
        /\ UNCHANGED shown
  /\ UNCHANGED <<lease, present, faults>>

\* The release of an aborted initialization returns; its decision is not announced.
Aborted(s) ==
  LET w == Opening(s) IN
  /\ job[w].phase = "answer" /\ job[w].kind = "release"
  /\ conn' = [conn EXCEPT ![s].active = FALSE]
  /\ job' = [job EXCEPT ![w] = Idle]
  /\ UNCHANGED <<lease, present, shown, faults>>

\* The disconnect handler releases the lease if the connection has one by now.
CheckLease(s) ==
  LET w == Closing(s) IN
  /\ job[w].phase = "waiting"
  /\ job' = [job EXCEPT ![w] = IF conn[s].active
                               THEN Transaction("release", PrincipalOf[s], {}, Stale)
                               ELSE Idle]
  /\ UNCHANGED <<lease, conn, present, shown, faults>>

\* Fault: the disconnect handler does not announce.
AnnounceReaped(w) ==
  /\ job[w].phase = "answer"
  /\ w[1] \in {"closing", "reaping"}
  /\ shown' = IF w[1] = "reaping" THEN shown \ job[w].last ELSE shown
  /\ job' = [job EXCEPT ![w] = Idle]
  /\ UNCHANGED <<lease, conn, present, faults>>

\* The disconnect handler and the reaper announce the departures they have decided.
Announce(w) ==
  /\ job[w].phase = "answer"
  /\ w[1] \in {"closing", "reaping"}
  /\ shown' = shown \ job[w].last
  /\ job' = [job EXCEPT ![w] = Idle]
  /\ UNCHANGED <<lease, conn, present, faults>>

-----------------------------------------------------------------------------
(* Heartbeats *)

Beat(s) ==
  /\ conn[s].beating /\ ~conn[s].renewing
  /\ conn' = [conn EXCEPT ![s].renewing = TRUE]
  /\ UNCHANGED <<lease, job, present, shown, faults>>

\* One UPDATE without the advisory lock; a stale lease is renewed as well.
Renew(s) ==
  /\ conn[s].renewing
  /\ lease[s] # "none"
  /\ \A w \in Worker : s \notin job[w].removed
  /\ lease' = [lease EXCEPT ![s] = "fresh"]
  /\ conn' = [conn EXCEPT ![s].renewing = FALSE]
  /\ job' = [w \in Worker |-> [job[w] EXCEPT !.old = @ \ {s}]]
  /\ UNCHANGED <<present, shown, faults>>

\* renewPresenceLeaseOrDisconnect: the row is missing, so the server hangs up.
HangUp(s) ==
  IF conn[s].open
  THEN /\ conn' = [conn EXCEPT ![s] = [Close(s) EXCEPT !.renewing = FALSE]]
       /\ job' = [job EXCEPT ![Closing(s)].phase = "waiting"]
  ELSE conn' = [conn EXCEPT ![s].renewing = FALSE] /\ UNCHANGED job

\* Fault: the result of the renewal is ignored.
RenewIgnored(s) ==
  /\ conn[s].renewing
  /\ lease[s] = "none"
  /\ conn' = [conn EXCEPT ![s].renewing = FALSE]
  /\ UNCHANGED <<lease, job, present, shown, faults>>

RenewMissing(s) ==
  /\ conn[s].renewing
  /\ lease[s] = "none"
  /\ HangUp(s)
  /\ UNCHANGED <<lease, present, shown, faults>>

\* renewPresenceLeaseOrDisconnect: the renewal fails, so the server hangs up as well.
RenewFailed(s) ==
  /\ conn[s].renewing
  /\ faults < MaxFaults
  /\ faults' = faults + 1
  /\ HangUp(s)
  /\ UNCHANGED <<lease, present, shown>>

-----------------------------------------------------------------------------
(* The reaper *)

\* An unlocked read of the expired leases; each principal of one is a scope.
Scan(r) ==
  LET w == Reaping(r)
      scopes == {PrincipalOf[s] : s \in Stale} IN
  /\ job[w].phase = "idle"
  /\ \E p \in scopes : job' = [job EXCEPT ![w] = Transaction("reap", p, scopes \ {p}, Stale)]
  /\ UNCHANGED <<lease, conn, present, shown, faults>>

-----------------------------------------------------------------------------
(* Failures *)

\* Fault: a session-level advisory lock outlives the transaction.
GiveUpLocked(w) == job' = [job EXCEPT ![w] = [Idle EXCEPT !.locks = job[w].locks]] /\ UNCHANGED conn

\* The function that awaits w's transaction sees an error.  Only a failed acquisition
\* ends the connection; the other callers log the error.
GiveUp(w) ==
  IF job[w].kind = "acquire" /\ conn[w[2]].open
  THEN /\ conn' = [conn EXCEPT ![w[2]] = Close(w[2])]
       /\ job' = [job EXCEPT ![w] = Idle, ![Closing(w[2])].phase = "waiting"]
  ELSE job' = [job EXCEPT ![w] = Idle] /\ UNCHANGED conn

\* The transaction fails, or it commits and the answer is lost.
Fail(w) ==
  /\ faults < MaxFaults
  /\ job[w].phase \in {"lock", "commit", "answer"}
  /\ GiveUp(w)
  /\ faults' = faults + 1
  /\ UNCHANGED <<lease, present, shown>>

\* v holds the advisory lock w waits for.
WaitsFor(w, v) == job[w].phase = "lock" /\ v # w /\ job[w].scope \in job[v].locks

\* Two reapers that lock the same principals in different orders: PostgreSQL aborts one.
DeadlockVictim(r) ==
  /\ \E q \in Replica : /\ WaitsFor(Reaping(r), Reaping(q))
                        /\ WaitsFor(Reaping(q), Reaping(r))
  /\ job' = [job EXCEPT ![Reaping(r)] = Idle]
  /\ UNCHANGED <<lease, conn, present, shown, faults>>

\* A replica dies with its connections and transactions, and is restarted.
Crash(r) ==
  /\ faults < MaxFaults
  /\ faults' = faults + 1
  /\ conn' = [s \in Socket |-> IF ReplicaOf[s] = r /\ conn[s].used
                               THEN [Unused EXCEPT !.used = TRUE] ELSE conn[s]]
  /\ job' = [w \in Worker |-> IF w = Reaping(r) \/ \E s \in Socket : ReplicaOf[s] = r
                                                     /\ w \in {Opening(s), Closing(s)}
                              THEN Idle ELSE job[w]]
  /\ UNCHANGED <<lease, present, shown>>

-----------------------------------------------------------------------------
Database(w) == Decide(w) \/ Commit(w)

Initialize(s) == Joined(s) \/ Opened(s) \/ Aborted(s)
Heartbeat(s)  == Beat(s) \/ Renew(s) \/ RenewMissing(s)

Next ==
  \/ \E s \in Socket : \/ Connect(s) \/ Disconnect(s) \/ Expire(s)
                       \/ Initialize(s) \/ CheckLease(s) \/ Heartbeat(s) \/ RenewFailed(s)
  \/ \E w \in Worker : Database(w) \/ Announce(w) \/ Fail(w)
  \/ \E r \in Replica : Scan(r) \/ DeadlockVictim(r) \/ Crash(r)

Spec == Init /\ [][Next]_vars

\* Awaited calls return, PostgreSQL grants advisory locks in arrival order and aborts a
\* victim of each cycle, intervals fire, and a lease nobody renews runs out.
Progress ==
  /\ \A s \in Socket : /\ WF_vars(Initialize(s)) /\ WF_vars(CheckLease(s)) /\ WF_vars(Heartbeat(s))
                       /\ WF_vars(~conn[s].open /\ Expire(s))
  /\ \A w \in Worker : /\ SF_vars(Decide(w)) /\ WF_vars(Commit(w)) /\ WF_vars(Announce(w))
  /\ \A r \in Replica : WF_vars(Scan(r)) /\ WF_vars(DeadlockVictim(r))

FairSpec == Spec /\ Progress

-----------------------------------------------------------------------------
(* Type correctness *)

\* Leases, connections and workers are well formed, and a worker outside a transaction
\* holds no lock and no uncommitted deletion.
TypeOK ==
  /\ lease \in [Socket -> {"none", "fresh", "stale"}]
  /\ conn \in [Socket -> Connection]
  /\ job \in [Worker -> Job]
  /\ \A w \in Worker : job[w].phase \in {"idle", "joining", "waiting", "answer"} =>
                         job[w].locks = {} /\ job[w].removed = {}
  /\ present \subseteq Principal
  /\ shown \subseteq Principal
  /\ faults \in Nat

(* Safety *)

\* No departure is decided while another lease of the principal remains: as long as a
\* principal has a lease, the last committed decision about it was that it joined.
LeasedIsPresent == \A p \in Principal : Leases(p) # {} => p \in present

\* The converse: once a principal's last lease is gone, its departure was decided.
\* (Violated: run presence_swallowed.)
DepartedIsAbsent == \A p \in Principal : Leases(p) = {} => p \notin present

\* w commits a release that found its own lease gone.
ReleasesNothing(w) == job[w].kind = "release" /\ w[2] \notin job[w].removed

\* Two releases, a release and a reaper, or two reapers never take a principal's last
\* lease between them without either of them deciding that it has departed: nothing but a
\* release that finds its own lease gone ends a last lease undecided.
LastLeaseIsDecided ==
  [][\A p \in Principal :
       Leases(p) # {} /\ Leases(p)' = {} =>
         \/ p \notin present'
         \/ \E w \in Worker : Commit(w) /\ ReleasesNothing(w)]_vars

(* Liveness *)

\* The lease of a connection that has ended is eventually gone for good, whoever
\* released, reaped, failed or crashed on the way.
LeaseEndsWithConnection ==
  \A s \in Socket : conn[s].used /\ ~conn[s].open ~> [](lease[s] = "none")

\* A connection whose lease was reaped does not stay open.
LeaselessIsClosed ==
  \A s \in Socket : conn[s].beating /\ lease[s] = "none" ~> ~conn[s].open

\* Every connection of p has ended, and its initialization is over.
Ended(p) == \A s \in Socket : PrincipalOf[s] = p =>
              conn[s].used /\ ~conn[s].open /\ job[Opening(s)].phase = "idle"

\* Whichever of its tabs ends last, a principal who leaves leases behind after its
\* connections leaves the roster with the last of them, unless something fails or the
\* departure is swallowed (run presence_swallowed).  What an initialization releases that
\* the end of its connection has overtaken is not announced, so these are over here.
LastLeaseLeavesRoster ==
  \A p \in Principal :
    p \in shown /\ Leases(p) # {} /\ Ended(p)
      ~> p \notin shown \/ (Leases(p) = {} /\ p \in present) \/ faults > 0
=============================================================================
