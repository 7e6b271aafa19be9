--------------------------- MODULE PresenceProofs ---------------------------
(* Theorems about Presence for any number of principals, sockets and replicas, *)
(* any distribution of the sockets over them and any number of faults.         *)
EXTENDS Presence, TLAPS

-----------------------------------------------------------------------------
(* The inductive invariant. *)

\* A handler starts once: the disconnect handler when its connection ends, the
\* initialization when it begins.
Fresh ==
  \A s \in Socket :
    /\ ~conn[s].used => job[Opening(s)].phase = "idle" /\ job[Closing(s)].phase = "idle"
    /\ conn[s].open => conn[s].used /\ job[Closing(s)].phase = "idle"

\* Advisory locks exclude each other.
Exclusion == \A v, w \in Worker : v # w => job[v].locks \cap job[w].locks = {}

InTransaction(w) == job[w].phase \in {"lock", "commit"}

\* What a transaction deletes it has locked; an acquisition or a release is of the lease of
\* its own socket.
Scoped(w) ==
  /\ job[w].phase \in {"idle", "joining", "waiting"} => job[w].kind = "none"
  /\ InTransaction(w) => job[w].scope \in Principal
  /\ job[w].phase = "commit" => job[w].scope \in job[w].locks
  /\ \A s \in job[w].removed : PrincipalOf[s] \in job[w].locks
  /\ InTransaction(w) => job[w].kind # "none"
  /\ job[w].kind \in {"acquire", "release"} =>
       /\ w[2] \in Socket /\ job[w].scope = PrincipalOf[w[2]] /\ job[w].todo = {}
  /\ job[w].kind = "acquire" => w = Opening(w[2]) /\ job[w].last = {}

\* A departure that was decided is of a principal whose lock is held and whose leases the
\* same transaction deletes; an acquisition that was not the first found a lease, so its
\* principal is present.
Decided(w) ==
  InTransaction(w) =>
    /\ \A p \in job[w].last : p \in job[w].locks /\ Leases(p) \subseteq job[w].removed
    /\ job[w].kind = "acquire" /\ job[w].phase = "commit" /\ ~job[w].first =>
         job[w].scope \in present

Safe ==
  /\ TypeOK
  /\ Fresh
  /\ Exclusion
  /\ \A w \in Worker : Scoped(w) /\ Decided(w)
  /\ LeasedIsPresent

-----------------------------------------------------------------------------
(* Workers and their jobs *)

\* The workers of the sockets and replicas are workers, and all different.
LEMMA Workers ==
  /\ \A s \in Socket : Opening(s) \in Worker /\ Closing(s) \in Worker
  /\ \A r \in Replica : Reaping(r) \in Worker
  /\ \A s \in Socket : Opening(s)[2] = s /\ Opening(s)[1] = "opening"
  /\ \A s \in Socket : Closing(s)[2] = s /\ Closing(s)[1] = "closing"
  /\ \A r \in Replica : Reaping(r)[2] = r /\ Reaping(r)[1] = "reaping"
  BY DEF Worker, Opening, Closing, Reaping

\* The value of a worker at rest.
LEMMA IdleTyped ==
  /\ Idle \in Job
  /\ Idle.phase = "idle" /\ Idle.kind = "none" /\ Idle.todo = {}
  /\ Idle.removed = {} /\ Idle.locks = {} /\ Idle.last = {}
  BY DEF Idle, Job, Phase

\* A change of a job's phase.
LEMMA PhaseTyped ==
  ASSUME NEW j \in Job, NEW ph \in Phase
  PROVE  LET k == [j EXCEPT !.phase = ph] IN
         /\ k \in Job
         /\ k.phase = ph /\ k.kind = j.kind /\ k.scope = j.scope /\ k.todo = j.todo
         /\ k.old = j.old /\ k.removed = j.removed /\ k.locks = j.locks
         /\ k.first = j.first /\ k.last = j.last
  BY DEF Job

\* A change of what a job takes for expired.
LEMMA OldTyped ==
  ASSUME NEW j \in Job, NEW o \in SUBSET Socket
  PROVE  LET k == [j EXCEPT !.old = o] IN
         /\ k \in Job
         /\ k.phase = j.phase /\ k.kind = j.kind /\ k.scope = j.scope /\ k.todo = j.todo
         /\ k.removed = j.removed /\ k.locks = j.locks
         /\ k.first = j.first /\ k.last = j.last
  BY DEF Job

\* The flags of a connection change without closing it.
LEMMA FlagsTyped ==
  ASSUME NEW c \in Connection, NEW b \in BOOLEAN
  PROVE  /\ LET d == [c EXCEPT !.renewing = b] IN
            d \in Connection /\ d.used = c.used /\ d.open = c.open
         /\ LET d == [c EXCEPT !.beating = b] IN
            d \in Connection /\ d.used = c.used /\ d.open = c.open
         /\ LET d == [c EXCEPT !.active = b] IN
            d \in Connection /\ d.used = c.used /\ d.open = c.open
  BY DEF Connection

-----------------------------------------------------------------------------
(* Steps outside the database *)

\* What the rest of the system sees of w stays the same.
Same(w) ==
  /\ job'[w].phase = job[w].phase /\ job'[w].kind = job[w].kind
  /\ job'[w].scope = job[w].scope /\ job'[w].todo = job[w].todo
  /\ job'[w].removed = job[w].removed /\ job'[w].locks = job[w].locks
  /\ job'[w].first = job[w].first /\ job'[w].last = job[w].last

\* w does not work on the database.
Away(w) ==
  /\ job'[w].phase \in {"idle", "joining", "waiting"}
  /\ job'[w].kind = "none" /\ job'[w].locks = {} /\ job'[w].removed = {}

\* w begins a transaction.
Begins(w) ==
  /\ job'[w].phase = "lock" /\ job'[w].scope \in Principal
  /\ job'[w].scope \notin job'[w].todo
  /\ job'[w].locks = {} /\ job'[w].removed = {} /\ job'[w].last = {}
  /\ job'[w].kind # "none"
  /\ job'[w].kind \in {"acquire", "release"} =>
       /\ w[2] \in Socket /\ job'[w].scope = PrincipalOf[w[2]] /\ job'[w].todo = {}
  /\ job'[w].kind = "acquire" => w = Opening(w[2])

\* A step that brings and ends no lease and in which each worker stays as it was, leaves the
\* database or begins a transaction.
Outside ==
  /\ job' \in [Worker -> Job]
  /\ \A w \in Worker : Same(w) \/ Away(w) \/ Begins(w)
  /\ \A s \in Socket : lease'[s] # "none" <=> lease[s] # "none"
  /\ present' = present

\* Such a step keeps the locks and decisions in order.
LEMMA OutsideSafe ==
  ASSUME PresenceAssumption, Safe, Outside
  PROVE  /\ \A w \in Worker : job'[w].phase \in {"idle", "joining", "waiting", "answer"} =>
                                job'[w].locks = {} /\ job'[w].removed = {}
         /\ Exclusion'
         /\ \A w \in Worker : Scoped(w)' /\ Decided(w)'
         /\ LeasedIsPresent'
  <1>1. ASSUME NEW w \in Worker
        PROVE  job'[w].phase \in {"idle", "joining", "waiting", "answer"} =>
                 job'[w].locks = {} /\ job'[w].removed = {}
    BY <1>1 DEF Safe, TypeOK, Outside, Same, Away, Begins
  <1>2. \A w \in Worker : job'[w].locks \subseteq job[w].locks
    BY DEF Outside, Same, Away, Begins
  <1>3. Exclusion'
    BY <1>2 DEF Exclusion, Safe
  <1>4. \A p : Leases(p)' = Leases(p)
    BY DEF Outside, Leases
  <1>5. ASSUME NEW w \in Worker
        PROVE  Scoped(w)' /\ Decided(w)'
    <2>1. CASE Same(w)
      <3>1. Scoped(w)'
        BY <2>1 DEF Scoped, Same, InTransaction, Safe
      <3>2. Decided(w)'
        BY <2>1, <1>4 DEF Decided, Same, InTransaction, Safe, Outside
      <3> QED BY <3>1, <3>2
    <2>2. CASE Away(w)
      BY <2>2 DEF Away, Scoped, Decided, InTransaction
    <2>3. CASE Begins(w)
      BY <2>3 DEF Begins, Scoped, Decided, InTransaction
    <2> QED BY <1>5, <2>1, <2>2, <2>3 DEF Outside
  <1>6. LeasedIsPresent'
    BY <1>4 DEF LeasedIsPresent, Safe, Outside
  <1> QED BY <1>1, <1>3, <1>5, <1>6

\* What is left to show of such a step: the types of the other variables, and that no
\* handler starts twice.
Rest ==
  /\ lease' \in [Socket -> {"none", "fresh", "stale"}]
  /\ conn' \in [Socket -> Connection]
  /\ shown' \subseteq Principal
  /\ faults' \in Nat
  /\ Fresh'

\* A step outside the database keeps the invariant.
LEMMA OutsideKeeps == ASSUME PresenceAssumption, Safe, Outside, Rest PROVE Safe'
  <1>1. present' \subseteq Principal
    BY DEF Safe, TypeOK, Outside
  <1>2. TypeOK'
    BY OutsideSafe, <1>1 DEF TypeOK, Rest, Outside
  <1> QED BY OutsideSafe, <1>2 DEF Safe, Rest

\* The expired leases are leases.
LEMMA StaleTyped == Stale \in SUBSET Socket
  BY DEF Stale

\* Only the clock moves.
LEMMA ExpireKeeps ==
  ASSUME PresenceAssumption, Safe, NEW s \in Socket, Expire(s) PROVE Outside /\ Safe'
  <1>1. Outside
    BY DEF Outside, Expire, Same, Safe, TypeOK
  <1>2. Rest
    BY DEF Rest, Expire, Safe, TypeOK, Fresh, Connection
  <1> QED BY <1>1, <1>2, OutsideKeeps

\* One worker's job changes.
LEMMA OneChanges ==
  ASSUME job \in [Worker -> Job], NEW w \in Worker, NEW j \in Job, job' = [job EXCEPT ![w] = j]
  PROVE  /\ job' \in [Worker -> Job]
         /\ job'[w] = j
         /\ \A v \in Worker \ {w} : job'[v] = job[v]
         /\ \A v \in Worker : v # w => Same(v)
  BY DEF Same

\* A connection begins.
LEMMA ConnectKeeps ==
  ASSUME PresenceAssumption, Safe, NEW s \in Socket, Connect(s) PROVE Outside /\ Safe'
  <1> DEFINE w == Opening(s)
             j == [job[w] EXCEPT !.phase = "joining"]
             k == [j EXCEPT !.old = Stale]
  <1>1. w \in Worker /\ job[w] \in Job
    BY Workers DEF Safe, TypeOK
  <1>2. job' = [job EXCEPT ![w] = k]
    BY <1>1 DEF Connect, Safe, TypeOK
  <1>3. job[w].phase = "idle" /\ job[w].kind = "none" /\ job[w].locks = {} /\ job[w].removed = {}
    BY <1>1 DEF Connect, Safe, TypeOK, Fresh, Scoped
  <1>4. k \in Job /\ k.phase = "joining" /\ k.kind = "none" /\ k.locks = {} /\ k.removed = {}
    <2>1. /\ j \in Job /\ j.phase = "joining" /\ j.kind = "none"
          /\ j.locks = {} /\ j.removed = {}
      BY <1>1, <1>3, PhaseTyped, ZenonT(30) DEF Phase
    <2> HIDE DEF j
    <2> QED BY <2>1, OldTyped, StaleTyped
  <1> HIDE DEF k
  <1>5. /\ job' \in [Worker -> Job]
        /\ Away(w)
        /\ \A v \in Worker \ {w} : job'[v] = job[v]
        /\ \A v \in Worker : v # w => Same(v)
    BY <1>1, <1>2, <1>4, OneChanges DEF Away, Safe, TypeOK
  <1>6. Outside
    BY <1>5 DEF Outside, Connect
  <1>7. conn' \in [Socket -> Connection]
    BY ZenonT(60) DEF Connect, Safe, TypeOK, Connection
  <1>8. Fresh'
    <2> SUFFICES ASSUME NEW t \in Socket
                 PROVE  /\ ~conn'[t].used => /\ job'[Opening(t)].phase = "idle"
                                             /\ job'[Closing(t)].phase = "idle"
                        /\ conn'[t].open => conn'[t].used /\ job'[Closing(t)].phase = "idle"
      BY DEF Fresh
    <2>1. job'[Closing(t)] = job[Closing(t)]
      BY <1>5, Workers
    <2>2. CASE t = s
      BY <2>1, <2>2 DEF Connect, Safe, TypeOK, Connection, Fresh
    <2>3. CASE t # s
      <3>1. job'[Opening(t)] = job[Opening(t)]
        BY <1>5, <2>3, Workers
      <3> QED BY <2>1, <3>1, <2>3 DEF Connect, Safe, TypeOK, Fresh
    <2> QED BY <2>2, <2>3
  <1> QED BY <1>6, <1>7, <1>8, OutsideKeeps DEF Rest, Connect, Safe, TypeOK

\* A step of one worker while connections at most close.
LEMMA HandlerKeeps ==
  ASSUME PresenceAssumption, Safe, NEW w \in Worker, NEW j \in Job,
         job' = [job EXCEPT ![w] = j],
         Away(w) \/ Begins(w),
         \A t \in Socket : /\ conn'[t].used = conn[t].used
                           /\ conn'[t].open => conn[t].open,
         \/ j.phase = "idle"
         \/ \A t \in Socket : /\ w = Opening(t) => conn[t].used
                              /\ w = Closing(t) => conn[t].used /\ ~conn'[t].open,
         lease' = lease, present' = present,
         conn' \in [Socket -> Connection], shown' \subseteq Principal, faults' \in Nat
  PROVE  Outside /\ Safe'
  <1>1. /\ job' \in [Worker -> Job]
        /\ job'[w] = j
        /\ \A v \in Worker \ {w} : job'[v] = job[v]
        /\ \A v \in Worker : v # w => Same(v)
    BY OneChanges DEF Safe, TypeOK
  <1>2. Outside
    BY <1>1 DEF Outside
  <1>3. Fresh'
    <2> SUFFICES ASSUME NEW t \in Socket
                 PROVE  /\ ~conn'[t].used => /\ job'[Opening(t)].phase = "idle"
                                             /\ job'[Closing(t)].phase = "idle"
                        /\ conn'[t].open => conn'[t].used /\ job'[Closing(t)].phase = "idle"
      BY DEF Fresh
    <2>1. /\ ~conn[t].used => job[Opening(t)].phase = "idle" /\ job[Closing(t)].phase = "idle"
          /\ conn[t].open => conn[t].used /\ job[Closing(t)].phase = "idle"
      BY DEF Safe, Fresh
    <2>2. Opening(t) \in Worker /\ Closing(t) \in Worker
      BY Workers
    <2>3. CASE w = Opening(t)
      <3>1. Closing(t) # w
        BY <2>3, Workers
      <3> QED BY <1>1, <2>1, <2>2, <2>3, <3>1
    <2>4. CASE w = Closing(t)
      <3>1. Opening(t) # w
        BY <2>4, Workers
      <3> QED BY <1>1, <2>1, <2>2, <2>4, <3>1
    <2>5. CASE w # Opening(t) /\ w # Closing(t)
      BY <1>1, <2>1, <2>2, <2>5
    <2> QED BY <2>3, <2>4, <2>5
  <1>4. Rest
    BY <1>3 DEF Rest, Safe, TypeOK
  <1> QED BY <1>2, <1>4, OutsideKeeps

\* Where an initialization or a disconnect handler is under way, the connection has been
\* used, and a disconnect handler's is over.
LEMMA UnderWay ==
  ASSUME Safe, NEW w \in Worker, job[w].phase # "idle"
  PROVE  \A t \in Socket : /\ w = Opening(t) => conn[t].used
                           /\ w = Closing(t) => conn[t].used /\ ~conn[t].open
  BY DEF Safe, Fresh

\* A worker that is done rests.
LEMMA RestKeeps ==
  ASSUME PresenceAssumption, Safe, NEW w \in Worker, job' = [job EXCEPT ![w] = Idle],
         \A t \in Socket : /\ conn'[t].used = conn[t].used
                           /\ conn'[t].open => conn[t].open,
         lease' = lease, present' = present,
         conn' \in [Socket -> Connection], shown' \subseteq Principal, faults' \in Nat
  PROVE  Outside /\ Safe'
  <1>1. Away(w)
    BY IdleTyped, OneChanges DEF Away, Safe, TypeOK
  <1> QED BY <1>1, IdleTyped, HandlerKeeps

\* A worker that is under way begins a transaction over the principal of a socket.
LEMMA BeginKeeps ==
  ASSUME PresenceAssumption, Safe, NEW w \in Worker, job[w].phase # "idle",
         NEW k \in {"acquire", "release"}, NEW s \in Socket, NEW o \in SUBSET Socket,
         w \in {Opening(s), Closing(s)}, k = "acquire" => w = Opening(s),
         job' = [job EXCEPT ![w] = Transaction(k, PrincipalOf[s], {}, o)],
         \A t \in Socket : /\ conn'[t].used = conn[t].used
                           /\ conn'[t].open => conn[t].open,
         lease' = lease, present' = present,
         conn' \in [Socket -> Connection], shown' \subseteq Principal, faults' \in Nat
  PROVE  Outside /\ Safe'
  <1> DEFINE j == Transaction(k, PrincipalOf[s], {}, o)
  <1>1. PrincipalOf[s] \in Principal
    BY DEF PresenceAssumption
  <1>2. /\ j \in Job
        /\ j.phase = "lock" /\ j.kind = k /\ j.scope = PrincipalOf[s] /\ j.todo = {}
        /\ j.removed = {} /\ j.locks = {} /\ j.last = {}
    BY <1>1 DEF Transaction, Idle, Job, Phase
  <1> HIDE DEF j
  <1>3. job'[w] = j
    BY <1>2, OneChanges DEF Safe, TypeOK, j
  <1>4. w[2] = s
    BY Workers
  <1>5. Begins(w)
    BY <1>1, <1>2, <1>3, <1>4 DEF Begins
  <1>6. job' = [job EXCEPT ![w] = j]
    BY DEF j
  <1> QED BY <1>2, <1>5, <1>6, UnderWay, HandlerKeeps

-----------------------------------------------------------------------------
(* The connection's handlers *)

\* A disconnect handler starts to wait.
LEMMA WaitingKeeps ==
  ASSUME PresenceAssumption, Safe, NEW s \in Socket, conn[s].open,
         job' = [job EXCEPT ![Closing(s)].phase = "waiting"],
         \A t \in Socket : /\ conn'[t].used = conn[t].used
                           /\ conn'[t].open => conn[t].open,
         ~conn'[s].open,
         lease' = lease, present' = present,
         conn' \in [Socket -> Connection], shown' \subseteq Principal, faults' \in Nat
  PROVE  Outside /\ Safe'
  <1> DEFINE w == Closing(s)
             j == [job[w] EXCEPT !.phase = "waiting"]
  <1>1. w \in Worker /\ job[w] \in Job
    BY Workers DEF Safe, TypeOK
  <1>2. job' = [job EXCEPT ![w] = j]
    BY <1>1 DEF Safe, TypeOK
  <1>3. /\ job[w].phase = "idle" /\ job[w].kind = "none"
        /\ job[w].locks = {} /\ job[w].removed = {}
    BY <1>1 DEF Safe, TypeOK, Fresh, Scoped
  <1>4. j \in Job /\ j.phase = "waiting" /\ j.kind = "none" /\ j.locks = {} /\ j.removed = {}
    BY <1>1, <1>3, PhaseTyped DEF Phase
  <1> HIDE DEF j
  <1>5. Away(w)
    BY <1>1, <1>2, <1>4, OneChanges DEF Away, Safe, TypeOK
  <1>6. conn[s].used
    BY DEF Safe, Fresh, TypeOK
  <1>7. \A t \in Socket : /\ w # Opening(t)
                          /\ w = Closing(t) => t = s
    BY Workers
  <1> HIDE DEF w
  <1> QED BY <1>1, <1>2, <1>4, <1>5, <1>6, <1>7, HandlerKeeps

\* Only what a connection knows changes, and the clock of faults.
LEMMA ConnKeeps ==
  ASSUME PresenceAssumption, Safe, job' = job,
         \A t \in Socket : /\ conn'[t].used = conn[t].used
                           /\ conn'[t].open => conn[t].open,
         lease' = lease, present' = present,
         conn' \in [Socket -> Connection], shown' \subseteq Principal, faults' \in Nat
  PROVE  Outside /\ Safe'
  <1>1. Outside
    BY DEF Outside, Same, Safe, TypeOK
  <1>2. Rest
    BY DEF Rest, Safe, TypeOK, Fresh
  <1> QED BY <1>1, <1>2, OutsideKeeps

\* What closing does to a connection.
LEMMA CloseShape ==
  ASSUME Safe, NEW s \in Socket
  PROVE  /\ Close(s) \in Connection /\ Close(s).used = conn[s].used /\ Close(s).open = FALSE
         /\ LET c == [Close(s) EXCEPT !.renewing = FALSE] IN
            c \in Connection /\ c.used = conn[s].used /\ c.open = FALSE
  BY ZenonT(30) DEF Safe, TypeOK, Close, Connection

\* A connection's flags change.
LEMMA FlagsKeep ==
  ASSUME Safe, NEW s \in Socket, NEW c \in Connection, conn' = [conn EXCEPT ![s] = c],
         c.used = conn[s].used, c.open => conn[s].open
  PROVE  /\ conn' \in [Socket -> Connection]
         /\ \A t \in Socket : conn'[t].used = conn[t].used /\ (conn'[t].open => conn[t].open)
  BY DEF Safe, TypeOK

\* The connection ends and its disconnect handler waits.
LEMMA DisconnectKeeps ==
  ASSUME PresenceAssumption, Safe, NEW s \in Socket, Disconnect(s) PROVE Outside /\ Safe'
  <1>1. /\ conn' \in [Socket -> Connection]
        /\ ~conn'[s].open
        /\ \A t \in Socket : conn'[t].used = conn[t].used /\ (conn'[t].open => conn[t].open)
    <2> HIDE DEF Close
    <2> QED BY CloseShape DEF Disconnect, Safe, TypeOK
  <1> QED BY <1>1, WaitingKeeps DEF Disconnect, Safe, TypeOK

\* The room is joined: an acquisition begins unless the connection has ended.
LEMMA JoinedKeeps ==
  ASSUME PresenceAssumption, Safe, NEW s \in Socket, Joined(s) PROVE Outside /\ Safe'
  <1> DEFINE w == Opening(s)
  <1>1. w \in Worker /\ job[w].phase # "idle" /\ job[w].old \in SUBSET Socket
    BY Workers DEF Joined, Safe, TypeOK, Job
  <1>2. CASE conn[s].open
    BY <1>1, <1>2, BeginKeeps DEF Joined, Safe, TypeOK
  <1>3. CASE ~conn[s].open
    BY <1>1, <1>3, RestKeeps DEF Joined, Safe, TypeOK
  <1> QED BY <1>2, <1>3

\* The acquisition has returned to a connection, or to one that has ended and releases.
LEMMA OpenedKeeps ==
  ASSUME PresenceAssumption, Safe, NEW s \in Socket, Opened(s) PROVE Outside /\ Safe'
  <1> DEFINE w == Opening(s)
  <1>1. w \in Worker /\ job[w].phase # "idle"
    BY Workers DEF Opened
  <1>2. PrincipalOf[s] \in Principal
    BY DEF PresenceAssumption
  <1>3. CASE conn[s].open
    <2>1. /\ conn' \in [Socket -> Connection]
          /\ \A t \in Socket : conn'[t].used = conn[t].used /\ (conn'[t].open => conn[t].open)
      <3> DEFINE c == [conn[s] EXCEPT !.active = TRUE]
                 d == [c EXCEPT !.beating = TRUE]
      <3>1. conn' = [conn EXCEPT ![s] = d]
        BY <1>3 DEF Opened, Safe, TypeOK
      <3>2. c \in Connection /\ c.used = conn[s].used /\ c.open = conn[s].open
        BY FlagsTyped DEF Safe, TypeOK
      <3> HIDE DEF c
      <3>3. d \in Connection /\ d.used = c.used /\ d.open = c.open
        BY <3>2, FlagsTyped
      <3> HIDE DEF d
      <3> QED BY <3>1, <3>2, <3>3, FlagsKeep
    <2>2. shown' \subseteq Principal
      BY <1>2, <1>3 DEF Opened, Safe, TypeOK
    <2> QED BY <1>1, <1>3, <2>1, <2>2, RestKeeps DEF Opened, Safe, TypeOK
  <1>4. CASE ~conn[s].open
    <2>1. /\ conn' \in [Socket -> Connection]
          /\ \A t \in Socket : conn'[t].used = conn[t].used /\ (conn'[t].open => conn[t].open)
      <3>1. conn' = [conn EXCEPT ![s] = [conn[s] EXCEPT !.active = TRUE]]
        BY <1>4 DEF Opened, Safe, TypeOK
      <3> QED BY <3>1, FlagsTyped, FlagsKeep, ZenonT(60) DEF Safe, TypeOK
    <2> QED BY <1>1, <1>4, <2>1, StaleTyped, BeginKeeps DEF Opened, Safe, TypeOK
  <1> QED BY <1>3, <1>4

\* The release of an aborted initialization has returned.
LEMMA AbortedKeeps ==
  ASSUME PresenceAssumption, Safe, NEW s \in Socket, Aborted(s) PROVE Outside /\ Safe'
  <1>1. Opening(s) \in Worker
    BY Workers
  <1>2. /\ conn' \in [Socket -> Connection]
        /\ \A t \in Socket : conn'[t].used = conn[t].used /\ (conn'[t].open => conn[t].open)
    <2>1. conn' = [conn EXCEPT ![s] = [conn[s] EXCEPT !.active = FALSE]]
      BY DEF Aborted, Safe, TypeOK
    <2> QED BY <2>1, FlagsTyped, FlagsKeep DEF Safe, TypeOK
  <1> QED BY <1>1, <1>2, RestKeeps DEF Aborted, Safe, TypeOK

\* The disconnect handler releases or has nothing to release.
LEMMA CheckLeaseKeeps ==
  ASSUME PresenceAssumption, Safe, NEW s \in Socket, CheckLease(s) PROVE Outside /\ Safe'
  <1> DEFINE w == Closing(s)
  <1>1. w \in Worker /\ job[w].phase # "idle"
    BY Workers DEF CheckLease
  <1>2. CASE conn[s].active
    BY <1>1, <1>2, StaleTyped, BeginKeeps DEF CheckLease, Safe, TypeOK
  <1>3. CASE ~conn[s].active
    BY <1>1, <1>3, RestKeeps DEF CheckLease, Safe, TypeOK
  <1> QED BY <1>2, <1>3

\* A departure is announced.
LEMMA AnnounceKeeps ==
  ASSUME PresenceAssumption, Safe, NEW w \in Worker, Announce(w) PROVE Outside /\ Safe'
  BY RestKeeps DEF Announce, Safe, TypeOK

-----------------------------------------------------------------------------
(* Heartbeats, reapers and failures *)

\* A heartbeat sends its renewal.
LEMMA BeatKeeps ==
  ASSUME PresenceAssumption, Safe, NEW s \in Socket, Beat(s) PROVE Outside /\ Safe'
  <1>1. /\ conn' \in [Socket -> Connection]
        /\ \A t \in Socket : conn'[t].used = conn[t].used /\ (conn'[t].open => conn[t].open)
    BY DEF Beat, Safe, TypeOK, Connection
  <1> QED BY <1>1, ConnKeeps DEF Beat, Safe, TypeOK

\* A renewal changes a lease that is there.
LEMMA RenewKeeps ==
  ASSUME PresenceAssumption, Safe, NEW s \in Socket, Renew(s) PROVE Outside /\ Safe'
  <1>1. ASSUME NEW w \in Worker
        PROVE  job'[w] \in Job /\ Same(w)
    <2>1. job[w] \in Job /\ job[w].old \ {s} \in SUBSET Socket
      BY DEF Safe, TypeOK, Job
    <2>2. job'[w] = [job[w] EXCEPT !.old = job[w].old \ {s}]
      BY DEF Renew
    <2> DEFINE k == [job[w] EXCEPT !.old = job[w].old \ {s}]
    <2>3. /\ k \in Job
          /\ k.phase = job[w].phase /\ k.kind = job[w].kind /\ k.scope = job[w].scope
          /\ k.todo = job[w].todo /\ k.removed = job[w].removed /\ k.locks = job[w].locks
          /\ k.first = job[w].first /\ k.last = job[w].last
      BY <2>1, OldTyped, ZenonT(30)
    <2>4. job'[w] = k
      BY <2>2
    <2> HIDE DEF k
    <2> QED BY <2>3, <2>4 DEF Same
  <1>2. Outside
    BY <1>1 DEF Outside, Renew, Safe, TypeOK
  <1>3. /\ conn' \in [Socket -> Connection]
        /\ \A t \in Socket : conn'[t].used = conn[t].used /\ (conn'[t].open => conn[t].open)
    BY DEF Renew, Safe, TypeOK, Connection
  <1>4. Fresh'
    BY <1>1, <1>3, Workers DEF Fresh, Safe, Same
  <1>5. Rest
    BY <1>3, <1>4 DEF Rest, Renew, Safe, TypeOK
  <1> QED BY <1>2, <1>5, OutsideKeeps

\* The server hangs up on a socket whose renewal did not succeed.
LEMMA HangUpKeeps ==
  ASSUME PresenceAssumption, Safe, NEW s \in Socket, HangUp(s),
         lease' = lease, present' = present, shown' = shown, faults' \in Nat
  PROVE  Outside /\ Safe'
  <1>1. CASE conn[s].open
    <2> DEFINE c == [Close(s) EXCEPT !.renewing = FALSE]
    <2>1. c \in Connection /\ c.used = conn[s].used /\ c.open = FALSE
      BY CloseShape
    <2>2. conn' = [conn EXCEPT ![s] = c] /\ job' = [job EXCEPT ![Closing(s)].phase = "waiting"]
      BY <1>1 DEF HangUp
    <2> HIDE DEF c
    <2>3. /\ conn' \in [Socket -> Connection]
          /\ ~conn'[s].open
          /\ \A t \in Socket : conn'[t].used = conn[t].used /\ (conn'[t].open => conn[t].open)
      BY <2>1, <2>2 DEF Safe, TypeOK
    <2> QED BY <1>1, <2>2, <2>3, WaitingKeeps DEF Safe, TypeOK
  <1>2. CASE ~conn[s].open
    <2>1. /\ conn' \in [Socket -> Connection]
          /\ \A t \in Socket : conn'[t].used = conn[t].used /\ (conn'[t].open => conn[t].open)
      <3>1. conn' = [conn EXCEPT ![s] = [conn[s] EXCEPT !.renewing = FALSE]]
        BY <1>2 DEF HangUp, Safe, TypeOK
      <3> QED BY <3>1, FlagsTyped, FlagsKeep, ZenonT(60) DEF Safe, TypeOK
    <2> QED BY <1>2, <2>1, ConnKeeps DEF HangUp, Safe, TypeOK
  <1> QED BY <1>1, <1>2

\* A reaper begins with one of the expired principals.
LEMMA ScanKeeps ==
  ASSUME PresenceAssumption, Safe, NEW r \in Replica, Scan(r) PROVE Outside /\ Safe'
  <1> DEFINE w == Reaping(r)
             scopes == {PrincipalOf[s] : s \in Stale}
  <1>1. w \in Worker
    BY Workers
  <1>2. PICK p \in scopes : job' = [job EXCEPT ![w] = Transaction("reap", p, scopes \ {p}, Stale)]
    BY DEF Scan
  <1>3. scopes \subseteq Principal
    BY DEF PresenceAssumption, Stale
  <1> DEFINE T == scopes \ {p}
             j == Transaction("reap", p, T, Stale)
  <1>4. p \in Principal /\ T \in SUBSET Principal
    BY <1>3
  <1>5. p \notin T
    OBVIOUS
  <1> HIDE DEF scopes, T
  <1>6. /\ j \in Job
        /\ j.phase = "lock" /\ j.kind = "reap" /\ j.scope = p /\ j.scope \notin j.todo
        /\ j.removed = {} /\ j.locks = {} /\ j.last = {}
    BY <1>4, <1>5, StaleTyped DEF Transaction, Idle, Job, Phase
  <1>7. job' = [job EXCEPT ![w] = j]
    BY <1>2 DEF T
  <1> HIDE DEF j
  <1>8. Begins(w)
    BY <1>1, <1>4, <1>6, <1>7, OneChanges DEF Begins, Safe, TypeOK
  <1>9. \A t \in Socket : w # Opening(t) /\ w # Closing(t)
    BY Workers
  <1> HIDE DEF w
  <1> QED BY <1>1, <1>6, <1>7, <1>8, <1>9, HandlerKeeps DEF Scan, Safe, TypeOK

\* A renewal found no lease.
LEMMA RenewMissingKeeps ==
  ASSUME PresenceAssumption, Safe, NEW s \in Socket, RenewMissing(s) PROVE Outside /\ Safe'
  BY HangUpKeeps DEF RenewMissing, Safe, TypeOK

\* A renewal failed.
LEMMA RenewFailedKeeps ==
  ASSUME PresenceAssumption, Safe, NEW s \in Socket, RenewFailed(s) PROVE Outside /\ Safe'
  BY HangUpKeeps DEF RenewFailed, Safe, TypeOK

\* A transaction of a deadlock is aborted.
LEMMA VictimKeeps ==
  ASSUME PresenceAssumption, Safe, NEW r \in Replica, DeadlockVictim(r) PROVE Outside /\ Safe'
  BY Workers, RestKeeps DEF DeadlockVictim, Safe, TypeOK

\* A transaction fails; if it was an acquisition, the connection ends.
LEMMA FailKeeps ==
  ASSUME PresenceAssumption, Safe, NEW w \in Worker, Fail(w) PROVE Outside /\ Safe'
  <1>1. faults' \in Nat /\ lease' = lease /\ present' = present /\ shown' = shown
    BY DEF Fail, Safe, TypeOK
  <1>2. CASE ~(job[w].kind = "acquire" /\ conn[w[2]].open)
    BY <1>1, <1>2, RestKeeps DEF Fail, GiveUp, Safe, TypeOK
  <1>3. CASE job[w].kind = "acquire" /\ conn[w[2]].open
    <2> DEFINE s == w[2]
               v == Closing(s)
               c == Close(s)
               j == [job[v] EXCEPT !.phase = "waiting"]
    <2>1. s \in Socket /\ w = Opening(s)
      BY <1>3 DEF Safe, Scoped
    <2>2. v \in Worker /\ job[v] \in Job /\ v # w
      BY <2>1, Workers DEF Safe, TypeOK
    <2>3. /\ job[v].phase = "idle" /\ job[v].kind = "none"
          /\ job[v].locks = {} /\ job[v].removed = {}
      BY <1>3, <2>1, <2>2 DEF Safe, TypeOK, Fresh, Scoped
    <2>4. j \in Job /\ j.phase = "waiting" /\ j.kind = "none" /\ j.locks = {} /\ j.removed = {}
      BY <2>2, <2>3, PhaseTyped, ZenonT(30) DEF Phase
    <2>5. job' = [job EXCEPT ![w] = Idle, ![v] = j]
      BY <1>3, <2>2 DEF Fail, GiveUp, Safe, TypeOK
    <2>6. conn' = [conn EXCEPT ![s] = c]
      BY <1>3 DEF Fail, GiveUp
    <2>7. c \in Connection /\ c.used = conn[s].used /\ c.open = FALSE
      BY <2>1, CloseShape
    <2> HIDE DEF c, j
    <2>8. /\ conn' \in [Socket -> Connection]
          /\ ~conn'[s].open
          /\ \A t \in Socket : conn'[t].used = conn[t].used /\ (conn'[t].open => conn[t].open)
      BY <2>1, <2>6, <2>7 DEF Safe, TypeOK
    <2>9. /\ job' \in [Worker -> Job] /\ job'[w] = Idle /\ job'[v] = j
          /\ \A u \in Worker \ {v, w} : job'[u] = job[u]
      <3> HIDE DEF v, s
      <3> QED BY <2>2, <2>4, <2>5, IdleTyped DEF Safe, TypeOK
    <2>10. \A u \in Worker : Same(u) \/ Away(u) \/ Begins(u)
      <3>1. Away(w) /\ Away(v)
        BY <2>4, <2>9, IdleTyped DEF Away
      <3>2. \A u \in Worker \ {v, w} : Same(u)
        BY <2>9 DEF Same
      <3> QED BY <3>1, <3>2
    <2>11. Outside
      BY <1>1, <2>9, <2>10 DEF Outside
    <2>12. Fresh'
      <3> SUFFICES ASSUME NEW t \in Socket
                   PROVE  /\ ~conn'[t].used => /\ job'[Opening(t)].phase = "idle"
                                               /\ job'[Closing(t)].phase = "idle"
                          /\ conn'[t].open => conn'[t].used /\ job'[Closing(t)].phase = "idle"
        BY DEF Fresh
      <3>1. CASE t = s
        BY <1>3, <2>8, <3>1 DEF Safe, Fresh
      <3>2. CASE t # s
        <4>1. /\ Opening(t) \in Worker \ {v, w} /\ Closing(t) \in Worker \ {v, w}
          BY <2>1, <3>2, Workers
        <4>2. job'[Opening(t)] = job[Opening(t)] /\ job'[Closing(t)] = job[Closing(t)]
          <5> HIDE DEF v
          <5> QED BY <2>9, <4>1
        <4> QED BY <2>8, <4>2 DEF Safe, Fresh
      <3> QED BY <3>1, <3>2
    <2>13. Rest
      BY <1>1, <2>8, <2>12 DEF Rest, Safe, TypeOK
    <2> QED BY <2>11, <2>13, OutsideKeeps
  <1> QED BY <1>2, <1>3

\* The workers and connections of a replica are gone; its leases stay.
LEMMA CrashKeeps ==
  ASSUME PresenceAssumption, Safe, NEW r \in Replica, Crash(r) PROVE Outside /\ Safe'
  <1>1. ASSUME NEW w \in Worker
        PROVE  job'[w] = Idle \/ job'[w] = job[w]
    BY DEF Crash
  <1>2. Outside
    <2>1. \A w \in Worker : job'[w] \in Job
      BY <1>1, IdleTyped DEF Safe, TypeOK
    <2>2. job' \in [Worker -> Job]
      BY <2>1 DEF Crash
    <2>3. \A w \in Worker : Same(w) \/ Away(w)
      BY <1>1, IdleTyped DEF Same, Away
    <2> QED BY <2>2, <2>3 DEF Outside, Crash
  <1>3. ASSUME NEW s \in Socket
        PROVE  /\ conn'[s] \in Connection
               /\ conn'[s].used = conn[s].used
               /\ conn'[s].open => conn[s].open
    <2>1. CASE ReplicaOf[s] = r /\ conn[s].used
      <3>1. conn'[s] = [used |-> TRUE, open |-> FALSE, active |-> FALSE,
                        beating |-> FALSE, renewing |-> FALSE]
        BY <2>1 DEF Crash, Unused
      <3> QED BY <2>1, <3>1 DEF Connection, Safe, TypeOK
    <2>2. CASE ~(ReplicaOf[s] = r /\ conn[s].used)
      BY <2>2 DEF Crash, Safe, TypeOK
    <2> QED BY <2>1, <2>2
  <1>4. conn' \in [Socket -> Connection]
    BY <1>3 DEF Crash
  <1>5. \A s \in Socket : /\ job[Opening(s)].phase = "idle" => job'[Opening(s)].phase = "idle"
                          /\ job[Closing(s)].phase = "idle" => job'[Closing(s)].phase = "idle"
    BY <1>1, Workers, IdleTyped
  <1>6. Fresh'
    BY <1>3, <1>5 DEF Fresh, Safe
  <1>7. faults' \in Nat /\ lease' = lease /\ shown' = shown
    BY DEF Crash, Safe, TypeOK
  <1>8. Rest
    BY <1>4, <1>6, <1>7 DEF Rest, Safe, TypeOK
  <1> QED BY <1>2, <1>8, OutsideKeeps

-----------------------------------------------------------------------------
(* The transactions *)

\* What a transaction in the database may delete, it has locked the principal of.
LEMMA DeletedOf ==
  ASSUME NEW w \in Worker
  PROVE  /\ Own(w) \subseteq Leases(job[w].scope)
         /\ Expired(w) \subseteq Leases(job[w].scope)
         /\ Leases(job[w].scope) \subseteq Own(w) \cup Expired(w) \cup Others(w)
         /\ \A p : Leases(p) \subseteq Socket /\ \A s \in Leases(p) : PrincipalOf[s] = p
  BY DEF Own, Expired, Others, Leases

\* A decision under the lock, as its effect on the fields of the job.
LEMMA DecideShape ==
  ASSUME PresenceAssumption, Safe, NEW w \in Worker, Decide(w)
  PROVE  \E next \in Principal \cup {NoPrincipal} :
    /\ next = NoPrincipal \/ next \in job[w].todo
    /\ job[w].todo # {} => next \in job[w].todo
    /\ job' \in [Worker -> Job]
    /\ \A v \in Worker \ {w} : job'[v] = job[v]
    /\ job'[w].phase = IF next = NoPrincipal THEN "commit" ELSE "lock"
    /\ job'[w].kind = job[w].kind
    /\ job'[w].scope = IF next = NoPrincipal THEN job[w].scope ELSE next
    /\ job'[w].todo = job[w].todo \ {next}
    /\ job'[w].locks = job[w].locks \cup {job[w].scope}
    /\ job'[w].removed = job[w].removed \cup Own(w) \cup Expired(w)
    /\ job'[w].first = IsFirst(w)
    /\ job'[w].last = IF IsLast(w) THEN job[w].last \cup {job[w].scope} ELSE job[w].last
  <1>1. job \in [Worker -> Job] /\ job[w] \in Job
    BY DEF Safe, TypeOK
  <1>2. PICK next \in IF job[w].todo = {} THEN {NoPrincipal} ELSE job[w].todo :
       job' = [job EXCEPT ![w] =
         [phase   |-> IF next = NoPrincipal THEN "commit" ELSE "lock",
          kind    |-> @.kind,
          scope   |-> IF next = NoPrincipal THEN @.scope ELSE next,
          todo    |-> @.todo \ {next},
          old     |-> @.old,
          removed |-> @.removed \cup Own(w) \cup Expired(w),
          locks   |-> @.locks \cup {@.scope},
          first   |-> IsFirst(w),
          last    |-> IF IsLast(w) THEN @.last \cup {@.scope} ELSE @.last]]
    BY DEF Decide
  <1> DEFINE scope == job[w].scope
             todo == job[w].todo \ {next}
             locks == job[w].locks \cup {scope}
             removed == job[w].removed \cup Own(w) \cup Expired(w)
             last == IF IsLast(w) THEN job[w].last \cup {scope} ELSE job[w].last
             first == IsFirst(w)
             phase == IF next = NoPrincipal THEN "commit" ELSE "lock"
             onwards == IF next = NoPrincipal THEN scope ELSE next
             j == [phase |-> phase, kind |-> job[w].kind, scope |-> onwards,
                   todo |-> todo, old |-> job[w].old, removed |-> removed,
                   locks |-> locks, first |-> first, last |-> last]
  <1>3. job' = [job EXCEPT ![w] = j]
    BY <1>1, <1>2
  <1>4. j \in Job
    <2>1. /\ scope \in Principal /\ next \in Principal \cup {NoPrincipal}
          /\ job[w].todo \subseteq Principal
      BY <1>1, <1>2 DEF Decide, Safe, Scoped, InTransaction, Job
    <2>2. removed \subseteq Socket /\ last \subseteq Principal /\ first \in BOOLEAN
      BY <1>1, <2>1, DeletedOf DEF Job, IsFirst
    <2>3. phase \in Phase /\ onwards \in Principal
      BY <2>1 DEF Phase
    <2>4. todo \subseteq Principal /\ locks \subseteq Principal
      BY <1>1, <2>1 DEF Job
    <2> HIDE DEF todo, locks, removed, last, first, phase, onwards, scope
    <2> QED BY <1>1, <2>2, <2>3, <2>4 DEF Job
  <1>5. /\ job' \in [Worker -> Job] /\ job'[w] = j
        /\ \A v \in Worker \ {w} : job'[v] = job[v]
    <2> HIDE DEF j
    <2> QED BY <1>1, <1>3, <1>4
  <1>6. next \in Principal \cup {NoPrincipal}
    BY <1>1, <1>2 DEF Job
  <1>7. /\ next = NoPrincipal \/ next \in job[w].todo
        /\ job[w].todo # {} => next \in job[w].todo
    BY <1>2
  <1> HIDE DEF todo, locks, removed, last, first, phase, onwards, scope
  <1>8. /\ job'[w].phase = phase /\ job'[w].kind = job[w].kind /\ job'[w].scope = onwards
        /\ job'[w].todo = todo /\ job'[w].locks = locks
        /\ job'[w].removed = removed /\ job'[w].first = first /\ job'[w].last = last
    BY <1>5
  <1> QED BY <1>5, <1>6, <1>7, <1>8 DEF todo, locks, removed, last, first, phase, onwards, scope

\* A decision takes a free lock, and finds no lease that stays exactly when it decides.
LEMMA DecideKeeps ==
  ASSUME PresenceAssumption, Safe, NEW w \in Worker, Decide(w) PROVE Safe'
  <1>1. PICK next \in Principal \cup {NoPrincipal} :
    /\ next = NoPrincipal \/ next \in job[w].todo
    /\ job[w].todo # {} => next \in job[w].todo
    /\ job' \in [Worker -> Job]
    /\ \A v \in Worker \ {w} : job'[v] = job[v]
    /\ job'[w].phase = IF next = NoPrincipal THEN "commit" ELSE "lock"
    /\ job'[w].kind = job[w].kind
    /\ job'[w].scope = IF next = NoPrincipal THEN job[w].scope ELSE next
    /\ job'[w].todo = job[w].todo \ {next}
    /\ job'[w].locks = job[w].locks \cup {job[w].scope}
    /\ job'[w].removed = job[w].removed \cup Own(w) \cup Expired(w)
    /\ job'[w].first = IsFirst(w)
    /\ job'[w].last = IF IsLast(w) THEN job[w].last \cup {job[w].scope} ELSE job[w].last
    BY DecideShape
  <1> DEFINE scope == job[w].scope
  <1>2. /\ job[w].phase = "lock" /\ scope \in Principal
        /\ lease' = lease /\ conn' = conn /\ present' = present /\ shown' = shown
        /\ faults' = faults
    BY DEF Decide, Safe, Scoped, InTransaction
  <1>3. \A p : Leases(p)' = Leases(p)
    BY <1>2 DEF Leases
  <1>4. Exclusion'
    <2>1. \A v \in Worker \ {w} : job'[v].locks \cap job'[w].locks = {}
      <3>1. \A v \in Worker \ {w} : scope \notin job[v].locks
        BY DEF Decide, Lockable
      <3> QED BY <1>1, <3>1 DEF Safe, Exclusion
    <2> QED BY <1>1, <2>1 DEF Safe, Exclusion
  <1>5. Fresh'
    <2> SUFFICES ASSUME NEW t \in Socket
                 PROVE  /\ ~conn'[t].used => /\ job'[Opening(t)].phase = "idle"
                                             /\ job'[Closing(t)].phase = "idle"
                        /\ conn'[t].open => conn'[t].used /\ job'[Closing(t)].phase = "idle"
      BY DEF Fresh
    <2>1. /\ job[Opening(t)].phase = "idle" => job'[Opening(t)].phase = "idle"
          /\ job[Closing(t)].phase = "idle" => job'[Closing(t)].phase = "idle"
      BY <1>1, <1>2, Workers
    <2> QED BY <1>2, <2>1 DEF Safe, Fresh
  <1>6. ASSUME NEW v \in Worker, v # w
        PROVE  Scoped(v)' /\ Decided(v)'
    <2>1. job'[v] = job[v]
      BY <1>1, <1>6
    <2>2. Scoped(v) /\ Decided(v)
      BY DEF Safe
    <2> QED BY <1>2, <1>3, <2>1, <2>2 DEF Scoped, Decided, InTransaction
  <1>7. Scoped(w)'
    <2>1. Scoped(w)
      BY DEF Safe
    <2>2. job'[w].phase \notin {"idle", "joining", "waiting"}
      BY <1>1
    <2>3. job[w].todo \subseteq Principal /\ NoPrincipal \notin Principal
      BY DEF Safe, TypeOK, Job, PresenceAssumption
    <2>4. job'[w].scope \in Principal
      BY <1>1, <1>2, <2>3
    <2>5. job'[w].phase = "commit" => job'[w].scope \in job'[w].locks
      BY <1>1
    <2>6. \A s \in job'[w].removed : PrincipalOf[s] \in job'[w].locks
      BY <1>1, <2>1, DeletedOf DEF Scoped
    <2>7. job[w].kind = "acquire" => ~IsLast(w)
      BY DEF IsLast
    <2>8. job[w].kind \in {"acquire", "release"} => next = NoPrincipal
      BY <1>1, <2>1 DEF Scoped
    <2>9. /\ job'[w].kind \in {"acquire", "release"} =>
               /\ w[2] \in Socket /\ job'[w].scope = PrincipalOf[w[2]] /\ job'[w].todo = {}
          /\ job'[w].kind = "acquire" => w = Opening(w[2]) /\ job'[w].last = {}
      BY <1>1, <2>1, <2>7, <2>8 DEF Scoped
    <2>10. job'[w].kind # "none"
      BY <1>1, <1>2, <2>1 DEF Scoped, InTransaction
    <2> QED BY <2>2, <2>4, <2>5, <2>6, <2>9, <2>10 DEF Scoped
  <1>8. Decided(w)'
    <2>1. Decided(w) /\ InTransaction(w)
      BY <1>2 DEF Safe, InTransaction
    <2>2. ASSUME NEW p \in job'[w].last
          PROVE  p \in job'[w].locks /\ Leases(p)' \subseteq job'[w].removed
      <3>1. CASE p \in job[w].last
        BY <1>1, <1>3, <2>1, <3>1 DEF Decided
      <3>2. CASE p \notin job[w].last
        <4>1. IsLast(w) /\ p = scope
          BY <1>1, <2>2, <3>2
        <4>2. Leases(p) \subseteq Own(w) \cup Expired(w)
          BY <4>1, DeletedOf DEF IsLast
        <4> QED BY <1>1, <1>3, <4>1, <4>2
      <3> QED BY <3>1, <3>2
    <2>3. ASSUME job'[w].kind = "acquire", job'[w].phase = "commit", ~job'[w].first
          PROVE  job'[w].scope \in present'
      <3>1. Others(w) # {}
        BY <1>1, <2>3 DEF IsFirst
      <3>2. Leases(scope) # {}
        BY <3>1 DEF Others
      <3>3. scope \in present
        BY <1>2, <3>2 DEF Safe, LeasedIsPresent
      <3>4. job'[w].scope = scope
        BY <1>1, <2>3
      <3> QED BY <1>2, <3>3, <3>4
    <2> QED BY <2>2, <2>3 DEF Decided
  <1>9. LeasedIsPresent'
    BY <1>2, <1>3 DEF Safe, LeasedIsPresent
  <1>10. TypeOK'
    <2>1. \A v \in Worker : job'[v].phase \in {"idle", "joining", "waiting", "answer"} =>
                              job'[v].locks = {} /\ job'[v].removed = {}
      BY <1>1 DEF Safe, TypeOK
    <2> QED BY <1>1, <1>2, <2>1 DEF Safe, TypeOK
  <1> QED BY <1>4, <1>5, <1>6, <1>7, <1>8, <1>9, <1>10 DEF Safe

\* The fields of a job after its transaction committed.
LEMMA CommitShape ==
  ASSUME Safe, NEW w \in Worker, Commit(w)
  PROVE  /\ job' \in [Worker -> Job]
         /\ \A v \in Worker \ {w} : job'[v] = job[v]
         /\ job'[w].phase = "answer" /\ job'[w].removed = {} /\ job'[w].locks = {}
         /\ job'[w].kind = job[w].kind /\ job'[w].scope = job[w].scope
         /\ job'[w].todo = job[w].todo /\ job'[w].last = job[w].last
  <1> DEFINE j == [job[w] EXCEPT !.phase = "answer", !.removed = {}, !.locks = {}, !.old = {}]
  <1>1. job \in [Worker -> Job] /\ job[w] \in Job /\ job' = [job EXCEPT ![w] = j]
    BY DEF Safe, TypeOK, Commit
  <1>2. j = [phase |-> "answer", kind |-> job[w].kind, scope |-> job[w].scope,
             todo |-> job[w].todo, old |-> {}, removed |-> {}, locks |-> {},
             first |-> job[w].first, last |-> job[w].last]
    <2> DEFINE j1 == [job[w] EXCEPT !.phase = "answer"]
               j2 == [j1 EXCEPT !.removed = {}]
               j3 == [j2 EXCEPT !.locks = {}]
    <2>1. j1 = [phase |-> "answer", kind |-> job[w].kind, scope |-> job[w].scope,
                todo |-> job[w].todo, old |-> job[w].old, removed |-> job[w].removed,
                locks |-> job[w].locks, first |-> job[w].first, last |-> job[w].last]
      BY <1>1 DEF Job
    <2> HIDE DEF j1
    <2>2. j2 = [phase |-> "answer", kind |-> job[w].kind, scope |-> job[w].scope,
                todo |-> job[w].todo, old |-> job[w].old, removed |-> {},
                locks |-> job[w].locks, first |-> job[w].first, last |-> job[w].last]
      BY <2>1
    <2> HIDE DEF j2
    <2>3. j3 = [phase |-> "answer", kind |-> job[w].kind, scope |-> job[w].scope,
                todo |-> job[w].todo, old |-> job[w].old, removed |-> {},
                locks |-> {}, first |-> job[w].first, last |-> job[w].last]
      BY <2>2
    <2>4. j = [j3 EXCEPT !.old = {}]
      BY DEF j1, j2
    <2> HIDE DEF j3, j
    <2> QED BY <2>3, <2>4
  <1>3. /\ j \in Job /\ j.phase = "answer" /\ j.removed = {} /\ j.locks = {}
        /\ j.kind = job[w].kind /\ j.scope = job[w].scope
        /\ j.todo = job[w].todo /\ j.last = job[w].last
    <2> HIDE DEF j
    <2> QED BY <1>1, <1>2 DEF Job, Phase
  <1> HIDE DEF j
  <1> QED BY <1>1, <1>3

\* A commit brings at most the lease of an acquisition, takes what was deleted, and
\* changes the presence of principals whose lock it held.
LEMMA CommitKeeps ==
  ASSUME PresenceAssumption, Safe, NEW w \in Worker, Commit(w) PROVE Safe'
  <1> DEFINE scope == job[w].scope
  <1>1. /\ job[w].phase = "commit" /\ scope \in Principal /\ scope \in job[w].locks
        /\ conn' = conn /\ shown' = shown /\ faults' = faults
        /\ Scoped(w) /\ Decided(w) /\ InTransaction(w)
    BY DEF Commit, Safe, Scoped, InTransaction
  <1>2. lease' = [s \in Socket |->
          IF job[w].kind = "acquire" /\ s = w[2] THEN "fresh"
          ELSE IF s \in job[w].removed THEN "none" ELSE lease[s]]
    BY DEF Commit
  <1>3. present' = (present \ job[w].last) \cup (IF job[w].first THEN {scope} ELSE {})
    BY DEF Commit
  <1>4. \A p : p # scope \/ job[w].kind # "acquire" =>
               Leases(p)' = Leases(p) \ job[w].removed
    BY <1>1, <1>2 DEF Leases, Scoped
  <1>5. Exclusion'
    BY CommitShape DEF Safe, Exclusion
  <1>6. Fresh'
    <2> SUFFICES ASSUME NEW t \in Socket
                 PROVE  /\ ~conn'[t].used => /\ job'[Opening(t)].phase = "idle"
                                             /\ job'[Closing(t)].phase = "idle"
                        /\ conn'[t].open => conn'[t].used /\ job'[Closing(t)].phase = "idle"
      BY DEF Fresh
    <2>1. /\ job[Opening(t)].phase = "idle" => job'[Opening(t)].phase = "idle"
          /\ job[Closing(t)].phase = "idle" => job'[Closing(t)].phase = "idle"
      BY <1>1, CommitShape, Workers
    <2> QED BY <1>1, <2>1 DEF Safe, Fresh
  <1>7. Scoped(w)' /\ Decided(w)'
    BY <1>1, CommitShape DEF Scoped, Decided, InTransaction
  <1>8. ASSUME NEW v \in Worker, v # w
        PROVE  Scoped(v)' /\ Decided(v)'
    <2>1. job'[v] = job[v]
      BY <1>8, CommitShape
    <2>2. Scoped(v) /\ Decided(v)
      BY DEF Safe
    <2>3. job[v].locks \cap job[w].locks = {}
      BY <1>8 DEF Safe, Exclusion
    <2>4. Scoped(v)'
      BY <2>1, <2>2 DEF Scoped, InTransaction
    <2>5. ASSUME InTransaction(v), NEW p \in job[v].last
          PROVE  p \in job[v].locks /\ Leases(p)' \subseteq job[v].removed
      <3>1. p \in job[v].locks /\ Leases(p) \subseteq job[v].removed
        BY <2>2, <2>5 DEF Decided
      <3>2. p # scope
        BY <1>1, <2>3, <3>1
      <3> QED BY <1>4, <3>1, <3>2
    <2>6. ASSUME job[v].kind = "acquire", job[v].phase = "commit", ~job[v].first
          PROVE  job[v].scope \in present'
      <3>1. job[v].scope \in present /\ job[v].scope \in job[v].locks
        BY <2>2, <2>6 DEF Decided, Scoped, InTransaction
      <3>2. job[v].scope \notin job[w].last
        BY <1>1, <2>3, <3>1 DEF Decided
      <3> QED BY <1>3, <3>1, <3>2
    <2>7. Decided(v)'
      BY <2>1, <2>5, <2>6 DEF Decided, InTransaction
    <2> QED BY <2>4, <2>7
  <1>9. LeasedIsPresent'
    <2> SUFFICES ASSUME NEW p \in Principal, Leases(p)' # {} PROVE p \in present'
      BY DEF LeasedIsPresent
    <2>1. CASE job[w].kind = "acquire" /\ p = scope
      BY <1>1, <1>3, <2>1 DEF Scoped, Decided
    <2>2. CASE ~(job[w].kind = "acquire" /\ p = scope)
      <3>1. PICK s \in Leases(p) : s \notin job[w].removed
        BY <1>4, <2>2
      <3>2. p \in present
        BY <3>1 DEF Safe, LeasedIsPresent
      <3>3. p \notin job[w].last
        BY <1>1, <3>1 DEF Decided
      <3> QED BY <1>3, <3>2, <3>3
    <2> QED BY <2>1, <2>2
  <1>10. TypeOK'
    <2>1. lease' \in [Socket -> {"none", "fresh", "stale"}]
      BY <1>2 DEF Safe, TypeOK
    <2>2. present' \subseteq Principal
      BY <1>1, <1>3 DEF Safe, TypeOK
    <2>3. \A v \in Worker : job'[v].phase \in {"idle", "joining", "waiting", "answer"} =>
                              job'[v].locks = {} /\ job'[v].removed = {}
      BY CommitShape DEF Safe, TypeOK
    <2> QED BY <1>1, <2>1, <2>2, <2>3, CommitShape DEF Safe, TypeOK
  <1> QED BY <1>5, <1>6, <1>7, <1>8, <1>9, <1>10 DEF Safe

-----------------------------------------------------------------------------
(* The theorems *)

\* The invariant holds when the servers start.
LEMMA InitSafe == ASSUME PresenceAssumption, Init PROVE Safe
  <1>1. /\ \A w \in Worker : job[w] = Idle
        /\ \A s \in Socket : /\ lease[s] = (IF s \in Orphan THEN "fresh" ELSE "none")
                              /\ conn[s] \in Connection
                              /\ (s \in Orphan => conn[s].used) /\ ~conn[s].open
    <2>1. ASSUME NEW s \in Socket
          PROVE  conn[s] \in Connection /\ (s \in Orphan => conn[s].used) /\ ~conn[s].open
      BY DEF Init, Unused, Connection
    <2> QED BY <2>1 DEF Init
  <1>2. TypeOK
    <2>1. lease \in [Socket -> {"none", "fresh", "stale"}] /\ conn \in [Socket -> Connection]
      BY <1>1 DEF Init
    <2>2. job \in [Worker -> Job]
      BY <1>1, IdleTyped DEF Init
    <2>3. present \subseteq Principal /\ shown \subseteq Principal /\ faults \in Nat
      BY DEF Init, PresenceAssumption
    <2> QED BY <1>1, <2>1, <2>2, <2>3, IdleTyped DEF TypeOK
  <1>3. Fresh
    <2>1. \A s \in Socket : job[Opening(s)].phase = "idle" /\ job[Closing(s)].phase = "idle"
      BY <1>1, Workers, IdleTyped
    <2> QED BY <1>1, <2>1 DEF Fresh
  <1>4. Exclusion
    BY <1>1, IdleTyped DEF Exclusion
  <1>5. \A w \in Worker : Scoped(w) /\ Decided(w)
    BY <1>1, IdleTyped DEF Scoped, Decided, InTransaction
  <1>6. LeasedIsPresent
    BY <1>1 DEF Init, LeasedIsPresent, Leases
  <1> QED BY <1>2, <1>3, <1>4, <1>5, <1>6 DEF Safe

\* A step is one of the database or outside it.
LEMMA Steps ==
  ASSUME PresenceAssumption, Safe, [Next]_vars
  PROVE  \/ Outside /\ Safe'
         \/ \E w \in Worker : Decide(w) \/ Commit(w)
  <1>1. ASSUME NEW s \in Socket,
               \/ Connect(s) \/ Disconnect(s) \/ Expire(s)
               \/ Initialize(s) \/ CheckLease(s) \/ Heartbeat(s) \/ RenewFailed(s)
        PROVE  Outside /\ Safe'
    BY <1>1, ConnectKeeps, DisconnectKeeps, ExpireKeeps, JoinedKeeps, OpenedKeeps, AbortedKeeps,
       CheckLeaseKeeps, BeatKeeps, RenewKeeps, RenewMissingKeeps, RenewFailedKeeps
    DEF Initialize, Heartbeat
  <1>2. ASSUME NEW w \in Worker, Announce(w) \/ Fail(w)
        PROVE  Outside /\ Safe'
    BY <1>2, AnnounceKeeps, FailKeeps
  <1>3. ASSUME NEW r \in Replica, Scan(r) \/ DeadlockVictim(r) \/ Crash(r)
        PROVE  Outside /\ Safe'
    BY <1>3, ScanKeeps, VictimKeeps, CrashKeeps
  <1>4. CASE UNCHANGED vars
    BY <1>4, ConnKeeps DEF vars, Safe, TypeOK
  <1> QED BY <1>1, <1>2, <1>3, <1>4 DEF Next, Database

\* Every step keeps the invariant.
LEMMA StepSafe == ASSUME PresenceAssumption, Safe, [Next]_vars PROVE Safe'
  BY Steps, DecideKeeps, CommitKeeps

\* The invariant of the presence tables and the workers' transactions.
LEMMA SafeAlways == Spec => []Safe
  BY PresenceAssumption, InitSafe, StepSafe, PTL DEF Spec

\* Leases, connections and workers are well formed, and a worker outside a transaction
\* holds no lock and no uncommitted deletion, whatever fails or crashes.
THEOREM TypeCorrect == Spec => []TypeOK
  <1>1. Safe => TypeOK
    BY DEF Safe
  <1> QED BY <1>1, SafeAlways, PTL

\* Two transactions never hold the advisory lock of the same principal.
THEOREM LocksExclude == Spec => []Exclusion
  <1>1. Safe => Exclusion
    BY DEF Safe
  <1> QED BY <1>1, SafeAlways, PTL

\* As long as a principal has a lease, the last committed decision about it was that it
\* joined: no release, no reaper and no pruning acquisition decides a departure while a
\* lease remains, for any number of sockets, replicas and faults.
THEOREM NoEarlyDeparture == Spec => []LeasedIsPresent
  <1>1. Safe => LeasedIsPresent
    BY DEF Safe
  <1> QED BY <1>1, SafeAlways, PTL

-----------------------------------------------------------------------------
(* Departures *)

\* A reaper locks each principal once, every other transaction only its own.
OneLockEach(w) ==
  job[w].phase = "lock" =>
    /\ job[w].scope \notin job[w].locks \cup job[w].todo
    /\ job[w].todo \cap job[w].locks = {}
    /\ job[w].kind # "reap" => job[w].locks = {}

\* A transaction that has locked a principal decides on its departure, unless it acquires
\* a lease of it, found its own lease gone, found none, or leaves one.
Counted(w) ==
  InTransaction(w) =>
    /\ \A p \in job[w].locks : \/ p \in job[w].last
                               \/ job[w].kind = "acquire" /\ p = job[w].scope
                               \/ ReleasesNothing(w)
                               \/ Leases(p) = {}
                               \/ \E s \in Leases(p) : s \notin job[w].removed
    /\ job[w].phase = "commit" /\ job[w].first => job[w].kind = "acquire"

Settled == \A w \in Worker : OneLockEach(w) /\ Counted(w)

\* A step outside the database locks, deletes and decides nothing.
LEMMA OutsideSettled ==
  ASSUME Settled, Outside PROVE Settled'
  <1>1. \A p : Leases(p)' = Leases(p)
    BY DEF Outside, Leases
  <1>2. ASSUME NEW w \in Worker PROVE OneLockEach(w)' /\ Counted(w)'
    <2>1. CASE Same(w)
      <3>1. OneLockEach(w)'
        BY <2>1 DEF Same, Settled, OneLockEach
      <3>2. Counted(w)'
        BY <1>1, <2>1 DEF Same, Settled, Counted, InTransaction, ReleasesNothing
      <3> QED BY <3>1, <3>2
    <2>2. CASE Away(w)
      BY <2>2 DEF Away, OneLockEach, Counted, InTransaction
    <2>3. CASE Begins(w)
      BY <2>3 DEF Begins, OneLockEach, Counted, InTransaction
    <2> QED BY <2>1, <2>2, <2>3 DEF Outside
  <1> QED BY <1>2 DEF Settled

\* The decision about the newly locked principal counts the leases that remain; the leases
\* of the others cannot change while their locks are held.
LEMMA DecideSettled ==
  ASSUME PresenceAssumption, Safe, Settled, NEW w \in Worker, Decide(w) PROVE Settled'
  <1>1. PICK next \in Principal \cup {NoPrincipal} :
    /\ next = NoPrincipal \/ next \in job[w].todo
    /\ job[w].todo # {} => next \in job[w].todo
    /\ job' \in [Worker -> Job]
    /\ \A v \in Worker \ {w} : job'[v] = job[v]
    /\ job'[w].phase = IF next = NoPrincipal THEN "commit" ELSE "lock"
    /\ job'[w].kind = job[w].kind
    /\ job'[w].scope = IF next = NoPrincipal THEN job[w].scope ELSE next
    /\ job'[w].todo = job[w].todo \ {next}
    /\ job'[w].locks = job[w].locks \cup {job[w].scope}
    /\ job'[w].removed = job[w].removed \cup Own(w) \cup Expired(w)
    /\ job'[w].first = IsFirst(w)
    /\ job'[w].last = IF IsLast(w) THEN job[w].last \cup {job[w].scope} ELSE job[w].last
    BY DecideShape
  <1> DEFINE scope == job[w].scope
  <1>2. /\ job[w].phase = "lock" /\ lease' = lease
        /\ InTransaction(w) /\ Scoped(w) /\ OneLockEach(w) /\ Counted(w)
    BY DEF Decide, Safe, Settled, InTransaction
  <1>3. \A p : Leases(p)' = Leases(p)
    BY <1>2 DEF Leases
  <1>4. ASSUME NEW v \in Worker, v # w PROVE OneLockEach(v)' /\ Counted(v)'
    <2>1. job'[v] = job[v]
      BY <1>1, <1>4
    <2>2. OneLockEach(v) /\ Counted(v)
      BY DEF Settled
    <2> QED BY <1>3, <2>1, <2>2 DEF OneLockEach, Counted, InTransaction, ReleasesNothing
  <1>5. /\ scope \notin job[w].locks \cup job[w].todo /\ job[w].todo \cap job[w].locks = {}
        /\ job[w].kind # "reap" => job[w].locks = {} /\ job[w].todo = {}
        /\ job[w].kind \in {"acquire", "release", "reap"}
    BY <1>2 DEF OneLockEach, Scoped, Safe, TypeOK, Job
  <1>6. OneLockEach(w)'
    <2>1. ASSUME job'[w].phase = "lock" PROVE next \in job[w].todo /\ job'[w].scope = next
      BY <1>1, <2>1
    <2> QED BY <1>1, <1>5, <2>1 DEF OneLockEach
  <1>7. job'[w].kind # "reap" => job'[w].scope = scope
    BY <1>1, <1>5
  <1>8. \A s \in job[w].removed : PrincipalOf[s] # scope
    BY <1>2, <1>5 DEF Scoped
  <1>9. ASSUME NEW p \in job'[w].locks
        PROVE  \/ p \in job'[w].last
               \/ job'[w].kind = "acquire" /\ p = job'[w].scope
               \/ ReleasesNothing(w)'
               \/ Leases(p)' = {}
               \/ \E s \in Leases(p)' : s \notin job'[w].removed
    <2>1. CASE p = scope /\ Others(w) # {}
      <3>1. PICK s \in Others(w) : TRUE
        BY <2>1
      <3>2. s \in Leases(scope) /\ s \notin Own(w) \cup Expired(w) /\ PrincipalOf[s] = scope
        BY <3>1, DeletedOf DEF Others
      <3>3. s \notin job'[w].removed
        BY <1>1, <1>8, <3>2
      <3> QED BY <1>3, <2>1, <3>2, <3>3
    <2>2. CASE p = scope /\ Others(w) = {} /\ job[w].kind = "acquire"
      BY <1>1, <1>7, <2>2
    <2>3. CASE p = scope /\ Others(w) = {} /\ job[w].kind = "release"
      <3>1. CASE Own(w) = {}
        <4>1. w[2] \in Socket /\ PrincipalOf[w[2]] = scope
          BY <1>2, <2>3 DEF Scoped
        <4>2. w[2] \notin Leases(scope)
          BY <2>3, <3>1 DEF Own
        <4>3. w[2] \notin job'[w].removed
          BY <1>1, <1>8, <3>1, <4>1, <4>2, DeletedOf
        <4> QED BY <1>1, <2>3, <4>3 DEF ReleasesNothing
      <3>2. CASE Own(w) # {}
        BY <1>1, <2>3, <3>2 DEF IsLast
      <3> QED BY <3>1, <3>2
    <2>4. CASE p = scope /\ Others(w) = {} /\ job[w].kind = "reap"
      <3>1. CASE Expired(w) = {}
        <4>1. Leases(scope) = {}
          BY <2>4, <3>1, DeletedOf DEF Own
        <4> QED BY <1>3, <2>4, <4>1
      <3>2. CASE Expired(w) # {}
        BY <1>1, <2>4, <3>2 DEF IsLast
      <3> QED BY <3>1, <3>2
    <2>5. CASE p # scope
      <3>1. p \in job[w].locks /\ job[w].kind = "reap"
        BY <1>1, <1>5, <2>5
      <3>2. p \in job[w].last \/ Leases(p) = {} \/ \E s \in Leases(p) : s \notin job[w].removed
        BY <1>2, <3>1 DEF Counted, ReleasesNothing
      <3>3. CASE p \in job[w].last
        BY <1>1, <3>3
      <3>4. CASE Leases(p) = {}
        BY <1>3, <3>4
      <3>5. CASE \E s \in Leases(p) : s \notin job[w].removed
        <4>1. PICK s \in Leases(p) : s \notin job[w].removed
          BY <3>5
        <4>2. s \notin Own(w) \cup Expired(w)
          BY <2>5, <4>1, DeletedOf
        <4> QED BY <1>1, <1>3, <4>1, <4>2
      <3> QED BY <3>2, <3>3, <3>4, <3>5
    <2> QED BY <1>5, <2>1, <2>2, <2>3, <2>4, <2>5
  <1>10. job'[w].first => job'[w].kind = "acquire"
    BY <1>1 DEF IsFirst
  <1> QED BY <1>4, <1>6, <1>9, <1>10 DEF Settled, Counted

\* A commit changes the leases of principals it had locked, so that no other transaction
\* has counted them.
LEMMA CommitSettled ==
  ASSUME PresenceAssumption, Safe, Settled, NEW w \in Worker, Commit(w) PROVE Settled'
  <1>1. /\ job[w].phase = "commit" /\ job[w].scope \in job[w].locks /\ Scoped(w)
    BY DEF Commit, Safe, Scoped
  <1>2. lease' = [s \in Socket |->
          IF job[w].kind = "acquire" /\ s = w[2] THEN "fresh"
          ELSE IF s \in job[w].removed THEN "none" ELSE lease[s]]
    BY DEF Commit
  <1>3. \A p : p \notin job[w].locks => Leases(p)' = Leases(p)
    BY <1>1, <1>2 DEF Leases, Scoped
  <1>4. ASSUME NEW v \in Worker PROVE OneLockEach(v)' /\ Counted(v)'
    <2>1. CASE v = w
      BY <2>1, CommitShape DEF OneLockEach, Counted, InTransaction
    <2>2. CASE v # w
      <3>1. job'[v] = job[v] /\ job[v].locks \cap job[w].locks = {}
        BY <2>2, CommitShape DEF Safe, Exclusion
      <3>2. OneLockEach(v) /\ Counted(v)
        BY DEF Settled
      <3>3. \A p \in job[v].locks : Leases(p)' = Leases(p)
        BY <1>3, <3>1
      <3> QED BY <3>1, <3>2, <3>3 DEF OneLockEach, Counted, InTransaction, ReleasesNothing
    <2> QED BY <2>1, <2>2
  <1> QED BY <1>4 DEF Settled

\* A commit that takes the last lease of p takes its presence, or is the release of a lease
\* that was gone.
LEMMA CommitDecides ==
  ASSUME PresenceAssumption, Safe, Settled, NEW w \in Worker, Commit(w),
         NEW p \in Principal, Leases(p) # {}, Leases(p)' = {}
  PROVE  p \notin present' \/ ReleasesNothing(w)
  <1>1. /\ job[w].phase = "commit" /\ InTransaction(w) /\ Scoped(w) /\ Counted(w)
    BY DEF Commit, Safe, Settled, InTransaction
  <1>2. lease' = [s \in Socket |->
          IF job[w].kind = "acquire" /\ s = w[2] THEN "fresh"
          ELSE IF s \in job[w].removed THEN "none" ELSE lease[s]]
    BY DEF Commit
  <1>3. present' = (present \ job[w].last) \cup (IF job[w].first THEN {job[w].scope} ELSE {})
    BY DEF Commit
  <1>4. \A s \in Leases(p) : s \in job[w].removed
    BY <1>2 DEF Leases
  <1>5. p \in job[w].locks
    BY <1>1, <1>4, DeletedOf DEF Scoped
  <1>6. ~(job[w].kind = "acquire" /\ p = job[w].scope)
    BY <1>1, <1>2 DEF Scoped, Leases
  <1>7. p \in job[w].last \/ ReleasesNothing(w)
    BY <1>1, <1>4, <1>5, <1>6 DEF Counted
  <1>8. job[w].last # {} => ~job[w].first
    BY <1>1 DEF Scoped, Counted
  <1> QED BY <1>3, <1>7, <1>8

\* However many sockets, replicas and failures: two releases, a release and a reaper, or
\* two reapers never end a principal's last lease without one of them deciding that it has
\* departed, unless it is a release that found its own lease gone.
THEOREM LastLeaseDecides == Spec => LastLeaseIsDecided
  <1> DEFINE Decides == \A p \in Principal :
                           Leases(p) # {} /\ Leases(p)' = {} =>
                             \/ p \notin present'
                             \/ \E w \in Worker : Commit(w) /\ ReleasesNothing(w)
  <1>1. Init => Settled
    BY IdleTyped DEF Init, Settled, OneLockEach, Counted, InTransaction
  <1>2. Safe /\ Settled /\ [Next]_vars => Settled'
    BY PresenceAssumption, Steps, OutsideSettled, DecideSettled, CommitSettled
  <1>3. Safe /\ Settled /\ [Next]_vars => [Decides]_vars
    <2> SUFFICES ASSUME Safe, Settled, [Next]_vars,
                        NEW p \in Principal, Leases(p) # {}, Leases(p)' = {}
                 PROVE  \/ p \notin present'
                        \/ \E w \in Worker : Commit(w) /\ ReleasesNothing(w)
      OBVIOUS
    <2>1. CASE Outside
      BY <2>1 DEF Outside, Leases
    <2>2. ASSUME NEW w \in Worker, Decide(w) PROVE FALSE
      BY <2>2 DEF Decide, Leases
    <2>3. ASSUME NEW w \in Worker, Commit(w)
          PROVE  \/ p \notin present'
                 \/ \E v \in Worker : Commit(v) /\ ReleasesNothing(v)
      BY <2>3, PresenceAssumption, CommitDecides
    <2> QED BY <2>1, <2>2, <2>3, PresenceAssumption, Steps
  <1>4. Spec => [][Decides]_vars
    BY <1>1, <1>2, <1>3, SafeAlways, PTL DEF Spec
  <1> QED BY <1>4 DEF LastLeaseIsDecided
=============================================================================
