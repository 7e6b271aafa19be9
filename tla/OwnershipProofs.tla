-------------------------- MODULE OwnershipProofs --------------------------
(* Theorems about Ownership for any number of principals, patches, transfers *)
(* and connections.                                                          *)
EXTENDS Ownership, TLAPS

-----------------------------------------------------------------------------
(* Locks and plans *)

\* OneOf selects from its argument.
LEMMA OneOfSubset == ASSUME NEW S PROVE OneOf(S) \subseteq S
  BY Zenon DEF OneOf

-----------------------------------------------------------------------------
(* The parameters of a running command. *)

ByPrincipal == {"claim", "assign", "create", "accept", "cancel", "abandon",
                "request", "recover", "complete"}
OnPatch     == {"claim", "create", "accept", "cancel", "abandon"}
OnTransfer  == {"create", "accept", "cancel"}

\* A command carries the parameters its statements read.
Parameters ==
  \A t \in Tx :
    /\ tx[t].cmd = "idle" => tx[t].step = 1
    /\ tx[t].cmd \in ByPrincipal => tx[t].actor \in Principal
    /\ tx[t].cmd \in OnPatch => tx[t].patch \in Patch
    /\ tx[t].cmd \in OnTransfer => tx[t].transfer \in Transfer /\ tx[t].other \in Principal
    /\ tx[t].cmd = "assign" /\ tx[t].step > 3 => tx[t].patch \in Patch
    /\ tx[t].cmd \in {"accept", "cancel"} => transfers[tx[t].transfer].status # "free"
    /\ \A x \in Transfer : TransferLock(x) \in tx[t].holds => transfers[x].status # "free"

\* A transfer that was ever inserted names its parties and its patch.
NamedTransfers ==
  \A x \in Transfer : transfers[x].status # "free" =>
    /\ transfers[x].patch \in Patch
    /\ transfers[x].sender \in Principal
    /\ transfers[x].recipient \in Principal

Typed == TypeOK /\ Parameters /\ NamedTransfers

\* The next statement of a command determines where in its plan the command is.
LEMMA Plans ==
  ASSUME NEW t \in Tx, tx[t].cmd \in Commands \cup {"idle"}, tx[t].step \in Nat \ {0}
  PROVE  /\ At(t, "advisory") => tx[t].cmd \in {"claim", "assign"} /\ tx[t].step = 1
         /\ At(t, "patch") => tx[t].cmd \in OnPatch
         /\ At(t, "transfer") => tx[t].cmd \in {"accept", "cancel"}
         /\ At(t, "actor") => tx[t].cmd \in ByPrincipal
         /\ At(t, "lower") \/ At(t, "upper") => tx[t].cmd = "create"
         /\ At(t, "owned") => tx[t].cmd = "assign" /\ tx[t].step = 2
         /\ At(t, "pick") => tx[t].cmd = "assign" /\ tx[t].step = 3
         /\ At(t, "pending") => tx[t].cmd \in {"create", "abandon"}
         /\ At(t, "shareActor") => \/ tx[t].cmd = "assign" /\ tx[t].step = 4
                                   \/ tx[t].cmd \in {"cancel", "abandon"}
         /\ At(t, "shareOther") => tx[t].cmd \in {"accept", "cancel"}
         /\ At(t, "shareDue") => tx[t].cmd = "expire"
  <1> USE DEF At, Statement, OnPatch, ByPrincipal
  <1>1. CASE tx[t].cmd = "claim"
    BY <1>1 DEF PlanOf, ClaimPlan
  <1>2. CASE tx[t].cmd = "assign"
    BY <1>2 DEF PlanOf, AssignPlan
  <1>3. CASE tx[t].cmd = "create"
    BY <1>3 DEF PlanOf
  <1>4. CASE tx[t].cmd = "accept"
    BY <1>4 DEF PlanOf, AcceptPlan
  <1>5. CASE tx[t].cmd = "cancel"
    BY <1>5 DEF PlanOf
  <1>6. CASE tx[t].cmd = "abandon"
    BY <1>6 DEF PlanOf
  <1>7. CASE tx[t].cmd = "expire"
    BY <1>7 DEF PlanOf
  <1>8. CASE tx[t].cmd = "complete"
    BY <1>8 DEF PlanOf
  <1>9. CASE tx[t].cmd \in {"request", "recover"}
    <2>1. PlanOf(tx[t].cmd) = <<"actor">>
      BY <1>9 DEF PlanOf
    <2>2. Statement(t) \in {"actor", "commit"}
      BY <2>1
    <2> QED BY <1>9, <2>2
  <1> QED BY <1>1, <1>2, <1>3, <1>4, <1>5, <1>6, <1>7, <1>8, <1>9 DEF Commands

\* The locks a statement takes are locks of rows and principals that exist.
LEMMA LocksTyped ==
  ASSUME Typed, NEW t \in Tx, tx[t].cmd # "idle"
  PROVE  Exclusive(t) \subseteq Lock /\ Shared(t) \subseteq Lock
  <1>1. /\ tx[t].cmd \in Commands \cup {"idle"} /\ tx[t].step \in Nat \ {0}
        /\ due \subseteq Transfer
    BY DEF Typed, TypeOK, Session
  <1>2. \A s : Statement(t) = s => At(t, s)
    BY DEF At
  <1>3. PendingFor(tx[t].patch) \subseteq Transfer /\ DueTransfers \subseteq Transfer
        /\ OwnedBy(tx[t].actor) \subseteq Patch
    BY <1>1 DEF PendingFor, DueTransfers, OwnedBy
  <1>4. OneOf(PendingFor(tx[t].patch)) \subseteq Transfer /\ OneOf(OwnedBy(tx[t].actor)) \subseteq Patch
    BY <1>3, OneOfSubset
  <1>5. Lower(tx[t].actor, tx[t].other) \in {tx[t].actor, tx[t].other}
        /\ Upper(tx[t].actor, tx[t].other) \in {tx[t].actor, tx[t].other}
    BY DEF Lower, Upper
  <1>6. Exclusive(t) \subseteq Lock
    BY <1>1, <1>2, <1>3, <1>4, <1>5, Plans
       DEF Exclusive, Lock, ForUpdate, Typed, Parameters, OnPatch, ByPrincipal, OnTransfer
  <1>7. Shared(t) \subseteq Lock
    <2>1. \A x \in LockedTransfers(t) : transfers[x].recipient \in Principal
      BY DEF LockedTransfers, Typed, Parameters, NamedTransfers
    <2> QED BY <1>1, <1>2, <2>1, Plans
            DEF Shared, Lock, Typed, Parameters, OnTransfer, ByPrincipal
  <1> QED BY <1>6, <1>7

\* Only rows that exist are locked.
LEMMA LockedTransfersExist ==
  ASSUME Typed, NEW t \in Tx, tx[t].cmd # "idle", NEW x \in Transfer,
         TransferLock(x) \in Exclusive(t)
  PROVE  transfers[x].status # "free"
  <1>1. /\ tx[t].cmd \in Commands \cup {"idle"} /\ tx[t].step \in Nat \ {0}
        /\ due \subseteq Transfer
    BY DEF Typed, TypeOK, Session
  <1>2. \A s : Statement(t) = s => At(t, s)
    BY DEF At
  <1>3. OneOf(PendingFor(tx[t].patch)) \subseteq PendingFor(tx[t].patch)
    BY OneOfSubset
  <1>4. \/ Statement(t) = "transfer" /\ x = tx[t].transfer
        \/ Statement(t) = "pending" /\ x \in PendingFor(tx[t].patch)
        \/ Statement(t) = "due" /\ x \in DueTransfers
    BY <1>3 DEF Exclusive, ForUpdate, AdvisoryLock, PatchLock, PrincipalLock, TransferLock
  <1> QED BY <1>1, <1>2, <1>4, Plans DEF PendingFor, DueTransfers, Typed, Parameters

-----------------------------------------------------------------------------
(* Type correctness *)

\* A connection without a transaction is well formed.
LEMMA IdleTyped == Idle \in Session /\ Idle.cmd = "idle" /\ Idle.step = 1 /\ Idle.holds = {}
  BY DEF Session, Idle, Row, Offer, NoRow, NoOffer

\* A new command: its session is fresh, its parameters are given.
LEMMA StartTyped ==
  ASSUME Typed, NEW t \in Tx, NEW c \in Commands, NEW u \in Principal \cup {NoOne},
         NEW v \in Principal \cup {NoOne}, NEW p \in Patch \cup {NoPatch},
         NEW x \in Transfer \cup {NoTransfer},
         c \in ByPrincipal => u \in Principal, c \in OnPatch => p \in Patch,
         c \in OnTransfer => x \in Transfer /\ v \in Principal,
         c \in {"accept", "cancel"} => transfers[x].status # "free",
         Start(t, c, u, v, p, x)
  PROVE  Typed'
  <1> DEFINE new == [Idle EXCEPT !.cmd = c, !.actor = u, !.other = v, !.patch = p, !.transfer = x]
  <1>1. new \in Session /\ new.cmd = c /\ new.actor = u /\ new.other = v /\ new.patch = p
        /\ new.transfer = x /\ new.step = 1 /\ new.holds = {}
    <2>1. \A r \in Session : r.step = 1 /\ r.holds = {} =>
            LET n == [r EXCEPT !.cmd = c, !.actor = u, !.other = v, !.patch = p, !.transfer = x]
            IN  /\ n \in Session /\ n.cmd = c /\ n.actor = u /\ n.other = v
                /\ n.patch = p /\ n.transfer = x /\ n.step = 1 /\ n.holds = {}
      BY ZenonT(60) DEF Session
    <2> QED BY <2>1, IdleTyped
  <1>2. tx' = [tx EXCEPT ![t] = new] /\ UNCHANGED <<rows, time>>
    BY DEF Start
  <1> HIDE DEF new
  <1>3. TypeOK'
    BY <1>1, <1>2 DEF Typed, TypeOK, rows, time
  <1>4. \A o \in Tx : tx'[o] = IF o = t THEN new ELSE tx[o]
    BY <1>2 DEF Typed, TypeOK
  <1>5. Parameters'
    BY <1>1, <1>2, <1>4 DEF Typed, Parameters, rows
  <1>6. NamedTransfers'
    BY <1>2 DEF Typed, NamedTransfers, rows
  <1> QED BY <1>3, <1>5, <1>6 DEF Typed

\* The windows of claimPatch leave room for one more claim.
WithinQuota(u) == ~(quota[u].attempts >= AttemptLimit) /\ ~(quota[u].claims >= 1)

\* What statement s does to a transaction, before its locks and its step are added:
\* the parameters stay, but for the patch an assignment picks; each statement refreshes
\* one copy.
Reads(t, s, session, picked) ==
  /\ session \in Session /\ s # "commit"
  /\ Execute(t, s, session)
  /\ session.cmd = tx[t].cmd /\ session.actor = tx[t].actor /\ session.other = tx[t].other
  /\ session.transfer = tx[t].transfer /\ session.step = tx[t].step
  /\ session.shares = tx[t].shares /\ session.holds = tx[t].holds \cup picked
  /\ session.patch = IF s = "pick" THEN session.patch ELSE tx[t].patch
  /\ picked = IF s = "pick" THEN {PatchLock(session.patch)} ELSE {}
  /\ s = "pick" => session.patch \in Patch /\ patches[session.patch].owner = NoOne
  /\ \A o \in Tx \ {t} : picked \cap (tx[o].holds \cup tx[o].shares) = {}
  /\ session.row = IF s \in {"patch", "pick"} THEN patches[session.patch] ELSE tx[t].row
  /\ session.offer = IF s = "transfer" THEN transfers[tx[t].transfer] ELSE tx[t].offer
  /\ session.standing = IF s = "actor" THEN principals[tx[t].actor]
                         ELSE IF s \in {"lower", "upper"} THEN principals[tx[t].other]
                         ELSE tx[t].standing
  /\ s \in {"owned", "quota", "ownedLock"} /\ ~session.blocked => OwnedBy(tx[t].actor) = {}
  /\ s = "pending" /\ ~session.blocked => PendingFor(tx[t].patch) = {}
  /\ s = "quota" /\ ~session.blocked => WithinQuota(tx[t].actor)
  /\ s \notin {"owned", "quota", "ownedLock", "pending"} => session.blocked = tx[t].blocked

\* A statement keeps the parameters; only the pick of an assignment finds its patch.
LEMMA ExecuteTyped ==
  ASSUME Typed, NEW t \in Tx, NEW s, NEW session, NEW picked, Reads(t, s, session, picked)
  PROVE  Typed'
  <1> DEFINE new == [session EXCEPT !.step = @ + 1, !.holds = @ \cup Exclusive(t),
                                    !.shares = @ \cup Shared(t)]
  <1>1. tx[t].cmd # "idle" /\ tx' = [tx EXCEPT ![t] = new] /\ UNCHANGED <<rows, time>>
    BY DEF Execute, At, Reads
  <1>2. new \in Session
    <2>1. session.step + 1 \in Nat \ {0}
      BY DEF Session, Reads
    <2>2. session.holds \cup Exclusive(t) \in SUBSET Lock
      BY <1>1, LocksTyped DEF Session, Reads
    <2>3. session.shares \cup Shared(t) \in SUBSET Lock
      BY <1>1, LocksTyped DEF Session, Reads
    <2> QED BY <2>1, <2>2, <2>3 DEF Session, Reads
  <1>3. /\ new.cmd = tx[t].cmd /\ new.actor = tx[t].actor /\ new.other = tx[t].other
        /\ new.transfer = tx[t].transfer /\ new.step = tx[t].step + 1
        /\ new.patch = session.patch /\ new.holds = session.holds \cup Exclusive(t)
    BY DEF Session, Reads
  <1> HIDE DEF new
  <1>4. TypeOK'
    BY <1>1, <1>2 DEF Typed, TypeOK, rows, time
  <1>5. \A o \in Tx : tx'[o] = IF o = t THEN new ELSE tx[o]
    BY <1>1 DEF Typed, TypeOK
  <1>6. tx[t].step \in Nat \ {0} /\ tx[t].cmd \in Commands \cup {"idle"}
    BY DEF Typed, TypeOK, Session
  <1>7. s = "pick" <=> tx[t].cmd = "assign" /\ tx[t].step = 3
    <2>1. At(t, s)
      BY DEF Execute, Reads
    <2>2. s = "pick" => tx[t].cmd = "assign" /\ tx[t].step = 3
      BY <1>6, <2>1, Plans
    <2>3. tx[t].cmd = "assign" /\ tx[t].step = 3 => Statement(t) = "pick"
      BY DEF Statement, PlanOf, AssignPlan
    <2> QED BY <2>1, <2>2, <2>3 DEF At
  <1>8. Parameters'
    <2>1. \A x \in Transfer : TransferLock(x) \in new.holds => transfers[x].status # "free"
      <3>1. \A x \in Transfer : TransferLock(x) \in session.holds => TransferLock(x) \in tx[t].holds
        BY DEF Reads, PatchLock, TransferLock
      <3> QED BY <1>1, <1>3, <3>1, LockedTransfersExist DEF Typed, Parameters
    <2>2. UNCHANGED transfers
      BY <1>1 DEF rows
    <2> QED BY <1>1, <1>3, <1>5, <1>6, <1>7, <2>1, <2>2 DEF Typed, Parameters, OnPatch, Reads
  <1>9. NamedTransfers'
    BY <1>1 DEF Typed, NamedTransfers, rows
  <1> QED BY <1>4, <1>8, <1>9 DEF Typed

\* The end of a transaction keeps the other connections as they are.
LEMMA FinishTyped ==
  ASSUME Typed, NEW t \in Tx, tx' = [tx EXCEPT ![t] = Idle],
         \A x \in Transfer : transfers[x].status # "free" => transfers'[x].status # "free"
  PROVE  tx' \in [Tx -> Session] /\ Parameters'
  <1>1. Idle \in Session /\ Idle.cmd = "idle" /\ Idle.step = 1 /\ Idle.holds = {}
    BY IdleTyped
  <1>2. \A o \in Tx : tx'[o] = IF o = t THEN Idle ELSE tx[o]
    BY DEF Typed, TypeOK
  <1> QED BY <1>1, <1>2 DEF Typed, TypeOK, Parameters, ByPrincipal, OnPatch, OnTransfer

\* Every request of the HTTP API and of the jobs starts a well-formed command.
LEMMA BeginTyped ==
  ASSUME Typed, NEW t \in Tx, Begin(t)
  PROVE  Typed'
  <1> USE OwnershipAssumption
  <1>1. CASE StartClaim(t)
    BY <1>1, StartTyped DEF StartClaim, Commands, OnPatch, OnTransfer, ByPrincipal
  <1>2. CASE StartAssign(t)
    BY <1>2, StartTyped DEF StartAssign, Commands, OnPatch, OnTransfer, ByPrincipal
  <1>3. CASE StartCreate(t)
    BY <1>3, StartTyped DEF StartCreate, Commands, OnPatch, OnTransfer, ByPrincipal
  <1>4. CASE StartAccept(t)
    <2>1. PICK u \in Principal, x \in Transfer :
            /\ transfers[x].status # "free"
            /\ Start(t, "accept", u, transfers[x].sender, transfers[x].patch, x)
      BY <1>4 DEF StartAccept
    <2>2. transfers[x].sender \in Principal /\ transfers[x].patch \in Patch
      BY <2>1 DEF Typed, NamedTransfers
    <2> QED BY <2>1, <2>2, StartTyped DEF Commands, OnPatch, OnTransfer, ByPrincipal
  <1>5. CASE StartCancel(t)
    <2>1. PICK u \in Principal, x \in Transfer :
            /\ transfers[x].status # "free"
            /\ Start(t, "cancel", u, transfers[x].recipient, transfers[x].patch, x)
      BY <1>5 DEF StartCancel
    <2>2. transfers[x].recipient \in Principal /\ transfers[x].patch \in Patch
      BY <2>1 DEF Typed, NamedTransfers
    <2> QED BY <2>1, <2>2, StartTyped DEF Commands, OnPatch, OnTransfer, ByPrincipal
  <1>6. CASE StartAbandon(t)
    BY <1>6, StartTyped DEF StartAbandon, Commands, OnPatch, OnTransfer, ByPrincipal
  <1>7. CASE StartExpire(t)
    BY <1>7, StartTyped, ZenonT(60) DEF StartExpire, Commands, OnPatch, OnTransfer, ByPrincipal
  <1>8. CASE StartRequest(t)
    BY <1>8, StartTyped DEF StartRequest, Commands, OnPatch, OnTransfer, ByPrincipal
  <1>9. CASE StartRecover(t)
    BY <1>9, StartTyped DEF StartRecover, Commands, OnPatch, OnTransfer, ByPrincipal
  <1>10. CASE StartComplete(t)
    <2>1. lapsed \subseteq Principal
      BY DEF Typed, TypeOK
    <2> QED BY <1>10, <2>1, StartTyped DEF StartComplete, Commands, OnPatch, OnTransfer, ByPrincipal
  <1> QED BY <1>1, <1>2, <1>3, <1>4, <1>5, <1>6, <1>7, <1>8, <1>9, <1>10 DEF Begin

\* Every statement of the module is of that shape.
LEMMA ReadShape ==
  ASSUME Typed, NEW t \in Tx, Read(t)
  PROVE  \E s, session, picked : Reads(t, s, session, picked)
  <1>1. tx[t] \in Session /\ tx[t].cmd \in Commands \cup {"idle"} /\ tx[t].step \in Nat \ {0}
    BY DEF Typed, TypeOK, Session
  <1>2. ASSUME NEW s \in {"advisory", "due", "shareActor", "shareOther", "shareDue"},
                 Execute(t, s, tx[t])
        PROVE  Reads(t, s, tx[t], {})
    BY <1>1, <1>2 DEF Reads
  <1>3. CASE TakeAdvisoryLock(t) \/ ReadDue(t) \/ CheckForeignKeys(t)
    BY <1>2, <1>3 DEF TakeAdvisoryLock, ReadDue, CheckForeignKeys
  <1>4. CASE ReadPatch(t)
    <2>1. tx[t].patch \in Patch
      BY <1>1, <1>4, Plans DEF ReadPatch, Execute, Typed, Parameters
    <2> DEFINE session == [tx[t] EXCEPT !.row = patches[tx[t].patch]]
    <2>2. session \in Session
      BY <1>1, <2>1 DEF Session, Typed, TypeOK
    <2>3. Reads(t, "patch", session, {})
      BY <1>1, <1>4, <2>2 DEF ReadPatch, Session, Reads
    <2> QED BY <2>3
  <1>5. CASE ReadTransfer(t)
    <2>1. tx[t].transfer \in Transfer
      BY <1>1, <1>5, Plans DEF ReadTransfer, Execute, Typed, Parameters, OnTransfer
    <2> DEFINE session == [tx[t] EXCEPT !.offer = transfers[tx[t].transfer]]
    <2>2. session \in Session
      BY <1>1, <2>1 DEF Session, Typed, TypeOK
    <2>3. Reads(t, "transfer", session, {})
      BY <1>1, <1>5, <2>2 DEF ReadTransfer, Session, Reads
    <2> QED BY <2>3
  <1>6. CASE ReadActor(t)
    <2>1. tx[t].actor \in Principal
      BY <1>1, <1>6, Plans DEF ReadActor, Execute, Typed, Parameters
    <2> DEFINE session == [tx[t] EXCEPT !.standing = principals[tx[t].actor]]
    <2>2. session \in Session
      BY <1>1, <2>1 DEF Session, Typed, TypeOK
    <2>3. Reads(t, "actor", session, {})
      BY <1>1, <1>6, <2>2 DEF ReadActor, Session, Reads
    <2> QED BY <2>3
  <1>7. CASE ReadParties(t)
    <2>1. tx[t].other \in Principal
      BY <1>1, <1>7, Plans DEF ReadParties, Execute, Typed, Parameters, OnTransfer
    <2> DEFINE session == [tx[t] EXCEPT !.standing = principals[tx[t].other]]
    <2>2. session \in Session
      BY <1>1, <2>1 DEF Session, Typed, TypeOK
    <2>3. \E s \in {"lower", "upper"} : Reads(t, s, session, {})
      BY <1>1, <1>7, <2>2 DEF ReadParties, Session, Reads
    <2> QED BY <2>3
  <1>8. CASE ReadOwned(t) \/ ReadQuota(t) \/ ReadPending(t) \/ ReadOwnedForUpdate(t)
    <2>1. \A b \in BOOLEAN : [tx[t] EXCEPT !.blocked = b] \in Session
      BY <1>1 DEF Session
    <2>2. ASSUME NEW s \in {"owned", "quota", "ownedLock", "pending"}, NEW b \in BOOLEAN,
                 Execute(t, s, [tx[t] EXCEPT !.blocked = b]),
                 s = "pending" /\ ~b => PendingFor(tx[t].patch) = {},
                 s = "quota" /\ ~b => WithinQuota(tx[t].actor),
                 s # "pending" /\ ~b => OwnedBy(tx[t].actor) = {}
          PROVE  Reads(t, s, [tx[t] EXCEPT !.blocked = b], {})
      BY <1>1, <2>1, <2>2 DEF Session, Reads
    <2> QED BY <1>8, <2>2 DEF ReadOwned, ReadQuota, ReadPending, ReadOwnedForUpdate, WithinQuota
  <1>9. CASE PickPatch(t)
    <2>1. PICK p \in Claimable(t) :
            Execute(t, "pick", [tx[t] EXCEPT !.patch = p, !.row = patches[p],
                                             !.holds = @ \cup {PatchLock(p)}])
      BY <1>9 DEF PickPatch
    <2>2. p \in Patch /\ patches[p] \in Row /\ patches[p].owner = NoOne
          /\ \A o \in Tx \ {t} : {PatchLock(p)} \cap (tx[o].holds \cup tx[o].shares) = {}
      BY <2>1, OwnershipAssumption DEF Claimable, Typed, TypeOK, Conflicts
    <2> DEFINE session == [tx[t] EXCEPT !.patch = p, !.row = patches[p],
                                        !.holds = @ \cup {PatchLock(p)}]
    <2>3. session \in Session
      <3>1. PatchLock(p) \in Lock
        BY <2>2 DEF Lock
      <3>2. tx[t].holds \cup {PatchLock(p)} \in SUBSET Lock
        BY <1>1, <3>1 DEF Session
      <3> QED BY <1>1, <2>2, <3>2 DEF Session
    <2>4. Reads(t, "pick", session, {PatchLock(p)})
      BY <1>1, <2>1, <2>2, <2>3 DEF Session, Reads
    <2> QED BY <2>4
  <1> QED BY <1>3, <1>4, <1>5, <1>6, <1>7, <1>8, <1>9 DEF Read

\* Every statement keeps the tables and the transactions well formed.
LEMMA ReadTyped ==
  ASSUME Typed, NEW t \in Tx, Read(t)
  PROVE  Typed'
  BY ReadShape, ExecuteTyped

\* A command reaches its commit with the parameters its writes need.
LEMMA ReadyTyped ==
  ASSUME Typed, NEW t \in Tx, NEW c, Ready(t, c)
  PROVE  /\ tx[t].cmd = c /\ tx[t] \in Session
         /\ c \in ByPrincipal => tx[t].actor \in Principal
         /\ c \in OnPatch \cup {"assign"} => tx[t].patch \in Patch
         /\ c \in OnTransfer => tx[t].transfer \in Transfer /\ tx[t].other \in Principal
         /\ c \in {"accept", "cancel"} => transfers[tx[t].transfer].status # "free"
  <1>1. tx[t] \in Session /\ tx[t].cmd = c /\ tx[t].step \in Nat \ {0}
    BY DEF Typed, TypeOK, Session, Ready
  <1>2. c = "assign" => tx[t].step > 3
    BY <1>1 DEF Ready, Statement, PlanOf, AssignPlan
  <1> QED BY <1>1, <1>2 DEF Typed, Parameters

\* The new row of a patch is well formed.
LEMMA SetOwnerTyped ==
  ASSUME Typed, NEW t \in Tx, NEW u \in Principal \cup {NoOne}, SetOwner(t, u)
  PROVE  patches' \in [Patch -> Row]
  <1>1. [owner |-> u, revision |-> tx[t].row.revision + 1] \in Row
    BY DEF Typed, TypeOK, Session, Row
  <1> QED BY <1>1 DEF SetOwner, Typed, TypeOK

\* Updating the status column of an existing transfer.
LEMMA StatusTyped ==
  ASSUME Typed, NEW x \in Transfer, transfers[x].status # "free",
         NEW status \in {"accepted", "cancelled", "expired"},
         transfers' = [transfers EXCEPT ![x].status = status]
  PROVE  /\ transfers' \in [Transfer -> Offer] /\ NamedTransfers'
         /\ \A y \in Transfer : transfers[y].status # "free" => transfers'[y].status # "free"
  <1>1. transfers \in [Transfer -> Offer]
    BY DEF Typed, TypeOK
  <1>2. \A r \in Offer : LET n == [r EXCEPT !.status = status] IN
          /\ n \in Offer /\ n.patch = r.patch /\ n.sender = r.sender
          /\ n.recipient = r.recipient /\ n.status # "free"
    BY DEF Offer
  <1> QED BY <1>1, <1>2 DEF Typed, NamedTransfers

\* Every commit leaves well-formed tables.
LEMMA CommitTyped ==
  ASSUME Typed, NEW t \in Tx, Commit(t)
  PROVE  Typed'
  <1> USE DEF Finish, rows, time
  <1>0. /\ patches \in [Patch -> Row] /\ members \in [Patch -> SUBSET Principal]
        /\ transfers \in [Transfer -> Offer] /\ principals \in [Principal -> Status]
        /\ quota \in [Principal -> [attempts : Nat, claims : Nat]]
        /\ due \subseteq Transfer /\ lapsed \subseteq Principal /\ NamedTransfers
    BY DEF Typed, TypeOK
  <1>1. CASE CommitClaim(t)
    <2>1. tx[t].actor \in Principal
      BY <1>1, ReadyTyped DEF CommitClaim, ByPrincipal
    <2>2. quota' \in [Principal -> [attempts : Nat, claims : Nat]]
      BY <1>0, <1>1, <2>1 DEF CommitClaim
    <2>3. patches' \in [Patch -> Row] /\ members' \in [Patch -> SUBSET Principal]
      BY <1>0, <1>1, <2>1, SetOwnerTyped DEF CommitClaim
    <2>4. NamedTransfers' /\ UNCHANGED <<transfers, principals, due, lapsed>>
          /\ tx' = [tx EXCEPT ![t] = Idle]
      BY <1>0, <1>1 DEF CommitClaim, NamedTransfers
    <2> QED BY <1>0, <2>2, <2>3, <2>4, FinishTyped DEF Typed, TypeOK
  <1>2. CASE CommitAssign(t)
    <2>1. tx[t].actor \in Principal
      BY <1>2, ReadyTyped DEF CommitAssign, ByPrincipal
    <2>2. patches' \in [Patch -> Row] /\ members' \in [Patch -> SUBSET Principal]
      BY <1>0, <1>2, <2>1, SetOwnerTyped DEF CommitAssign
    <2>3. NamedTransfers' /\ UNCHANGED <<transfers, principals, quota, due, lapsed>>
          /\ tx' = [tx EXCEPT ![t] = Idle]
      BY <1>0, <1>2 DEF CommitAssign, NamedTransfers
    <2> QED BY <1>0, <2>2, <2>3, FinishTyped DEF Typed, TypeOK
  <1>3. CASE ReturnAssign(t)
    <2>1. UNCHANGED <<rows, due, lapsed>> /\ tx' = [tx EXCEPT ![t] = Idle]
      BY <1>3 DEF ReturnAssign
    <2> QED BY <1>0, <2>1, FinishTyped DEF Typed, TypeOK, NamedTransfers
  <1>4. CASE CommitCreate(t)
    <2>1. tx[t].actor \in Principal /\ tx[t].patch \in Patch /\ tx[t].other \in Principal
      BY <1>4, ReadyTyped DEF CommitCreate, ByPrincipal, OnPatch, OnTransfer
    <2> DEFINE new == [status |-> "pending", patch |-> tx[t].patch,
                       sender |-> tx[t].actor, recipient |-> tx[t].other]
    <2>2. /\ new \in Offer /\ new.status = "pending" /\ new.patch \in Patch
          /\ new.sender \in Principal /\ new.recipient \in Principal
      BY <2>1 DEF Offer
    <2>3. transfers' = [transfers EXCEPT ![tx[t].transfer] = new] \/ transfers' = transfers
      BY <1>4 DEF CommitCreate
    <2> HIDE DEF new
    <2>4. /\ transfers' \in [Transfer -> Offer] /\ NamedTransfers'
          /\ \A y \in Transfer : transfers[y].status # "free" => transfers'[y].status # "free"
      BY <1>0, <2>2, <2>3 DEF NamedTransfers
    <2>5. UNCHANGED <<patches, members, principals, quota, due, lapsed>>
          /\ tx' = [tx EXCEPT ![t] = Idle]
      BY <1>4 DEF CommitCreate
    <2> QED BY <1>0, <2>4, <2>5, FinishTyped DEF Typed, TypeOK
  <1>5. CASE CommitAccept(t)
    <2>1. tx[t].actor \in Principal /\ tx[t].transfer \in Transfer
          /\ transfers[tx[t].transfer].status # "free"
      BY <1>5, ReadyTyped DEF CommitAccept, ByPrincipal, OnTransfer
    <2>2. /\ transfers' \in [Transfer -> Offer] /\ NamedTransfers'
          /\ \A y \in Transfer : transfers[y].status # "free" => transfers'[y].status # "free"
      BY <1>0, <1>5, <2>1, StatusTyped DEF CommitAccept, NamedTransfers
    <2>3. patches' \in [Patch -> Row] /\ members' \in [Patch -> SUBSET Principal]
      BY <1>0, <1>5, <2>1, SetOwnerTyped DEF CommitAccept, AcceptAllowed, SwapMember
    <2>4. UNCHANGED <<principals, quota, due, lapsed>> /\ tx' = [tx EXCEPT ![t] = Idle]
      BY <1>5 DEF CommitAccept
    <2> QED BY <1>0, <2>2, <2>3, <2>4, FinishTyped DEF Typed, TypeOK
  <1>6. CASE CommitCancel(t)
    <2>1. tx[t].transfer \in Transfer /\ transfers[tx[t].transfer].status # "free"
      BY <1>6, ReadyTyped DEF CommitCancel, OnTransfer
    <2>2. /\ transfers' \in [Transfer -> Offer] /\ NamedTransfers'
          /\ \A y \in Transfer : transfers[y].status # "free" => transfers'[y].status # "free"
      BY <1>0, <1>6, <2>1, StatusTyped DEF CommitCancel, NamedTransfers
    <2>3. UNCHANGED <<patches, members, principals, quota, due, lapsed>>
          /\ tx' = [tx EXCEPT ![t] = Idle]
      BY <1>6 DEF CommitCancel
    <2> QED BY <1>0, <2>2, <2>3, FinishTyped DEF Typed, TypeOK
  <1>7. CASE CommitAbandon(t)
    <2>1. patches' \in [Patch -> Row] /\ members' \in [Patch -> SUBSET Principal]
      BY <1>0, <1>7, SetOwnerTyped DEF CommitAbandon
    <2>2. NamedTransfers' /\ UNCHANGED <<transfers, principals, quota, due, lapsed>>
          /\ tx' = [tx EXCEPT ![t] = Idle]
      BY <1>0, <1>7 DEF CommitAbandon, NamedTransfers
    <2> QED BY <1>0, <2>1, <2>2, FinishTyped DEF Typed, TypeOK
  <1>8. CASE CommitExpire(t)
    <2>1. \A r \in Offer : LET n == [r EXCEPT !.status = "expired"] IN
            /\ n \in Offer /\ n.patch = r.patch /\ n.sender = r.sender
            /\ n.recipient = r.recipient /\ n.status # "free"
      BY DEF Offer
    <2>2. \A x \in Transfer : \/ transfers'[x] = transfers[x]
                              \/ /\ transfers'[x] = [transfers[x] EXCEPT !.status = "expired"]
                                 /\ transfers[x].status # "free"
      BY <1>8 DEF CommitExpire, LockedTransfers, Typed, Parameters
    <2>3. /\ transfers' \in [Transfer -> Offer] /\ NamedTransfers'
          /\ \A y \in Transfer : transfers[y].status # "free" => transfers'[y].status # "free"
      <3>1. transfers' = [x \in Transfer |-> transfers'[x]]
        BY <1>8 DEF CommitExpire, LockedTransfers
      <3>2. \A x \in Transfer : /\ transfers'[x] \in Offer
                                /\ transfers'[x].patch = transfers[x].patch
                                /\ transfers'[x].sender = transfers[x].sender
                                /\ transfers'[x].recipient = transfers[x].recipient
                                /\ transfers'[x].status # "free" <=> transfers[x].status # "free"
        <4> TAKE x \in Transfer
        <4>1. transfers[x] \in Offer
          BY <1>0
        <4>2. CASE transfers'[x] = transfers[x]
          BY <4>1, <4>2
        <4>3. CASE /\ transfers'[x] = [transfers[x] EXCEPT !.status = "expired"]
                   /\ transfers[x].status # "free"
          BY <2>1, <4>1, <4>3
        <4> QED BY <2>2, <4>2, <4>3
      <3> QED BY <1>0, <3>1, <3>2 DEF NamedTransfers
    <2>4. UNCHANGED <<patches, members, principals, quota, due, lapsed>>
          /\ tx' = [tx EXCEPT ![t] = Idle]
      BY <1>8 DEF CommitExpire
    <2> QED BY <1>0, <2>3, <2>4, FinishTyped DEF Typed, TypeOK
  <1>9. CASE CommitRequest(t) \/ CommitRecover(t) \/ CommitComplete(t)
    <2>1. principals' \in [Principal -> Status]
      BY <1>0, <1>9 DEF CommitRequest, CommitRecover, CommitComplete, SetStatus, Status
    <2>2. UNCHANGED <<patches, members, transfers, quota, due>> /\ tx' = [tx EXCEPT ![t] = Idle]
      BY <1>9 DEF CommitRequest, CommitRecover, CommitComplete, SetStatus
    <2>3. NamedTransfers'
      BY <1>0, <2>2 DEF NamedTransfers
    <2>4. lapsed' \subseteq Principal
      BY <1>0, <1>9 DEF CommitRequest, CommitRecover, CommitComplete
    <2> QED BY <1>0, <2>1, <2>2, <2>3, <2>4, FinishTyped DEF Typed, TypeOK
  <1> QED
    BY <1>1, <1>2, <1>3, <1>4, <1>5, <1>6, <1>7, <1>8, <1>9 DEF Commit

\* The passing of a deadline or of a window changes no row but the quota counts.
LEMMA ClockTyped ==
  ASSUME Typed, Clock
  PROVE  Typed'
  <1>1. CASE \E x \in Transfer : TransferFallsDue(x)
    <2>1. UNCHANGED <<rows, lapsed, tx>> /\ due' \subseteq Transfer
      BY <1>1 DEF TransferFallsDue, Typed, TypeOK
    <2> QED BY <2>1 DEF rows, Typed, TypeOK, Parameters, NamedTransfers
  <1>2. CASE \E u \in Principal : RecoveryWindowEnds(u)
    <2>1. UNCHANGED <<rows, due, tx>> /\ lapsed' \subseteq Principal
      BY <1>2 DEF RecoveryWindowEnds, Typed, TypeOK
    <2> QED BY <2>1 DEF rows, Typed, TypeOK, Parameters, NamedTransfers
  <1>3. CASE \E u \in Principal : AttemptWindowEnds(u) \/ ClaimWindowEnds(u)
    <2>1. UNCHANGED <<patches, members, transfers, principals, time, tx>>
      BY <1>3 DEF AttemptWindowEnds, ClaimWindowEnds
    <2>2. quota' \in [Principal -> [attempts : Nat, claims : Nat]]
      BY <1>3, SMTT(60) DEF AttemptWindowEnds, ClaimWindowEnds, Typed, TypeOK
    <2> QED BY <2>1, <2>2 DEF time, Typed, TypeOK, Parameters, NamedTransfers
  <1> QED BY <1>1, <1>2, <1>3 DEF Clock

\* The empty quilt is well formed.
LEMMA InitTyped == Init => Typed
  <1> SUFFICES ASSUME Init PROVE Typed
    OBVIOUS
  <1>1. NoRow \in Row /\ NoOffer \in Offer /\ NoOffer.status = "free"
    BY DEF NoRow, NoOffer, Row, Offer
  <1>2. TypeOK
    BY <1>1, IdleTyped DEF Init, TypeOK, Status
  <1> QED
    BY <1>1, <1>2, IdleTyped
       DEF Init, Typed, Parameters, NamedTransfers, ByPrincipal, OnPatch, OnTransfer

\* Every step of the system keeps tables and transactions well formed.
LEMMA StepTyped == Typed /\ [Next]_vars => Typed'
  <1> SUFFICES ASSUME Typed, [Next]_vars PROVE Typed'
    OBVIOUS
  <1>1. CASE Clock
    BY <1>1, ClockTyped
  <1>2. ASSUME NEW t \in Tx, Begin(t) PROVE Typed'
    BY <1>2, BeginTyped
  <1>3. ASSUME NEW t \in Tx, Read(t) PROVE Typed'
    BY <1>3, ReadTyped
  <1>4. ASSUME NEW t \in Tx, Commit(t) PROVE Typed'
    BY <1>4, CommitTyped
  <1>5. ASSUME NEW t \in Tx, Abort(t) PROVE Typed'
    <2>1. UNCHANGED <<rows, due, lapsed>> /\ tx' = [tx EXCEPT ![t] = Idle]
      BY <1>5 DEF Abort, Finish, time
    <2> QED BY <2>1, FinishTyped DEF rows, Typed, TypeOK, NamedTransfers
  <1>6. CASE UNCHANGED vars
    BY <1>6 DEF vars, rows, time, Typed, TypeOK, Parameters, NamedTransfers
  <1> QED BY <1>1, <1>2, <1>3, <1>4, <1>5, <1>6 DEF Next

\* The tables and the transactions of repository.ts stay well formed in every
\* interleaving of the ownership commands.
THEOREM TypeCorrect == Spec => []TypeOK
  <1>1. Spec => []Typed
    BY InitTyped, StepTyped, PTL DEF Spec
  <1>2. Typed => TypeOK
    BY DEF Typed
  <1> QED BY <1>1, <1>2, PTL

-----------------------------------------------------------------------------
(* Two-phase locking *)

\* No two connections hold conflicting locks.
Exclusion ==
  \A t, o \in Tx : t # o => tx[t].holds \cap (tx[o].holds \cup tx[o].shares) = {}

\* What a transaction has read FOR UPDATE it still holds, and it still shares the row of
\* the principal its new rows refer to.
HoldsWhatItRead ==
  \A t \in Tx :
    /\ Has(t, "patch") \/ Has(t, "pick") => PatchLock(tx[t].patch) \in tx[t].holds
    /\ Has(t, "transfer") => TransferLock(tx[t].transfer) \in tx[t].holds
    /\ Has(t, "advisory") => AdvisoryLock(tx[t].actor) \in tx[t].holds
    /\ Has(t, "actor") => PrincipalLock(tx[t].actor) \in tx[t].holds
    /\ Has(t, "lower") => PrincipalLock(Lower(tx[t].actor, tx[t].other)) \in tx[t].holds
    /\ Has(t, "upper") => PrincipalLock(Upper(tx[t].actor, tx[t].other)) \in tx[t].holds
    /\ Has(t, "shareActor") => PrincipalLock(tx[t].actor) \in tx[t].shares

Locking == Exclusion /\ HoldsWhatItRead

\* Statements are numbered from one.
LEMMA PlanDomains == \A c : DOMAIN PlanOf(c) \subseteq Nat \ {0}
  BY DEF PlanOf, ClaimPlan, AssignPlan, AcceptPlan

\* A transaction that has not started a statement has completed none.
LEMMA FreshHas ==
  ASSUME NEW t \in Tx, tx'[t].step = 1, NEW s
  PROVE  ~Has(t, s)'
  BY PlanDomains DEF Has

\* Completing statement s adds s to what has been completed.
LEMMA ExecuteHas ==
  ASSUME NEW t \in Tx, tx[t].step \in Nat \ {0}, NEW s, s # "commit", At(t, s),
         tx'[t].cmd = tx[t].cmd, tx'[t].step = tx[t].step + 1, NEW r
  PROVE  Has(t, r)' <=> Has(t, r) \/ r = s
  <1>1. tx[t].step \in DOMAIN PlanOf(tx[t].cmd) /\ PlanOf(tx[t].cmd)[tx[t].step] = s
    BY DEF At, Statement
  <1>2. \A i \in DOMAIN PlanOf(tx[t].cmd) : i < tx[t].step + 1 <=> i < tx[t].step \/ i = tx[t].step
    BY PlanDomains
  <1> QED BY <1>1, <1>2 DEF Has

\* A connection that does not move has completed what it had completed.
LEMMA SameHas ==
  ASSUME NEW o \in Tx, tx'[o] = tx[o], NEW s
  PROVE  Has(o, s)' <=> Has(o, s)
  BY DEF Has

\* Connections that end or start a transaction hold nothing.
LEMMA ResetLocking ==
  ASSUME Typed, Locking, NEW t \in Tx, NEW r, r.step = 1, r.holds = {}, r.shares = {},
         tx' = [tx EXCEPT ![t] = r]
  PROVE  Locking'
  <1>1. \A o \in Tx : tx'[o] = IF o = t THEN r ELSE tx[o]
    BY DEF Typed, TypeOK
  <1>2. Exclusion'
    BY <1>1 DEF Locking, Exclusion
  <1>3. HoldsWhatItRead'
    <2> SUFFICES ASSUME NEW o \in Tx PROVE HoldsWhatItRead!(o)'
      BY DEF HoldsWhatItRead
    <2>1. CASE o = t
      BY <1>1, <2>1, FreshHas
    <2>2. CASE o # t
      BY <1>1, <2>2, SameHas DEF Locking, HoldsWhatItRead
    <2> QED BY <2>1, <2>2
  <1> QED BY <1>2, <1>3 DEF Locking

\* A statement waits until its locks conflict with no other connection's.
LEMMA ExecuteLocking ==
  ASSUME Typed, Locking, NEW t \in Tx, NEW s, NEW session, NEW picked,
         Reads(t, s, session, picked)
  PROVE  Locking'
  <1> DEFINE new == [session EXCEPT !.step = @ + 1, !.holds = @ \cup Exclusive(t),
                                    !.shares = @ \cup Shared(t)]
  <1>1. At(t, s) /\ BlockedBy(t) = {} /\ tx' = [tx EXCEPT ![t] = new]
    BY DEF Execute, Reads
  <1>2. /\ new.cmd = tx[t].cmd /\ new.actor = tx[t].actor /\ new.other = tx[t].other
        /\ new.transfer = tx[t].transfer /\ new.step = tx[t].step + 1
        /\ new.patch = session.patch
        /\ new.holds = tx[t].holds \cup picked \cup Exclusive(t)
        /\ new.shares = tx[t].shares \cup Shared(t)
    BY DEF Session, Reads
  <1> HIDE DEF new
  <1>3. \A o \in Tx : tx'[o] = IF o = t THEN new ELSE tx[o]
    BY <1>1 DEF Typed, TypeOK
  <1>4. \A o \in Tx \ {t} : /\ Exclusive(t) \cap (tx[o].holds \cup tx[o].shares) = {}
                            /\ Shared(t) \cap tx[o].holds = {}
    BY <1>1 DEF BlockedBy, Conflicts
  <1>5. Exclusion'
    <2> SUFFICES ASSUME NEW a \in Tx, NEW o \in Tx, a # o
                 PROVE  tx'[a].holds \cap (tx'[o].holds \cup tx'[o].shares) = {}
      BY DEF Exclusion
    <2>1. tx[a].holds \cap (tx[o].holds \cup tx[o].shares) = {}
          /\ tx[o].holds \cap (tx[a].holds \cup tx[a].shares) = {}
      BY DEF Locking, Exclusion
    <2>2. CASE a = t
      BY <1>2, <1>3, <1>4, <2>1, <2>2 DEF Reads
    <2>3. CASE o = t
      BY <1>2, <1>3, <1>4, <2>1, <2>3 DEF Reads
    <2>4. CASE a # t /\ o # t
      BY <1>3, <2>1, <2>4
    <2> QED BY <2>2, <2>3, <2>4
  <1>6. tx[t].step \in Nat \ {0} /\ tx[t].cmd \in Commands \cup {"idle"}
    BY DEF Typed, TypeOK, Session
  <1>7. \A r : Has(t, r)' <=> Has(t, r) \/ r = s
    BY <1>1, <1>2, <1>3, <1>6, ExecuteHas DEF Reads
  <1>8. Statement(t) = s
    BY <1>1 DEF At
  <1>9. s = "pick" => ~Has(t, "patch") /\ ~Has(t, "pick")
    BY <1>1, <1>6, Plans DEF Has, PlanOf, AssignPlan
  <1>10. HoldsWhatItRead'
    <2> SUFFICES ASSUME NEW o \in Tx PROVE HoldsWhatItRead!(o)'
      BY DEF HoldsWhatItRead
    <2>1. CASE o # t
      BY <1>3, <2>1, SameHas DEF Locking, HoldsWhatItRead
    <2>2. CASE o = t
      <3>1. HoldsWhatItRead!(t)
        BY DEF Locking, HoldsWhatItRead
      <3>2. /\ s = "patch" => PatchLock(tx[t].patch) \in Exclusive(t)
            /\ s = "transfer" => TransferLock(tx[t].transfer) \in Exclusive(t)
            /\ s = "advisory" => AdvisoryLock(tx[t].actor) \in Exclusive(t)
            /\ s = "actor" => PrincipalLock(tx[t].actor) \in Exclusive(t)
            /\ s = "lower" => PrincipalLock(Lower(tx[t].actor, tx[t].other)) \in Exclusive(t)
            /\ s = "upper" => PrincipalLock(Upper(tx[t].actor, tx[t].other)) \in Exclusive(t)
            /\ s = "shareActor" => PrincipalLock(tx[t].actor) \in Shared(t)
        BY <1>8 DEF Exclusive, ForUpdate, Shared
      <3> QED BY <1>2, <1>3, <1>7, <1>9, <2>2, <3>1, <3>2 DEF Reads
    <2> QED BY <2>1, <2>2
  <1> QED BY <1>5, <1>10 DEF Locking

\* The parameters of a new request, read from the tables without a lock.
Requested(c, u, v, p, x) ==
  /\ c = "create" => /\ x \in Transfer /\ transfers[x].status = "free" /\ u # v
                     /\ \A o \in Tx : tx[o].transfer # x
  /\ c \in {"accept", "cancel"} => /\ x \in Transfer /\ transfers[x].status # "free"
                                   /\ p = transfers[x].patch
  /\ c \notin OnTransfer => x = NoTransfer
  /\ c = "assign" => principals[u] = "active"

\* Every request starts its command with such parameters.
LEMMA BeginShape ==
  ASSUME NEW t \in Tx, Begin(t)
  PROVE  \E c, u, v, p, x : Start(t, c, u, v, p, x) /\ Requested(c, u, v, p, x)
  <1> USE DEF Requested, OnTransfer
  <1>1. CASE StartClaim(t)
    BY <1>1, SMT DEF StartClaim
  <1>2. CASE StartAssign(t)
    BY <1>2, SMT DEF StartAssign
  <1>3. CASE StartCreate(t)
    BY <1>3, SMT DEF StartCreate
  <1>4. CASE StartAccept(t)
    BY <1>4, SMT DEF StartAccept
  <1>5. CASE StartCancel(t)
    BY <1>5, SMT DEF StartCancel
  <1>6. CASE StartAbandon(t)
    BY <1>6, SMT DEF StartAbandon
  <1>7. CASE StartExpire(t)
    BY <1>7, SMT DEF StartExpire
  <1>8. CASE StartRequest(t)
    BY <1>8, SMT DEF StartRequest
  <1>9. CASE StartRecover(t)
    BY <1>9, SMT DEF StartRecover
  <1>10. CASE StartComplete(t)
    BY <1>10, SMT DEF StartComplete
  <1> QED BY <1>1, <1>2, <1>3, <1>4, <1>5, <1>6, <1>7, <1>8, <1>9, <1>10 DEF Begin

\* A new transaction has locked nothing and read nothing.
LEMMA StartShape ==
  ASSUME NEW t \in Tx, NEW c, NEW u, NEW v, NEW p, NEW x, Start(t, c, u, v, p, x)
  PROVE  /\ UNCHANGED <<rows, time>>
         /\ \E r : /\ tx' = [tx EXCEPT ![t] = r]
                   /\ r.step = 1 /\ r.holds = {} /\ r.shares = {} /\ r.cmd = c
                   /\ r.actor = u /\ r.other = v /\ r.patch = p /\ r.transfer = x
  <1> DEFINE r == [Idle EXCEPT !.cmd = c, !.actor = u, !.other = v, !.patch = p, !.transfer = x]
  <1>1. /\ r.step = 1 /\ r.holds = {} /\ r.shares = {} /\ r.cmd = c
        /\ r.actor = u /\ r.other = v /\ r.patch = p /\ r.transfer = x
    BY DEF Idle
  <1>2. tx' = [tx EXCEPT ![t] = r] /\ UNCHANGED <<rows, time>>
    BY DEF Start
  <1> QED BY <1>1, <1>2

\* A transaction ends by commit, early return or rollback: its locks are released.
LEMMA EndShape ==
  ASSUME NEW t \in Tx, Commit(t) \/ Abort(t)
  PROVE  tx' = [tx EXCEPT ![t] = Idle]
  BY DEF Commit, Abort, Finish, CommitClaim, CommitAssign, ReturnAssign, CommitCreate,
         CommitAccept, CommitCancel, CommitAbandon, CommitExpire, CommitRequest,
         CommitRecover, CommitComplete, SetStatus

\* The lock discipline is kept by every step.
LEMMA StepLocking == Typed /\ Locking /\ [Next]_vars => Locking'
  <1> SUFFICES ASSUME Typed, Locking, [Next]_vars PROVE Locking'
    OBVIOUS
  <1>1. ASSUME UNCHANGED tx PROVE Locking'
    BY <1>1 DEF Locking, Exclusion, HoldsWhatItRead, Has
  <1>2. CASE Clock \/ UNCHANGED vars
    BY <1>1, <1>2 DEF Clock, TransferFallsDue, RecoveryWindowEnds, AttemptWindowEnds,
                      ClaimWindowEnds, vars
  <1>3. ASSUME NEW t \in Tx, Begin(t) PROVE Locking'
    <2>1. PICK c, u, v, p, x : Start(t, c, u, v, p, x)
      BY <1>3, BeginShape
    <2> QED BY <2>1, StartShape, ResetLocking
  <1>4. ASSUME NEW t \in Tx, Read(t) PROVE Locking'
    BY <1>4, ReadShape, ExecuteLocking
  <1>5. ASSUME NEW t \in Tx, Commit(t) \/ Abort(t) PROVE Locking'
    <2>1. Idle.step = 1 /\ Idle.holds = {} /\ Idle.shares = {}
      BY DEF Idle
    <2> QED BY <1>5, <2>1, EndShape, ResetLocking
  <1> QED BY <1>2, <1>3, <1>4, <1>5 DEF Next

\* Initially no connection holds a lock.
LEMMA InitLocking == Init => Locking
  <1> SUFFICES ASSUME Init, NEW t \in Tx PROVE /\ tx[t].holds = {} /\ \A s : ~Has(t, s)
    BY DEF Locking, Exclusion, HoldsWhatItRead
  <1>1. tx[t].holds = {} /\ tx[t].step = 1
    BY DEF Init, Idle
  <1> QED BY <1>1, PlanDomains DEF Has

\* Row locks exclude each other in every interleaving, and a transaction keeps the
\* lock of every row it has read FOR UPDATE until it ends.
THEOREM LocksExclude == Spec => []Locking
  <1>1. Init => Typed /\ Locking
    BY InitTyped, InitLocking
  <1>2. Typed /\ Locking /\ [Next]_vars => (Typed /\ Locking)'
    BY StepTyped, StepLocking
  <1>3. Spec => [](Typed /\ Locking)
    BY <1>1, <1>2, PTL DEF Spec
  <1> QED BY <1>3, PTL

-----------------------------------------------------------------------------
(* What a transaction has read stays true until it commits. *)

\* The slot of an offer in the making is its own; the other commands on a transfer
\* name that transfer's patch.
Slots ==
  \A t \in Tx :
    /\ tx[t].cmd = "create" => /\ transfers[tx[t].transfer].status = "free"
                               /\ tx[t].actor # tx[t].other
                               /\ \A o \in Tx \ {t} : tx[o].transfer # tx[t].transfer
    /\ tx[t].cmd \in {"accept", "cancel"} => transfers[tx[t].transfer].patch = tx[t].patch

\* The searches that decide a command: they read more rows than they lock, so what they
\* found is kept by the locks of the rows the other commands must lock first.
ScansAreCurrent ==
  \A t \in Tx :
    /\ Has(t, "pick") => tx[t].row.owner = NoOne
    /\ Has(t, "pending") /\ ~tx[t].blocked => PendingFor(tx[t].patch) = {}
    /\ Has(t, "quota") /\ ~tx[t].blocked => WithinQuota(tx[t].actor)

Serial == Slots /\ LockedReadsAreCurrent /\ ScansAreCurrent

\* Which commands complete which statements, and what they complete before.
LEMMA HasPlans ==
  ASSUME Typed, NEW t \in Tx
  PROVE  /\ Has(t, "patch") => tx[t].cmd \in OnPatch
         /\ Has(t, "pick") => tx[t].cmd = "assign"
         /\ Has(t, "transfer") => tx[t].cmd \in {"accept", "cancel"}
         /\ Has(t, "actor") => tx[t].cmd \in ByPrincipal \ {"create"}
         /\ Has(t, "upper") => tx[t].cmd = "create" /\ Has(t, "lower")
         /\ Has(t, "pending") => tx[t].cmd \in {"create", "abandon"} /\ Has(t, "patch")
         /\ Has(t, "quota") => /\ tx[t].cmd = "claim"
                               /\ Has(t, "advisory") /\ Has(t, "patch") /\ Has(t, "actor")
         /\ Has(t, "ownedLock") => tx[t].cmd \in {"accept", "complete"} /\ Has(t, "actor")
  <1> USE DEF Has, OnPatch, ByPrincipal
  <1>0. tx[t].cmd \in Commands \cup {"idle"} /\ tx[t].step \in Nat \ {0}
        /\ (tx[t].cmd = "idle" => tx[t].step = 1)
    BY DEF Typed, TypeOK, Session, Parameters
  <1>1. CASE tx[t].cmd = "claim"
    BY <1>0, <1>1 DEF PlanOf, ClaimPlan
  <1>2. CASE tx[t].cmd = "assign"
    BY <1>0, <1>2 DEF PlanOf, AssignPlan
  <1>3. CASE tx[t].cmd = "create"
    BY <1>0, <1>3 DEF PlanOf
  <1>4. CASE tx[t].cmd = "accept"
    BY <1>0, <1>4 DEF PlanOf, AcceptPlan
  <1>5. CASE tx[t].cmd = "cancel"
    BY <1>0, <1>5 DEF PlanOf
  <1>6. CASE tx[t].cmd = "abandon"
    BY <1>0, <1>6 DEF PlanOf
  <1>7. CASE tx[t].cmd = "expire"
    BY <1>0, <1>7 DEF PlanOf
  <1>8. CASE tx[t].cmd = "complete"
    BY <1>0, <1>8 DEF PlanOf
  <1>9. CASE tx[t].cmd \in {"request", "recover"}
    <2>1. PlanOf(tx[t].cmd) = <<"actor">>
      BY <1>9 DEF PlanOf
    <2>2. \A s : Has(t, s) => s = "actor"
      BY <2>1
    <2> QED BY <1>9, <2>2
  <1>10. CASE tx[t].cmd = "idle"
    BY <1>0, <1>10, PlanDomains
  <1> QED BY <1>0, <1>1, <1>2, <1>3, <1>4, <1>5, <1>6, <1>7, <1>8, <1>9, <1>10 DEF Commands

\* Where a transaction is once it has made a search: a fact about its step.
LEMMA AfterSearch ==
  ASSUME Typed, NEW t \in Tx
  PROVE  /\ Has(t, "pick") => tx[t].cmd = "assign" /\ tx[t].step > 3
         /\ Has(t, "pending") => \/ tx[t].cmd = "create" /\ tx[t].step > 4
                                 \/ tx[t].cmd = "abandon" /\ tx[t].step > 2
         /\ Has(t, "quota") => tx[t].cmd = "claim" /\ tx[t].step > 4
         /\ Has(t, "ownedLock") => \/ tx[t].cmd = "accept" /\ tx[t].step > 4
                                   \/ tx[t].cmd = "complete" /\ tx[t].step > 2
  <1>1. tx[t].step \in Nat \ {0}
    BY DEF Typed, TypeOK, Session
  <1>2. Has(t, "pick") => tx[t].step > 3
    <2> SUFFICES ASSUME Has(t, "pick") PROVE tx[t].step > 3
      OBVIOUS
    <2>1. tx[t].cmd = "assign"
      BY HasPlans
    <2> QED BY <1>1, <2>1 DEF Has, PlanOf, AssignPlan
  <1>3. Has(t, "pending") => \/ tx[t].cmd = "create" /\ tx[t].step > 4
                             \/ tx[t].cmd = "abandon" /\ tx[t].step > 2
    <2> SUFFICES ASSUME Has(t, "pending")
                 PROVE  \/ tx[t].cmd = "create" /\ tx[t].step > 4
                        \/ tx[t].cmd = "abandon" /\ tx[t].step > 2
      OBVIOUS
    <2>1. CASE tx[t].cmd = "create"
      BY <1>1, <2>1 DEF Has, PlanOf
    <2>2. CASE tx[t].cmd = "abandon"
      BY <1>1, <2>2 DEF Has, PlanOf
    <2> QED BY <2>1, <2>2, HasPlans
  <1>4. Has(t, "quota") => tx[t].step > 4
    <2> SUFFICES ASSUME Has(t, "quota") PROVE tx[t].step > 4
      OBVIOUS
    <2>1. tx[t].cmd = "claim"
      BY HasPlans
    <2> QED BY <1>1, <2>1 DEF Has, PlanOf, ClaimPlan
  <1>5. Has(t, "ownedLock") => \/ tx[t].cmd = "accept" /\ tx[t].step > 4
                               \/ tx[t].cmd = "complete" /\ tx[t].step > 2
    <2> SUFFICES ASSUME Has(t, "ownedLock")
                 PROVE  \/ tx[t].cmd = "accept" /\ tx[t].step > 4
                        \/ tx[t].cmd = "complete" /\ tx[t].step > 2
      OBVIOUS
    <2>1. CASE tx[t].cmd = "accept"
      BY <1>1, <2>1 DEF Has, PlanOf, AcceptPlan
    <2>2. CASE tx[t].cmd = "complete"
      BY <1>1, <2>2 DEF Has, PlanOf
    <2> QED BY <2>1, <2>2, HasPlans
  <1> QED BY <1>2, <1>3, <1>4, <1>5, HasPlans

\* A search is the last of its transaction but for the foreign keys.
LEMMA SearchesAreLast ==
  ASSUME Typed, NEW t \in Tx, NEW s, At(t, s), s # "commit"
  PROVE  /\ ~Has(t, "quota")
         /\ Has(t, "pick") => s = "shareActor"
         /\ Has(t, "pending") => s = "shareActor"
         /\ Has(t, "ownedLock") => s = "shareOther"
  <1>1. tx[t].step \in Nat \ {0}
    BY DEF Typed, TypeOK, Session
  <1>2. ~Has(t, "quota")
    <2> SUFFICES ASSUME Has(t, "quota") PROVE FALSE
      OBVIOUS
    <2>1. tx[t].cmd = "claim" /\ tx[t].step > 4
      BY AfterSearch
    <2> QED BY <1>1, <2>1 DEF At, Statement, PlanOf, ClaimPlan
  <1>3. Has(t, "pick") => s = "shareActor"
    <2> SUFFICES ASSUME Has(t, "pick") PROVE s = "shareActor"
      OBVIOUS
    <2>1. tx[t].cmd = "assign" /\ tx[t].step > 3
      BY AfterSearch
    <2> QED BY <1>1, <2>1 DEF At, Statement, PlanOf, AssignPlan
  <1>4. Has(t, "pending") => s = "shareActor"
    <2> SUFFICES ASSUME Has(t, "pending") PROVE s = "shareActor"
      OBVIOUS
    <2>1. CASE tx[t].cmd = "create" /\ tx[t].step > 4
      BY <1>1, <2>1 DEF At, Statement, PlanOf
    <2>2. CASE tx[t].cmd = "abandon" /\ tx[t].step > 2
      BY <1>1, <2>2 DEF At, Statement, PlanOf
    <2> QED BY <2>1, <2>2, AfterSearch
  <1>5. Has(t, "ownedLock") => s = "shareOther"
    <2> SUFFICES ASSUME Has(t, "ownedLock") PROVE s = "shareOther"
      OBVIOUS
    <2>1. CASE tx[t].cmd = "accept" /\ tx[t].step > 4
      BY <1>1, <2>1 DEF At, Statement, PlanOf, AcceptPlan
    <2>2. CASE tx[t].cmd = "complete" /\ tx[t].step > 2
      BY <1>1, <2>2 DEF At, Statement, PlanOf
    <2> QED BY <2>1, <2>2, AfterSearch
  <1> QED BY <1>2, <1>3, <1>4, <1>5

\* At its commit a command has completed its plan.
LEMMA ReadyHas ==
  ASSUME Typed, NEW t \in Tx, NEW c, Ready(t, c)
  PROVE  /\ c = "claim" => /\ Has(t, "advisory") /\ Has(t, "patch")
                           /\ Has(t, "actor") /\ Has(t, "quota")
         /\ c = "assign" => Has(t, "pick") /\ Has(t, "advisory") /\ Has(t, "shareActor")
         /\ c = "create" => Has(t, "patch") /\ Has(t, "upper") /\ Has(t, "pending")
         /\ c = "accept" => /\ Has(t, "patch") /\ Has(t, "transfer")
                            /\ Has(t, "actor") /\ Has(t, "ownedLock")
         /\ c = "cancel" => Has(t, "patch") /\ Has(t, "transfer")
         /\ c = "abandon" => Has(t, "patch") /\ Has(t, "pending")
         /\ c \in {"request", "recover", "complete"} => Has(t, "actor")
         /\ c = "complete" => Has(t, "ownedLock")
  <1>1. tx[t].cmd = c /\ tx[t].step \in Nat \ {0} /\ Statement(t) = "commit"
    BY DEF Typed, TypeOK, Session, Ready
  <1>2. tx[t].step \notin DOMAIN PlanOf(c)
    BY <1>1 DEF Statement, PlanOf, ClaimPlan, AssignPlan, AcceptPlan
  <1>3. ASSUME NEW i \in DOMAIN PlanOf(c) PROVE i < tx[t].step
    BY <1>1, <1>2 DEF PlanOf, ClaimPlan, AssignPlan, AcceptPlan
  <1>4. \A i \in DOMAIN PlanOf(c) : Has(t, PlanOf(c)[i])
    BY <1>1, <1>3 DEF Has
  <1>5. CASE c = "claim"
    BY <1>4, <1>5 DEF PlanOf, ClaimPlan
  <1>6. CASE c = "assign"
    BY <1>4, <1>6 DEF PlanOf, AssignPlan
  <1>7. CASE c = "accept"
    BY <1>4, <1>7 DEF PlanOf, AcceptPlan
  <1>8. CASE c \in {"create", "cancel", "abandon"}
    BY <1>4, <1>8 DEF PlanOf
  <1>9. CASE c \in {"request", "recover", "complete"}
    BY <1>4, <1>9 DEF PlanOf
  <1> QED BY <1>5, <1>6, <1>7, <1>8, <1>9

\* A commit writes only rows its transaction has locked, and the slot of its new offer.
Guarded(t) ==
  /\ \A p \in Patch : patches'[p] = patches[p] \/ PatchLock(p) \in tx[t].holds
  /\ \A u \in Principal : /\ principals'[u] = principals[u] \/ PrincipalLock(u) \in tx[t].holds
                          /\ quota'[u] = quota[u] \/ AdvisoryLock(u) \in tx[t].holds
  /\ \A x \in Transfer :
       /\ \/ transfers'[x] = transfers[x]
          \/ TransferLock(x) \in tx[t].holds
          \/ tx[t].cmd = "create" /\ x = tx[t].transfer
       /\ transfers[x].status # "free" =>
            transfers'[x].patch = transfers[x].patch /\ transfers'[x].status # "free"
       /\ transfers'[x].status = "pending" =>
            \/ transfers'[x] = transfers[x]
            \/ PatchLock(transfers'[x].patch) \in tx[t].holds

\* Each command of repository.ts locks the rows it writes before it writes them.
LEMMA CommitGuarded ==
  ASSUME Typed, Locking, Slots, NEW t \in Tx, Commit(t)
  PROVE  Guarded(t)
  <1>0. /\ patches \in [Patch -> Row] /\ transfers \in [Transfer -> Offer]
        /\ principals \in [Principal -> Status]
        /\ quota \in [Principal -> [attempts : Nat, claims : Nat]]
    BY DEF Typed, TypeOK
  <1>1. HoldsWhatItRead!(t)
    BY DEF Locking, HoldsWhatItRead
  <1>2. ASSUME NEW u, SetOwner(t, u) PROVE \A p \in Patch : p # tx[t].patch => patches'[p] = patches[p]
    BY <1>0, <1>2 DEF SetOwner
  <1>3. ASSUME NEW status \in {"accepted", "cancelled", "expired"}, NEW S \in SUBSET Transfer,
               \A x \in S : TransferLock(x) \in tx[t].holds /\ transfers'[x] = [transfers[x] EXCEPT !.status = status],
               \A x \in Transfer \ S : transfers'[x] = transfers[x]
        PROVE  \A x \in Transfer :
                 /\ transfers'[x] = transfers[x] \/ TransferLock(x) \in tx[t].holds
                 /\ transfers[x].status # "free" =>
                      transfers'[x].patch = transfers[x].patch /\ transfers'[x].status # "free"
                 /\ transfers'[x].status = "pending" => transfers'[x] = transfers[x]
    <2>1. \A r \in Offer : LET n == [r EXCEPT !.status = status] IN
            n.patch = r.patch /\ n.status = status
      BY DEF Offer
    <2> TAKE x \in Transfer
    <2>2. CASE x \in S
      <3>1. /\ TransferLock(x) \in tx[t].holds
            /\ transfers'[x] = [transfers[x] EXCEPT !.status = status]
        BY <1>3, <2>2
      <3>2. transfers'[x].patch = transfers[x].patch /\ transfers'[x].status = status
        BY <1>0, <2>1, <3>1
      <3> QED BY <3>1, <3>2
    <2>3. CASE x \notin S
      BY <1>3, <2>3
    <2> QED BY <2>2, <2>3
  <1>4. CASE CommitClaim(t)
    <2>1. PatchLock(tx[t].patch) \in tx[t].holds /\ AdvisoryLock(tx[t].actor) \in tx[t].holds
      BY <1>1, <1>4, ReadyHas DEF CommitClaim
    <2>2. \A p \in Patch : p # tx[t].patch => patches'[p] = patches[p]
      BY <1>2, <1>4 DEF CommitClaim
    <2>3. \A u \in Principal : u # tx[t].actor => quota'[u] = quota[u]
      BY <1>0, <1>4 DEF CommitClaim
    <2> QED BY <1>4, <2>1, <2>2, <2>3 DEF CommitClaim, Guarded
  <1>5. CASE CommitAssign(t)
    <2>1. PatchLock(tx[t].patch) \in tx[t].holds
      BY <1>1, <1>5, ReadyHas DEF CommitAssign
    <2>2. \A p \in Patch : p # tx[t].patch => patches'[p] = patches[p]
      BY <1>2, <1>5 DEF CommitAssign
    <2> QED BY <1>5, <2>1, <2>2 DEF CommitAssign, Guarded
  <1>6. CASE ReturnAssign(t)
    BY <1>6 DEF ReturnAssign, rows, Guarded
  <1>7. CASE CommitCreate(t)
    <2>1. PatchLock(tx[t].patch) \in tx[t].holds /\ tx[t].cmd = "create"
          /\ tx[t].transfer \in Transfer /\ transfers[tx[t].transfer].status = "free"
      BY <1>1, <1>7, ReadyHas, ReadyTyped DEF CommitCreate, OnTransfer, Slots
    <2> DEFINE new == [status |-> "pending", patch |-> tx[t].patch,
                       sender |-> tx[t].actor, recipient |-> tx[t].other]
    <2>2. new.patch = tx[t].patch /\ new.status = "pending"
      OBVIOUS
    <2>3. transfers' = [transfers EXCEPT ![tx[t].transfer] = new] \/ transfers' = transfers
      BY <1>7 DEF CommitCreate
    <2>4. UNCHANGED <<patches, principals, quota>>
      BY <1>7 DEF CommitCreate
    <2> HIDE DEF new
    <2> QED BY <1>0, <2>1, <2>2, <2>3, <2>4 DEF Guarded
  <1>8. CASE CommitAccept(t)
    <2>1. PatchLock(tx[t].patch) \in tx[t].holds /\ TransferLock(tx[t].transfer) \in tx[t].holds
          /\ tx[t].transfer \in Transfer
      BY <1>1, <1>8, ReadyHas, ReadyTyped DEF CommitAccept, OnTransfer
    <2>2. \A p \in Patch : p # tx[t].patch => patches'[p] = patches[p]
      BY <1>2, <1>8 DEF CommitAccept
    <2>3. \/ transfers' = transfers
          \/ transfers' = [transfers EXCEPT ![tx[t].transfer].status = "accepted"]
      BY <1>8 DEF CommitAccept
    <2>4. CASE transfers' = transfers
      BY <1>8, <2>1, <2>2, <2>4 DEF CommitAccept, Guarded
    <2>5. CASE transfers' = [transfers EXCEPT ![tx[t].transfer].status = "accepted"]
      <3>1. /\ \A x \in {tx[t].transfer} : TransferLock(x) \in tx[t].holds
                                    /\ transfers'[x] = [transfers[x] EXCEPT !.status = "accepted"]
            /\ \A x \in Transfer \ {tx[t].transfer} : transfers'[x] = transfers[x]
        BY <1>0, <2>1, <2>5
      <3>2. {tx[t].transfer} \in SUBSET Transfer
        BY <2>1
      <3>3. UNCHANGED <<principals, quota>>
        BY <1>8 DEF CommitAccept
      <3> QED BY <1>3, <2>1, <2>2, <3>1, <3>2, <3>3 DEF Guarded
    <2> QED BY <2>3, <2>4, <2>5
  <1>9. CASE CommitCancel(t)
    <2>1. TransferLock(tx[t].transfer) \in tx[t].holds /\ tx[t].transfer \in Transfer
      BY <1>1, <1>9, ReadyHas, ReadyTyped DEF CommitCancel, OnTransfer
    <2>2. UNCHANGED <<patches, principals, quota>>
      BY <1>9 DEF CommitCancel
    <2>3. \/ transfers' = transfers
          \/ transfers' = [transfers EXCEPT ![tx[t].transfer].status = "cancelled"]
      BY <1>9 DEF CommitCancel
    <2>4. CASE transfers' = transfers
      BY <2>2, <2>4 DEF Guarded
    <2>5. CASE transfers' = [transfers EXCEPT ![tx[t].transfer].status = "cancelled"]
      <3>1. /\ \A x \in {tx[t].transfer} : TransferLock(x) \in tx[t].holds
                                    /\ transfers'[x] = [transfers[x] EXCEPT !.status = "cancelled"]
            /\ \A x \in Transfer \ {tx[t].transfer} : transfers'[x] = transfers[x]
        BY <1>0, <2>1, <2>5
      <3>2. {tx[t].transfer} \in SUBSET Transfer
        BY <2>1
      <3> QED BY <1>3, <2>2, <3>1, <3>2 DEF Guarded
    <2> QED BY <2>3, <2>4, <2>5
  <1>10. CASE CommitAbandon(t)
    <2>1. PatchLock(tx[t].patch) \in tx[t].holds
      BY <1>1, <1>10, ReadyHas DEF CommitAbandon
    <2>2. \A p \in Patch : p # tx[t].patch => patches'[p] = patches[p]
      BY <1>2, <1>10 DEF CommitAbandon
    <2> QED BY <1>10, <2>1, <2>2 DEF CommitAbandon, Guarded
  <1>11. CASE CommitExpire(t)
    <2> DEFINE S == {x \in Transfer : TransferLock(x) \in tx[t].holds}
    <2>1. /\ \A x \in S : TransferLock(x) \in tx[t].holds
                          /\ transfers'[x] = [transfers[x] EXCEPT !.status = "expired"]
          /\ \A x \in Transfer \ S : transfers'[x] = transfers[x]
      BY <1>11 DEF CommitExpire, LockedTransfers
    <2>2. UNCHANGED <<patches, principals, quota>> /\ S \in SUBSET Transfer
      BY <1>11 DEF CommitExpire
    <2> HIDE DEF S
    <2> QED BY <1>3, <2>1, <2>2 DEF Guarded
  <1>12. CASE CommitRequest(t) \/ CommitRecover(t) \/ CommitComplete(t)
    <2>1. PrincipalLock(tx[t].actor) \in tx[t].holds
      BY <1>1, <1>12, ReadyHas DEF CommitRequest, CommitRecover, CommitComplete
    <2>2. \A u \in Principal : u # tx[t].actor => principals'[u] = principals[u]
      BY <1>0, <1>12 DEF CommitRequest, CommitRecover, CommitComplete, SetStatus
    <2>3. UNCHANGED <<patches, transfers, quota>>
      BY <1>12 DEF CommitRequest, CommitRecover, CommitComplete, SetStatus
    <2> QED BY <2>1, <2>2, <2>3 DEF Guarded
  <1> QED BY <1>4, <1>5, <1>6, <1>7, <1>8, <1>9, <1>10, <1>11, <1>12 DEF Commit

\* The windows only let attempts and successes fall out.
LEMMA ClockSerial ==
  ASSUME Typed, Serial, Clock
  PROVE  Serial'
  <1>1. UNCHANGED <<patches, members, transfers, principals, tx>>
    BY DEF Clock, TransferFallsDue, RecoveryWindowEnds, AttemptWindowEnds, ClaimWindowEnds, rows
  <1>2. \A u \in Principal : WithinQuota(u) => WithinQuota(u)'
    <2>1. quota \in [Principal -> [attempts : Nat, claims : Nat]] /\ AttemptLimit \in Nat
      BY OwnershipAssumption DEF Typed, TypeOK
    <2>2. CASE \E u \in Principal : AttemptWindowEnds(u) \/ ClaimWindowEnds(u)
      BY <2>1, <2>2 DEF AttemptWindowEnds, ClaimWindowEnds, WithinQuota
    <2>3. CASE quota' = quota
      BY <2>3 DEF WithinQuota
    <2> QED BY <2>2, <2>3 DEF Clock, TransferFallsDue, RecoveryWindowEnds, rows
  <1>3. \A t \in Tx : Has(t, "quota") => tx[t].actor \in Principal
    BY HasPlans DEF Typed, Parameters, ByPrincipal
  <1>4. Slots' /\ LockedReadsAreCurrent'
    BY <1>1 DEF Serial, Slots, LockedReadsAreCurrent, Has
  <1>5. ScansAreCurrent'
    BY <1>1, <1>2, <1>3 DEF Serial, ScansAreCurrent, PendingFor, Has
  <1> QED BY <1>4, <1>5 DEF Serial

\* A new transaction has read nothing; an offer takes a slot nobody names.
LEMMA BeginSerial ==
  ASSUME Typed, Serial, NEW t \in Tx, Begin(t)
  PROVE  Serial'
  <1>1. PICK c, u, v, p, x : Start(t, c, u, v, p, x) /\ Requested(c, u, v, p, x)
    BY BeginShape
  <1>2. PICK r : /\ tx' = [tx EXCEPT ![t] = r] /\ r.step = 1 /\ r.cmd = c
                 /\ r.actor = u /\ r.other = v /\ r.patch = p /\ r.transfer = x
    BY <1>1, StartShape
  <1>3. UNCHANGED <<patches, transfers, principals, quota>>
    BY <1>1 DEF Start, rows
  <1>4. \A o \in Tx : tx'[o] = IF o = t THEN r ELSE tx[o]
    BY <1>2 DEF Typed, TypeOK
  <1>5. Slots'
    <2> SUFFICES ASSUME NEW o \in Tx PROVE Slots!(o)'
      BY DEF Slots
    <2>1. CASE o = t
      BY <1>1, <1>2, <1>3, <1>4, <2>1 DEF Requested
    <2>2. CASE o # t
      <3>1. Slots!(o)
        BY DEF Serial, Slots
      <3>2. tx[o].cmd = "create" => tx[o].transfer \in Transfer /\ tx[o].transfer # x
        BY <1>1, <3>1, OwnershipAssumption DEF Requested, Typed, Parameters, OnTransfer
      <3> QED BY <1>2, <1>3, <1>4, <2>2, <3>1, <3>2
    <2> QED BY <2>1, <2>2
  <1>6. ASSUME NEW o \in Tx
        PROVE  LockedReadsAreCurrent!(o)' /\ ScansAreCurrent!(o)'
    <2>1. CASE o = t
      BY <1>2, <1>4, <2>1, FreshHas
    <2>2. CASE o # t
      BY <1>3, <1>4, <2>2, SameHas
         DEF Serial, LockedReadsAreCurrent, ScansAreCurrent, PendingFor, WithinQuota
    <2> QED BY <2>1, <2>2
  <1> QED BY <1>5, <1>6 DEF Serial, LockedReadsAreCurrent, ScansAreCurrent

\* A statement copies the committed rows.
LEMMA ReadSerial ==
  ASSUME Typed, Serial, NEW t \in Tx, Read(t)
  PROVE  Serial'
  <1>1. PICK s, session, picked : Reads(t, s, session, picked)
    BY ReadShape
  <1> DEFINE new == [session EXCEPT !.step = @ + 1, !.holds = @ \cup Exclusive(t),
                                    !.shares = @ \cup Shared(t)]
  <1>2. /\ At(t, s) /\ s # "commit" /\ tx' = [tx EXCEPT ![t] = new]
        /\ UNCHANGED <<patches, transfers, principals, quota>>
    BY <1>1 DEF Execute, Reads, rows
  <1>3. /\ new.cmd = tx[t].cmd /\ new.actor = tx[t].actor /\ new.other = tx[t].other
        /\ new.transfer = tx[t].transfer /\ new.step = tx[t].step + 1
        /\ new.patch = session.patch /\ new.row = session.row /\ new.offer = session.offer
        /\ new.standing = session.standing /\ new.blocked = session.blocked
    BY <1>1 DEF Session, Reads
  <1> HIDE DEF new
  <1>4. \A o \in Tx : tx'[o] = IF o = t THEN new ELSE tx[o]
    BY <1>2 DEF Typed, TypeOK
  <1>5. tx[t].step \in Nat \ {0} /\ tx[t].cmd \in Commands \cup {"idle"}
    BY DEF Typed, TypeOK, Session
  <1>6. \A r : Has(t, r)' <=> Has(t, r) \/ r = s
    BY <1>2, <1>3, <1>4, <1>5, ExecuteHas
  <1>7. s = "pick" => tx[t].cmd = "assign"
    BY <1>2, <1>5, Plans
  <1>8. Slots'
    BY <1>1, <1>2, <1>3, <1>4, <1>7 DEF Serial, Slots, Reads
  <1>9. ASSUME NEW o \in Tx, o # t
        PROVE  LockedReadsAreCurrent!(o)' /\ ScansAreCurrent!(o)'
    BY <1>2, <1>4, <1>9, SameHas
       DEF Serial, LockedReadsAreCurrent, ScansAreCurrent, PendingFor, WithinQuota
  <1>10. LockedReadsAreCurrent!(t)'
    <2>1. LockedReadsAreCurrent!(t)
      BY DEF Serial, LockedReadsAreCurrent
    <2>2. s = "pick" => ~Has(t, "patch")
      BY <1>7, HasPlans DEF OnPatch
    <2>3. Has(t, "upper") => s # "actor"
      BY <1>2, <1>5, HasPlans DEF At, Statement, PlanOf
    <2>4. s \in {"lower", "upper"} => ~Has(t, "actor")
      BY <1>2, <1>5, HasPlans, Plans
    <2>5. Has(t, "patch") \/ Has(t, "pick") \/ s \in {"patch", "pick"}
            => new.row = patches[new.patch]
      BY <1>1, <1>3, <2>1, <2>2 DEF Reads
    <2>6. Has(t, "transfer") \/ s = "transfer" => new.offer = transfers[new.transfer]
      BY <1>1, <1>3, <2>1 DEF Reads
    <2>7. Has(t, "actor") \/ s = "actor" => new.standing = principals[new.actor]
      BY <1>1, <1>3, <2>1, <2>4 DEF Reads
    <2>8. Has(t, "upper") \/ s = "upper" => new.standing = principals[new.other]
      BY <1>1, <1>3, <2>1, <2>3 DEF Reads
    <2> QED BY <1>2, <1>4, <1>6, <2>5, <2>6, <2>7, <2>8
  <1>11. ScansAreCurrent!(t)'
    <2>1. ScansAreCurrent!(t)
      BY DEF Serial, ScansAreCurrent
    <2>2. Has(t, "pick") => s \notin {"patch", "pick"}
      BY <1>2, <1>5, SearchesAreLast
    <2>3. Has(t, "pending") => s \notin {"owned", "quota", "ownedLock", "pending", "pick"}
      BY <1>2, <1>5, SearchesAreLast
    <2>4. Has(t, "quota") => s \notin {"owned", "quota", "ownedLock", "pending"}
      BY <1>2, <1>5, SearchesAreLast
    <2>5. Has(t, "pick") \/ s = "pick" => new.row.owner = NoOne
      BY <1>1, <1>3, <2>1, <2>2 DEF Reads
    <2>6. (Has(t, "pending") \/ s = "pending") /\ ~new.blocked => PendingFor(new.patch) = {}
      BY <1>1, <1>3, <2>1, <2>3 DEF Reads
    <2>7. (Has(t, "quota") \/ s = "quota") /\ ~new.blocked => WithinQuota(new.actor)
      BY <1>1, <1>3, <2>1, <2>4 DEF Reads
    <2> QED BY <1>2, <1>4, <1>6, <2>5, <2>6, <2>7 DEF PendingFor, WithinQuota
  <1> QED BY <1>8, <1>9, <1>10, <1>11 DEF Serial, LockedReadsAreCurrent, ScansAreCurrent

\* A commit or a rollback leaves every row another transaction has locked.
LEMMA EndSerial ==
  ASSUME Typed, Locking, Serial, NEW t \in Tx, Guarded(t), tx' = [tx EXCEPT ![t] = Idle]
  PROVE  Serial'
  <1>1. \A o \in Tx : tx'[o] = IF o = t THEN Idle ELSE tx[o]
    BY DEF Typed, TypeOK
  <1>2. Idle.step = 1 /\ Idle.cmd = "idle" /\ Idle.transfer = NoTransfer
    BY DEF Idle
  <1>3. Slots'
    <2> SUFFICES ASSUME NEW o \in Tx, o # t PROVE Slots!(o)'
      BY <1>1, <1>2 DEF Slots
    <2>1. Slots!(o) /\ tx'[o] = tx[o]
      BY <1>1 DEF Serial, Slots
    <2>2. CASE tx[o].cmd = "create"
      <3>1. tx[o].transfer \in Transfer /\ transfers[tx[o].transfer].status = "free"
            /\ \A i \in Tx \ {o} : tx[i].transfer # tx[o].transfer
        BY <2>1, <2>2 DEF Typed, Parameters, OnTransfer
      <3>2. TransferLock(tx[o].transfer) \notin tx[t].holds
        BY <3>1 DEF Typed, Parameters
      <3>3. transfers'[tx[o].transfer] = transfers[tx[o].transfer]
        BY <3>1, <3>2 DEF Guarded
      <3>4. NoTransfer # tx[o].transfer
        BY <3>1, OwnershipAssumption
      <3> QED BY <1>1, <1>2, <2>1, <2>2, <3>1, <3>3, <3>4
    <2>3. CASE tx[o].cmd \in {"accept", "cancel"}
      <3>1. tx[o].transfer \in Transfer /\ transfers[tx[o].transfer].status # "free"
        BY <2>3 DEF Typed, Parameters, OnTransfer
      <3> QED BY <2>1, <2>3, <3>1 DEF Guarded
    <2>4. CASE tx[o].cmd \notin {"create", "accept", "cancel"}
      BY <2>1, <2>4
    <2> QED BY <2>2, <2>3, <2>4
  <1>4. ASSUME NEW o \in Tx, o # t
        PROVE  LockedReadsAreCurrent!(o)' /\ ScansAreCurrent!(o)'
    <2>1. LockedReadsAreCurrent!(o) /\ ScansAreCurrent!(o) /\ HoldsWhatItRead!(o)
          /\ tx'[o] = tx[o] /\ \A s : Has(o, s)' <=> Has(o, s)
      BY <1>1, <1>4, SameHas
         DEF Serial, LockedReadsAreCurrent, ScansAreCurrent, Locking, HoldsWhatItRead
    <2>2. tx[t].holds \cap tx[o].holds = {}
      BY <1>4 DEF Locking, Exclusion
    <2>3. Has(o, "patch") \/ Has(o, "pick") => patches'[tx[o].patch] = patches[tx[o].patch]
      <3>1. ASSUME Has(o, "patch") \/ Has(o, "pick") PROVE tx[o].patch \in Patch
        <4>1. CASE Has(o, "patch")
          BY <4>1, HasPlans DEF Typed, Parameters
        <4>2. CASE Has(o, "pick")
          <5>1. tx[o].cmd = "assign" /\ tx[o].step > 3
            BY <4>2, AfterSearch
          <5> QED BY <5>1 DEF Typed, Parameters
        <4> QED BY <3>1, <4>1, <4>2
      <3> QED BY <2>1, <2>2, <3>1 DEF Guarded
    <2>4. Has(o, "transfer") => transfers'[tx[o].transfer] = transfers[tx[o].transfer]
      <3> SUFFICES ASSUME Has(o, "transfer")
                   PROVE  transfers'[tx[o].transfer] = transfers[tx[o].transfer]
        OBVIOUS
      <3>1. tx[o].transfer \in Transfer /\ transfers[tx[o].transfer].status # "free"
        BY HasPlans DEF Typed, Parameters, OnTransfer
      <3>2. tx[t].cmd = "create" => transfers[tx[t].transfer].status = "free"
        BY DEF Serial, Slots
      <3> QED BY <2>1, <2>2, <3>1, <3>2 DEF Guarded
    <2>5. Has(o, "actor") => principals'[tx[o].actor] = principals[tx[o].actor]
      <3>1. Has(o, "actor") => tx[o].actor \in Principal
        BY HasPlans DEF Typed, Parameters
      <3> QED BY <2>1, <2>2, <3>1 DEF Guarded
    <2>6. Has(o, "upper") => principals'[tx[o].other] = principals[tx[o].other]
      <3> SUFFICES ASSUME Has(o, "upper")
                   PROVE  principals'[tx[o].other] = principals[tx[o].other]
        OBVIOUS
      <3>1. /\ tx[o].cmd = "create" /\ Has(o, "lower")
            /\ tx[o].actor \in Principal /\ tx[o].other \in Principal
        BY HasPlans DEF Typed, Parameters, OnTransfer, ByPrincipal
      <3>2. tx[o].other \in {Lower(tx[o].actor, tx[o].other), Upper(tx[o].actor, tx[o].other)}
        BY <3>1, OwnershipAssumption DEF Lower, Upper
      <3>3. PrincipalLock(tx[o].other) \in tx[o].holds
        BY <2>1, <3>1, <3>2
      <3> QED BY <2>2, <3>1, <3>3 DEF Guarded
    <2>7. Has(o, "pending") => PendingFor(tx[o].patch)' \subseteq PendingFor(tx[o].patch)
      <3> SUFFICES ASSUME Has(o, "pending"), NEW x \in Transfer,
                          transfers'[x].status = "pending", transfers'[x].patch = tx[o].patch
                   PROVE  transfers[x].status = "pending" /\ transfers[x].patch = tx[o].patch
        BY <2>1 DEF PendingFor
      <3>1. PatchLock(tx[o].patch) \in tx[o].holds
        BY <2>1, HasPlans
      <3> QED BY <2>2, <3>1 DEF Guarded
    <2>8. Has(o, "quota") => quota'[tx[o].actor] = quota[tx[o].actor]
      <3>1. Has(o, "quota") => tx[o].actor \in Principal /\ Has(o, "advisory")
        BY HasPlans DEF Typed, Parameters, ByPrincipal
      <3> QED BY <2>1, <2>2, <3>1 DEF Guarded
    <2>9. LockedReadsAreCurrent!(o)'
      BY <2>1, <2>3, <2>4, <2>5, <2>6
    <2>10. ScansAreCurrent!(o)'
      BY <2>1, <2>7, <2>8 DEF WithinQuota
    <2> QED BY <2>9, <2>10
  <1>5. LockedReadsAreCurrent!(t)' /\ ScansAreCurrent!(t)'
    BY <1>1, <1>2, FreshHas
  <1> QED BY <1>3, <1>4, <1>5 DEF Serial, LockedReadsAreCurrent, ScansAreCurrent

\* Every step keeps what the other transactions have read true.
LEMMA StepSerial == Typed /\ Locking /\ Serial /\ [Next]_vars => Serial'
  <1> SUFFICES ASSUME Typed, Locking, Serial, [Next]_vars PROVE Serial'
    OBVIOUS
  <1>1. CASE UNCHANGED vars
    BY <1>1 DEF vars, rows, Serial, Slots, LockedReadsAreCurrent, ScansAreCurrent, PendingFor,
                WithinQuota, Has
  <1>2. ASSUME NEW t \in Tx, Commit(t) PROVE Serial'
    BY <1>2, CommitGuarded, EndShape, EndSerial DEF Serial
  <1>3. ASSUME NEW t \in Tx, Abort(t) PROVE Serial'
    <2>1. Guarded(t)
      BY <1>3 DEF Abort, rows, Guarded
    <2> QED BY <1>3, <2>1, EndShape, EndSerial
  <1> QED BY <1>1, <1>2, <1>3, ClockSerial, BeginSerial, ReadSerial DEF Next

\* Nothing has been read initially.
LEMMA InitSerial == Init => Serial
  <1> SUFFICES ASSUME Init, NEW t \in Tx PROVE tx[t].cmd = "idle" /\ \A s : ~Has(t, s)
    BY DEF Serial, Slots, LockedReadsAreCurrent, ScansAreCurrent
  <1>1. tx[t].cmd = "idle" /\ tx[t].step = 1
    BY DEF Init, Idle
  <1> QED BY <1>1, PlanDomains DEF Has

\* The invariant of the transactions.
Transactional == Typed /\ Locking /\ Serial

\* The transactions are well formed, locked and serial in every reachable state.
LEMMA TransactionalAlways == Spec => []Transactional
  <1>1. Init => Transactional
    BY InitTyped, InitLocking, InitSerial DEF Transactional
  <1>2. Transactional /\ [Next]_vars => Transactional'
    BY StepTyped, StepLocking, StepSerial DEF Transactional
  <1> QED BY <1>1, <1>2, PTL DEF Spec

\* No command of repository.ts decides on a row that another command has changed since
\* it was read FOR UPDATE: no ownership update is lost, for any number of connections.
THEOREM ReadsStayCurrent == Spec => []LockedReadsAreCurrent
  <1>1. Transactional => LockedReadsAreCurrent
    BY DEF Transactional, Serial
  <1> QED BY <1>1, TransactionalAlways, PTL

-----------------------------------------------------------------------------
(* What each commit does to the committed tables. *)

Takes(p, u) ==
  /\ patches[p].owner = NoOne
  /\ patches' = [patches EXCEPT ![p] = [owner |-> u, revision |-> patches[p].revision + 1]]
  /\ members' = [members EXCEPT ![p] = @ \cup {u}]
  /\ UNCHANGED transfers

Offers(x, p, u, v) ==
  /\ transfers[x].status = "free" /\ patches[p].owner = u /\ PendingFor(p) = {} /\ u # v
  /\ transfers' = [transfers EXCEPT ![x] =
                     [status |-> "pending", patch |-> p, sender |-> u, recipient |-> v]]
  /\ UNCHANGED <<patches, members>>

HandsOver(x) ==
  LET p == transfers[x].patch IN
  /\ transfers[x].status = "pending" /\ patches[p].owner = transfers[x].sender
  /\ patches' = [patches EXCEPT ![p] = [owner |-> transfers[x].recipient,
                                        revision |-> patches[p].revision + 1]]
  /\ members' = [members EXCEPT ![p] = SwapMember(@, transfers[x].sender, transfers[x].recipient)]
  /\ transfers' = [transfers EXCEPT ![x].status = "accepted"]

Closes(S) ==
  /\ \A x \in S : transfers'[x].status \notin {"free", "pending"} /\ transfers[x].status # "free"
                    /\ transfers'[x].patch = transfers[x].patch
                    /\ transfers'[x].sender = transfers[x].sender
                    /\ transfers'[x].recipient = transfers[x].recipient
  /\ \A x \in Transfer \ S : transfers'[x] = transfers[x]
  /\ UNCHANGED <<patches, members>>

Leaves(p, u) ==
  /\ patches[p].owner = u /\ PendingFor(p) = {}
  /\ patches' = [patches EXCEPT ![p] = [owner |-> NoOne, revision |-> patches[p].revision + 1]]
  /\ members' = [members EXCEPT ![p] = @ \ {u}]
  /\ UNCHANGED transfers

Effect ==
  \/ \E p \in Patch, u \in Principal : Takes(p, u)
  \/ \E x \in Transfer, p \in Patch, u, v \in Principal : Offers(x, p, u, v)
  \/ \E x \in Transfer : HandsOver(x)
  \/ \E S \in SUBSET Transfer : Closes(S)
  \/ \E p \in Patch, u \in Principal : Leaves(p, u)
  \/ UNCHANGED <<patches, members, transfers>>

\* Although the guards of a commit look at copies, it does to the committed rows what
\* the same command run alone would do.
LEMMA CommitEffect ==
  ASSUME Transactional, NEW t \in Tx, Commit(t)
  PROVE  Effect
  <1>0. Typed /\ transfers \in [Transfer -> Offer]
    BY DEF Transactional, Typed, TypeOK
  <1>1. LockedReadsAreCurrent!(t) /\ ScansAreCurrent!(t) /\ Slots!(t)
    BY DEF Transactional, Serial, LockedReadsAreCurrent, ScansAreCurrent, Slots
  <1>2. CASE CommitClaim(t)
    <2>1. /\ tx[t].row = patches[tx[t].patch]
          /\ tx[t].patch \in Patch /\ tx[t].actor \in Principal
      BY <1>0, <1>1, <1>2, ReadyHas, ReadyTyped DEF CommitClaim, ByPrincipal, OnPatch
    <2>2. Takes(tx[t].patch, tx[t].actor) \/ UNCHANGED <<patches, members, transfers>>
      BY <1>2, <2>1 DEF CommitClaim, ClaimAllowed, SetOwner, Takes
    <2> QED BY <2>1, <2>2 DEF Effect
  <1>3. CASE CommitAssign(t)
    <2>1. /\ tx[t].row = patches[tx[t].patch] /\ tx[t].row.owner = NoOne
          /\ tx[t].patch \in Patch /\ tx[t].actor \in Principal
      BY <1>0, <1>1, <1>3, ReadyHas, ReadyTyped DEF CommitAssign, ByPrincipal, OnPatch
    <2>2. Takes(tx[t].patch, tx[t].actor)
      BY <1>3, <2>1 DEF CommitAssign, SetOwner, Takes
    <2> QED BY <2>1, <2>2 DEF Effect
  <1>4. CASE ReturnAssign(t)
    BY <1>4 DEF ReturnAssign, rows, Effect
  <1>5. CASE CommitCreate(t)
    <2>1. /\ tx[t].row = patches[tx[t].patch] /\ tx[t].transfer \in Transfer
          /\ tx[t].patch \in Patch /\ tx[t].actor \in Principal /\ tx[t].other \in Principal
          /\ ~tx[t].blocked => PendingFor(tx[t].patch) = {}
          /\ transfers[tx[t].transfer].status = "free" /\ tx[t].actor # tx[t].other
      BY <1>0, <1>1, <1>5, ReadyHas, ReadyTyped DEF CommitCreate, ByPrincipal, OnPatch, OnTransfer
    <2>2. \/ Offers(tx[t].transfer, tx[t].patch, tx[t].actor, tx[t].other)
          \/ UNCHANGED <<patches, members, transfers>>
      BY <1>5, <2>1 DEF CommitCreate, CreateAllowed, Offers
    <2> QED BY <2>1, <2>2 DEF Effect
  <1>6. CASE CommitAccept(t)
    <2>1. /\ tx[t].row = patches[tx[t].patch] /\ tx[t].transfer \in Transfer
          /\ tx[t].offer = transfers[tx[t].transfer]
          /\ transfers[tx[t].transfer].patch = tx[t].patch
      BY <1>0, <1>1, <1>6, ReadyHas, ReadyTyped DEF CommitAccept, OnTransfer
    <2>2. HandsOver(tx[t].transfer) \/ UNCHANGED <<patches, members, transfers>>
      BY <1>6, <2>1 DEF CommitAccept, AcceptAllowed, SetOwner, HandsOver
    <2> QED BY <2>1, <2>2 DEF Effect
  <1>7. \A r \in Offer, status \in {"cancelled", "expired"} :
          LET n == [r EXCEPT !.status = status] IN
          /\ n.status = status /\ n.patch = r.patch
          /\ n.sender = r.sender /\ n.recipient = r.recipient
    BY DEF Offer
  <1>8. CASE CommitCancel(t)
    <2>1. tx[t].transfer \in Transfer /\ transfers[tx[t].transfer].status # "free"
      BY <1>0, <1>8, ReadyTyped DEF CommitCancel, OnTransfer
    <2>2. CASE UNCHANGED transfers
      BY <1>8, <2>2 DEF CommitCancel, Effect
    <2>3. CASE transfers' = [transfers EXCEPT ![tx[t].transfer].status = "cancelled"]
      <3>1. Closes({tx[t].transfer})
        <4>1. /\ transfers'[tx[t].transfer] = [transfers[tx[t].transfer] EXCEPT !.status = "cancelled"]
              /\ \A x \in Transfer \ {tx[t].transfer} : transfers'[x] = transfers[x]
              /\ UNCHANGED <<patches, members>>
          BY <1>0, <1>8, <2>1, <2>3 DEF CommitCancel
        <4>2. /\ transfers'[tx[t].transfer].status = "cancelled"
              /\ transfers'[tx[t].transfer].patch = transfers[tx[t].transfer].patch
              /\ transfers'[tx[t].transfer].sender = transfers[tx[t].transfer].sender
              /\ transfers'[tx[t].transfer].recipient = transfers[tx[t].transfer].recipient
          BY <1>0, <1>7, <2>1, <4>1
        <4> QED BY <2>1, <4>1, <4>2 DEF Closes
      <3>2. {tx[t].transfer} \in SUBSET Transfer
        BY <2>1
      <3> QED BY <3>1, <3>2 DEF Effect
    <2> QED BY <1>8, <2>2, <2>3 DEF CommitCancel
  <1>9. CASE CommitAbandon(t)
    <2>1. /\ tx[t].row = patches[tx[t].patch]
          /\ tx[t].patch \in Patch /\ tx[t].actor \in Principal
          /\ ~tx[t].blocked => PendingFor(tx[t].patch) = {}
      BY <1>0, <1>1, <1>9, ReadyHas, ReadyTyped DEF CommitAbandon, ByPrincipal, OnPatch
    <2>2. Leaves(tx[t].patch, tx[t].actor) \/ UNCHANGED <<patches, members, transfers>>
      BY <1>9, <2>1 DEF CommitAbandon, AbandonAllowed, SetOwner, Leaves
    <2> QED BY <2>1, <2>2 DEF Effect
  <1>10. CASE CommitExpire(t)
    <2> DEFINE S == {x \in Transfer : TransferLock(x) \in tx[t].holds}
    <2>1. /\ \A x \in S : transfers'[x] = [transfers[x] EXCEPT !.status = "expired"]
          /\ \A x \in Transfer \ S : transfers'[x] = transfers[x]
          /\ \A x \in S : x \in Transfer /\ transfers[x].status # "free"
          /\ UNCHANGED <<patches, members>>
      BY <1>0, <1>10 DEF CommitExpire, LockedTransfers, Typed, Parameters
    <2>2. S \in SUBSET Transfer
      OBVIOUS
    <2> HIDE DEF S
    <2>3. \A x \in S : /\ transfers'[x].status = "expired"
                       /\ transfers'[x].patch = transfers[x].patch
                       /\ transfers'[x].sender = transfers[x].sender
                       /\ transfers'[x].recipient = transfers[x].recipient
      <3> TAKE x \in S
      <3>1. transfers[x] \in Offer /\ transfers'[x] = [transfers[x] EXCEPT !.status = "expired"]
        BY <1>0, <2>1
      <3> QED BY <1>7, <3>1
    <2>4. Closes(S)
      BY <2>1, <2>3 DEF Closes
    <2> QED BY <2>2, <2>4 DEF Effect
  <1>11. CASE CommitRequest(t) \/ CommitRecover(t) \/ CommitComplete(t)
    BY <1>11 DEF CommitRequest, CommitRecover, CommitComplete, SetStatus, Effect
  <1> QED BY <1>2, <1>3, <1>4, <1>5, <1>6, <1>8, <1>9, <1>10, <1>11 DEF Commit

\* Only commits change the tables.
LEMMA StepEffect ==
  ASSUME Transactional, [Next]_vars
  PROVE  Effect
  <1>1. ASSUME NEW t \in Tx, Begin(t) PROVE UNCHANGED rows
    BY <1>1, BeginShape DEF Start
  <1>2. ASSUME NEW t \in Tx, Read(t) PROVE UNCHANGED rows
    <2>1. \E s, session, picked : Reads(t, s, session, picked)
      BY <1>2, ReadShape DEF Transactional
    <2> QED BY <2>1 DEF Reads, Execute
  <1>3. CASE Clock \/ UNCHANGED vars
    BY <1>3 DEF Clock, TransferFallsDue, RecoveryWindowEnds, AttemptWindowEnds, ClaimWindowEnds,
                vars, rows, Effect
  <1> QED BY <1>1, <1>2, <1>3, CommitEffect DEF Next, Abort, rows, Effect

-----------------------------------------------------------------------------
(* Ownership, memberships and offers agree. *)

\* pending_ownership_transfers_distinct_principals_check
DistinctParties ==
  \A x \in Transfer : transfers[x].status # "free" =>
    transfers[x].sender # transfers[x].recipient

Tables == OffersComeFromTheOwner /\ MembersAreOwners /\ DistinctParties

\* Each effect keeps owners, memberships and offers in agreement.
LEMMA EffectTables ==
  ASSUME Typed, Tables, Effect
  PROVE  Tables'
  <1>0. /\ patches \in [Patch -> Row] /\ members \in [Patch -> SUBSET Principal]
        /\ transfers \in [Transfer -> Offer] /\ NamedTransfers /\ NoOne \notin Principal
    BY OwnershipAssumption DEF Typed, TypeOK
  <1>1. ASSUME NEW p \in Patch, NEW u \in Principal, Takes(p, u) PROVE Tables'
    <2>1. /\ patches'[p].owner = u /\ members'[p] = members[p] \cup {u} /\ patches[p].owner = NoOne
          /\ \A q \in Patch \ {p} : patches'[q] = patches[q] /\ members'[q] = members[q]
          /\ transfers' = transfers
      BY <1>0, <1>1 DEF Takes
    <2>2. \A x \in Transfer : transfers[x].status = "pending" => transfers[x].patch # p
      BY <1>0, <2>1 DEF Tables, OffersComeFromTheOwner, NamedTransfers
    <2>3. OffersComeFromTheOwner' /\ DistinctParties'
      BY <1>0, <2>1, <2>2
         DEF Tables, OffersComeFromTheOwner, DistinctParties, NamedTransfers, PendingFor
    <2>4. MembersAreOwners'
      BY <1>0, <2>1 DEF Tables, MembersAreOwners
    <2> QED BY <2>3, <2>4 DEF Tables
  <1>2. ASSUME NEW x \in Transfer, NEW p \in Patch, NEW u \in Principal, NEW v \in Principal,
               Offers(x, p, u, v)
        PROVE  Tables'
    <2>1. /\ transfers'[x].status = "pending" /\ transfers'[x].patch = p
          /\ transfers'[x].sender = u /\ transfers'[x].recipient = v
          /\ \A y \in Transfer \ {x} : transfers'[y] = transfers[y]
      BY <1>0, <1>2 DEF Offers
    <2>2. patches' = patches /\ members' = members /\ patches[p].owner = u
          /\ PendingFor(p) = {} /\ u # v /\ transfers[x].status = "free"
      BY <1>2 DEF Offers
    <2>3. OffersComeFromTheOwner'
      <3> SUFFICES ASSUME NEW y \in Transfer, transfers'[y].status = "pending"
                   PROVE  /\ transfers'[y].sender = patches'[transfers'[y].patch].owner
                          /\ PendingFor(transfers[y].patch)' = {y}
        BY DEF OffersComeFromTheOwner
      <3>1. PendingFor(p)' = {x}
        <4>1. \A z \in Transfer : transfers'[z].status = "pending" /\ transfers'[z].patch = p
                                <=> z = x
          BY <2>1, <2>2 DEF PendingFor
        <4> QED BY <4>1 DEF PendingFor
      <3>2. CASE y = x
        <4>1. transfers'[y].patch = p /\ PendingFor(transfers[y].patch)' = PendingFor(p)'
          BY <2>1, <3>2
        <4> QED BY <2>1, <2>2, <3>1, <3>2, <4>1
      <3>3. CASE y # x
        <4>1. transfers'[y] = transfers[y] /\ transfers[y].patch # p
          BY <2>1, <2>2, <3>3 DEF PendingFor
        <4>2. PendingFor(transfers[y].patch) = {y} /\ transfers[y].sender = patches[transfers[y].patch].owner
          BY <4>1 DEF Tables, OffersComeFromTheOwner
        <4>3. PendingFor(transfers[y].patch)' = PendingFor(transfers[y].patch)
          BY <2>1, <2>2, <4>1 DEF PendingFor
        <4> QED BY <2>2, <4>1, <4>2, <4>3
      <3> QED BY <3>2, <3>3
    <2>4. MembersAreOwners' /\ DistinctParties'
      BY <2>1, <2>2 DEF Tables, MembersAreOwners, DistinctParties
    <2> QED BY <2>3, <2>4 DEF Tables
  <1>3. ASSUME NEW x \in Transfer, HandsOver(x) PROVE Tables'
    <2> DEFINE p == transfers[x].patch
    <2>1. /\ p \in Patch /\ transfers[x].sender \in Principal /\ transfers[x].recipient \in Principal
          /\ patches[p].owner = transfers[x].sender
          /\ transfers[x].sender # transfers[x].recipient
          /\ PendingFor(p) = {x}
      BY <1>3 DEF HandsOver, Tables, DistinctParties, OffersComeFromTheOwner, Typed, NamedTransfers
    <2>2. /\ patches'[p].owner = transfers[x].recipient
          /\ members'[p] = (members[p] \ {transfers[x].sender}) \cup {transfers[x].recipient}
          /\ \A q \in Patch \ {p} : patches'[q] = patches[q] /\ members'[q] = members[q]
      BY <1>0, <1>3, <2>1 DEF HandsOver, SwapMember
    <2>3. /\ transfers'[x].status = "accepted" /\ transfers'[x].patch = p
          /\ transfers'[x].sender = transfers[x].sender
          /\ transfers'[x].recipient = transfers[x].recipient
          /\ \A y \in Transfer \ {x} : transfers'[y] = transfers[y]
      <3>1. \A r \in Offer : LET n == [r EXCEPT !.status = "accepted"] IN
              /\ n.status = "accepted" /\ n.patch = r.patch
              /\ n.sender = r.sender /\ n.recipient = r.recipient
        BY DEF Offer
      <3>2. transfers'[x] = [transfers[x] EXCEPT !.status = "accepted"]
            /\ \A y \in Transfer \ {x} : transfers'[y] = transfers[y]
        BY <1>0, <1>3 DEF HandsOver
      <3> QED BY <1>0, <3>1, <3>2
    <2>4. \A y \in Transfer : transfers'[y].status = "pending" =>
             transfers'[y] = transfers[y] /\ transfers[y].patch # p
      BY <2>1, <2>3 DEF PendingFor
    <2>5. OffersComeFromTheOwner'
      <3> SUFFICES ASSUME NEW y \in Transfer, transfers'[y].status = "pending"
                   PROVE  /\ transfers'[y].sender = patches'[transfers'[y].patch].owner
                          /\ PendingFor(transfers[y].patch)' = {y}
        BY DEF OffersComeFromTheOwner
      <3>1. transfers'[y] = transfers[y] /\ transfers[y].patch \in Patch \ {p}
        BY <1>0, <2>4 DEF NamedTransfers
      <3>2. PendingFor(transfers[y].patch) = {y} /\ transfers[y].sender = patches[transfers[y].patch].owner
        BY <3>1 DEF Tables, OffersComeFromTheOwner
      <3>3. PendingFor(transfers[y].patch)' = PendingFor(transfers[y].patch)
        BY <2>3, <2>4, <3>1 DEF PendingFor
      <3> QED BY <2>2, <3>1, <3>2, <3>3
    <2>6. MembersAreOwners'
      BY <1>0, <2>1, <2>2 DEF Tables, MembersAreOwners
    <2>7. DistinctParties'
      BY <2>1, <2>3 DEF Tables, DistinctParties
    <2> QED BY <2>5, <2>6, <2>7 DEF Tables
  <1>4. ASSUME NEW S \in SUBSET Transfer, Closes(S) PROVE Tables'
    <2>1. \A y \in Transfer : transfers'[y].status = "pending" => transfers'[y] = transfers[y]
      BY <1>4 DEF Closes
    <2>2. ASSUME NEW y \in Transfer, transfers'[y].status = "pending"
          PROVE  /\ transfers'[y].sender = patches[transfers'[y].patch].owner
                 /\ PendingFor(transfers[y].patch)' = {y}
      <3>1. transfers'[y] = transfers[y] /\ transfers[y].status = "pending"
        BY <2>1, <2>2
      <3>2. PendingFor(transfers[y].patch) = {y}
            /\ transfers[y].sender = patches[transfers[y].patch].owner
        BY <3>1 DEF Tables, OffersComeFromTheOwner
      <3>3. \A x \in Transfer : transfers'[x].status = "pending" /\ transfers'[x].patch = transfers'[y].patch
                                <=> x = y
        BY <2>1, <2>2, <3>1, <3>2 DEF PendingFor
      <3> QED BY <3>1, <3>2, <3>3 DEF PendingFor
    <2>3. patches' = patches /\ members' = members
      BY <1>4 DEF Closes
    <2>4. OffersComeFromTheOwner' /\ MembersAreOwners'
      BY <2>2, <2>3 DEF Tables, OffersComeFromTheOwner, MembersAreOwners
    <2>5. DistinctParties'
      BY <1>4 DEF Closes, Tables, DistinctParties
    <2> QED BY <2>4, <2>5 DEF Tables
  <1>5. ASSUME NEW p \in Patch, NEW u \in Principal, Leaves(p, u) PROVE Tables'
    <2>1. /\ patches'[p].owner = NoOne /\ members'[p] = members[p] \ {u}
          /\ patches[p].owner = u /\ PendingFor(p) = {}
          /\ \A q \in Patch \ {p} : patches'[q] = patches[q] /\ members'[q] = members[q]
          /\ transfers' = transfers
      BY <1>0, <1>5 DEF Leaves
    <2>2. OffersComeFromTheOwner' /\ DistinctParties'
      BY <1>0, <2>1
         DEF Tables, OffersComeFromTheOwner, DistinctParties, NamedTransfers, PendingFor
    <2>3. MembersAreOwners'
      BY <1>0, <2>1 DEF Tables, MembersAreOwners
    <2> QED BY <2>2, <2>3 DEF Tables
  <1>6. CASE UNCHANGED <<patches, members, transfers>>
    BY <1>6 DEF Tables, OffersComeFromTheOwner, MembersAreOwners, DistinctParties, PendingFor
  <1> QED BY <1>1, <1>2, <1>3, <1>4, <1>5, <1>6 DEF Effect

\* Owners, memberships and offers agree in every reachable state.
LEMMA TablesAlways == Spec => [](Transactional /\ Tables)
  <1>1. Init => Tables
    BY DEF Init, NoRow, NoOffer, Tables, OffersComeFromTheOwner, MembersAreOwners, DistinctParties
  <1>2. Transactional /\ Tables /\ [Next]_vars => Tables'
    BY StepEffect, EffectTables DEF Transactional
  <1>3. Spec => []Tables
    BY <1>1, <1>2, TransactionalAlways, PTL DEF Spec
  <1> QED BY <1>3, TransactionalAlways, PTL

\* A pending transfer is always the one offer of its patch's present owner: abandonment,
\* acceptance and expiry leave none behind.
THEOREM OffersStayWithOwners == Spec => []OffersComeFromTheOwner
  <1>1. Tables => OffersComeFromTheOwner
    BY DEF Tables
  <1> QED BY <1>1, TablesAlways, PTL

\* The membership rows that authorize reads name exactly the patch's owner.
THEOREM MembershipFollowsOwnership == Spec => []MembersAreOwners
  <1>1. Tables => MembersAreOwners
    BY DEF Tables
  <1> QED BY <1>1, TablesAlways, PTL

\* Ownership never changes without the patch's revision moving by one.
THEOREM RevisionGuardsOwnership == Spec => OwnershipMovesRevision
  <1> DEFINE Moves == \A p \in Patch : patches'[p] # patches[p] =>
                        /\ patches'[p].owner # patches[p].owner
                        /\ patches'[p].revision = patches[p].revision + 1
  <1>1. Transactional /\ Tables /\ [Next]_vars => [Moves]_vars
    <2> SUFFICES ASSUME Transactional, Tables, [Next]_vars PROVE Moves
      OBVIOUS
    <2>1. /\ patches \in [Patch -> Row] /\ NamedTransfers /\ NoOne \notin Principal /\ Effect
      BY StepEffect, OwnershipAssumption DEF Transactional, Typed, TypeOK
    <2>2. ASSUME NEW p \in Patch, NEW u \in Principal, Takes(p, u) PROVE Moves
      BY <2>1, <2>2 DEF Takes
    <2>3. ASSUME NEW x \in Transfer, HandsOver(x) PROVE Moves
      BY <2>1, <2>3 DEF HandsOver, NamedTransfers, Tables, DistinctParties
    <2>4. ASSUME NEW p \in Patch, NEW u \in Principal, Leaves(p, u) PROVE Moves
      BY <2>1, <2>4 DEF Leaves
    <2>5. CASE UNCHANGED patches
      BY <2>5
    <2> QED BY <2>1, <2>2, <2>3, <2>4, <2>5 DEF Effect, Offers, Closes
  <1>2. Spec => [][Moves]_vars
    BY <1>1, TablesAlways, PTL DEF Spec
  <1> QED BY <1>2, PTL DEF OwnershipMovesRevision

\* A claim succeeds only within both windows, however the claims of one principal
\* interleave: the principal's advisory lock covers the count and the insert.
THEOREM ClaimsRespectQuota == Spec => ClaimsStayInQuota
  <1> DEFINE Within == \A u \in Principal : quota'[u].claims > quota[u].claims =>
                         quota[u].claims = 0 /\ quota[u].attempts < AttemptLimit
  <1>1. Transactional /\ [Next]_vars => [Within]_vars
    <2> SUFFICES ASSUME Transactional, [Next]_vars, NEW u \in Principal,
                        quota'[u].claims > quota[u].claims
                 PROVE  quota[u].claims = 0 /\ quota[u].attempts < AttemptLimit
      OBVIOUS
    <2>1. quota \in [Principal -> [attempts : Nat, claims : Nat]] /\ AttemptLimit \in Nat
      BY OwnershipAssumption DEF Transactional, Typed, TypeOK
    <2>2. quota # quota'
      BY <2>1
    <2>3. ASSUME NEW t \in Tx, Commit(t)
          PROVE  quota[u].claims = 0 /\ quota[u].attempts < AttemptLimit
      <3>1. CommitClaim(t)
        BY <2>2, <2>3 DEF Commit, CommitAssign, ReturnAssign, CommitCreate, CommitAccept,
             CommitCancel, CommitAbandon, CommitExpire, CommitRequest, CommitRecover,
             CommitComplete, SetStatus, rows
      <3>2. ~tx[t].blocked /\ u = tx[t].actor
        BY <2>1, <3>1 DEF CommitClaim, ClaimAllowed
      <3>3. WithinQuota(u)
        BY <3>1, <3>2, ReadyHas DEF CommitClaim, Transactional, Serial, ScansAreCurrent
      <3> QED BY <2>1, <3>3 DEF WithinQuota
    <2>4. ASSUME NEW v \in Principal, AttemptWindowEnds(v) \/ ClaimWindowEnds(v) PROVE FALSE
      BY <2>1, <2>4 DEF AttemptWindowEnds, ClaimWindowEnds
    <2>5. ASSUME NEW t \in Tx, Begin(t) \/ Read(t) \/ Abort(t) PROVE FALSE
      BY <2>2, <2>5, BeginShape, ReadShape, ZenonT(60) DEF Start, Reads, Execute, Abort, rows, Transactional
    <2> QED
      BY <2>2, <2>3, <2>4, <2>5
         DEF Next, Clock, TransferFallsDue, RecoveryWindowEnds, vars, rows
  <1>2. Spec => [][Within]_vars
    BY <1>1, TransactionalAlways, PTL DEF Spec
  <1> QED BY <1>2, PTL DEF ClaimsStayInQuota

-----------------------------------------------------------------------------
(* Whoever receives a patch locks its own principal row. *)

\* The search for a patch of the principal stays true, since only the holder of the
\* principal's row lock, exclusive or shared, can give it one.
OwnedScans ==
  \A t \in Tx : /\ Has(t, "quota") \/ Has(t, "ownedLock")
                /\ ~tx[t].blocked
                => OwnedBy(tx[t].actor) = {}

\* A principal whose recovery window has ended, or who is deleted.
Dismissed(u) ==
  \/ principals[u] = "deleted"
  \/ principals[u] = "deletion_pending" /\ u \in lapsed

\* The only transaction that gives a patch without reading the status starts while the
\* principal is active and ends within the recovery window.
NoLateAssignment == \A t \in Tx : tx[t].cmd = "assign" => ~Dismissed(tx[t].actor)

DeletedOwnNoPatch == \A u \in Principal : principals[u] = "deleted" => OwnedBy(u) = {}

Receivers == OwnedScans /\ NoLateAssignment /\ DeletedOwnNoPatch

\* A claim or an acceptance gives a patch only to the active principal whose row the
\* transaction locks, and who owned none.
Receives(p, u) ==
  /\ patches'[p].owner = u /\ OwnedBy(u) = {} /\ principals[u] = "active"
  /\ \A q \in Patch \ {p} : patches'[q] = patches[q]
  /\ UNCHANGED principals

\* An assignment gives a patch to its principal, whose row it shares.
Assigns(t) ==
  /\ Ready(t, "assign") /\ tx[t].actor \in Principal /\ tx[t].patch \in Patch
  /\ PrincipalLock(tx[t].actor) \in tx[t].shares
  /\ patches'[tx[t].patch].owner = tx[t].actor
  /\ \A q \in Patch \ {tx[t].patch} : patches'[q] = patches[q]
  /\ UNCHANGED principals

\* A patch is given only under a lock of the receiver's row.
LEMMA CommitReceives ==
  ASSUME Transactional, Tables, OwnedScans, NEW t \in Tx, Commit(t)
  PROVE  \/ \E p \in Patch, u \in Principal :
              Receives(p, u) /\ PrincipalLock(u) \in tx[t].holds
         \/ Assigns(t)
         \/ \A p \in Patch : patches'[p].owner \in {patches[p].owner, NoOne}
  <1>0. Typed /\ patches \in [Patch -> Row]
    BY DEF Transactional, Typed, TypeOK
  <1>1. LockedReadsAreCurrent!(t) /\ HoldsWhatItRead!(t)
    BY DEF Transactional, Serial, LockedReadsAreCurrent, Locking, HoldsWhatItRead
  <1>2. CASE CommitClaim(t) \/ CommitAccept(t)
    <2>0. /\ tx[t].actor \in Principal /\ tx[t].patch \in Patch
          /\ Has(t, "actor") /\ (Has(t, "quota") \/ Has(t, "ownedLock"))
      <3>1. CASE CommitClaim(t)
        BY <1>0, <3>1, ReadyHas, ReadyTyped DEF CommitClaim, ByPrincipal, OnPatch
      <3>2. CASE CommitAccept(t)
        BY <1>0, <3>2, ReadyHas, ReadyTyped DEF CommitAccept, ByPrincipal, OnPatch
      <3> QED BY <1>2, <3>1, <3>2
    <2>1. /\ tx[t].actor \in Principal /\ tx[t].patch \in Patch
          /\ PrincipalLock(tx[t].actor) \in tx[t].holds
          /\ tx[t].standing = principals[tx[t].actor]
          /\ ~tx[t].blocked => OwnedBy(tx[t].actor) = {}
      BY <1>1, <2>0 DEF OwnedScans
    <2>2. CASE UNCHANGED patches
      BY <2>2
    <2>3. CASE SetOwner(t, tx[t].actor) /\ tx[t].standing = "active" /\ ~tx[t].blocked
      <3>1. UNCHANGED principals
        BY <1>2 DEF CommitClaim, CommitAccept
      <3>2. Receives(tx[t].patch, tx[t].actor)
        BY <1>0, <2>1, <2>3, <3>1 DEF SetOwner, Receives
      <3> QED BY <2>1, <3>2
    <2>4. \/ UNCHANGED patches
          \/ SetOwner(t, tx[t].actor) /\ tx[t].standing = "active" /\ ~tx[t].blocked
      <3>1. CASE CommitClaim(t)
        <4>1. (ClaimAllowed(t) /\ SetOwner(t, tx[t].actor)) \/ UNCHANGED patches
          BY <3>1 DEF CommitClaim
        <4> QED BY <4>1, Zenon DEF ClaimAllowed
      <3>2. CASE CommitAccept(t)
        <4>1. (AcceptAllowed(t) /\ SetOwner(t, tx[t].offer.recipient)) \/ UNCHANGED patches
          BY <3>2 DEF CommitAccept
        <4>2. AcceptAllowed(t) => tx[t].standing = "active" /\ ~tx[t].blocked
                                    /\ tx[t].offer.recipient = tx[t].actor
          BY Zenon DEF AcceptAllowed
        <4> QED BY <4>1, <4>2, Zenon
      <3> QED BY <1>2, <3>1, <3>2
    <2> QED BY <2>2, <2>3, <2>4
  <1>3. CASE CommitAbandon(t)
    BY <1>0, <1>3 DEF CommitAbandon, SetOwner
  <1>4. CASE CommitAssign(t)
    <2>1. Has(t, "shareActor") /\ tx[t].actor \in Principal /\ tx[t].patch \in Patch
      BY <1>0, <1>4, ReadyHas, ReadyTyped DEF CommitAssign, ByPrincipal, OnPatch
    <2>2. PrincipalLock(tx[t].actor) \in tx[t].shares
      BY <1>1, <2>1
    <2>3. Assigns(t)
      BY <1>0, <1>4, <2>1, <2>2 DEF CommitAssign, SetOwner, Assigns
    <2> QED BY <2>3
  <1>5. CASE \/ CommitCreate(t) \/ CommitCancel(t) \/ CommitExpire(t) \/ ReturnAssign(t)
             \/ CommitRequest(t) \/ CommitRecover(t) \/ CommitComplete(t)
    BY <1>5 DEF CommitCreate, CommitCancel, CommitExpire, ReturnAssign, CommitRequest,
                CommitRecover, CommitComplete, SetStatus, rows
  <1> QED BY <1>2, <1>3, <1>4, <1>5 DEF Commit

\* The searches of the other transactions survive a commit.
LEMMA EndScans ==
  ASSUME Transactional, OwnedScans, NEW t \in Tx, tx' = [tx EXCEPT ![t] = Idle],
         \/ \E p \in Patch, u \in Principal :
              Receives(p, u) /\ PrincipalLock(u) \in tx[t].holds
         \/ Assigns(t)
         \/ \A p \in Patch : patches'[p].owner \in {patches[p].owner, NoOne}
  PROVE  OwnedScans'
  <1>1. \A o \in Tx : tx'[o] = IF o = t THEN Idle ELSE tx[o]
    BY DEF Transactional, Typed, TypeOK
  <1>2. Idle.step = 1 /\ Idle.cmd = "idle"
    BY DEF Idle
  <1>3. ASSUME NEW o \in Tx, Has(o, "quota")' \/ Has(o, "ownedLock")', ~tx'[o].blocked
        PROVE  OwnedBy(tx[o].actor)' = {} /\ tx'[o] = tx[o]
    <2>1. o # t /\ tx'[o] = tx[o]
      BY <1>1, <1>2, <1>3, FreshHas
    <2>2. Has(o, "quota") \/ Has(o, "ownedLock")
      BY <1>3, <2>1, SameHas
    <2>3. OwnedBy(tx[o].actor) = {} /\ tx[o].actor \in Principal
          /\ PrincipalLock(tx[o].actor) \in tx[o].holds
      BY <1>3, <2>1, <2>2, HasPlans
         DEF OwnedScans, Transactional, Locking, HoldsWhatItRead, Typed, Parameters
    <2>4. PrincipalLock(tx[o].actor) \notin tx[t].holds \cup tx[t].shares
      BY <2>1, <2>3 DEF Transactional, Locking, Exclusion
    <2>5. \A p \in Patch : patches'[p].owner # tx[o].actor
      BY <2>3, <2>4, OwnershipAssumption DEF Receives, Assigns, OwnedBy
    <2> QED BY <2>1, <2>5 DEF OwnedBy
  <1> QED BY <1>1, <1>2, <1>3 DEF OwnedScans

\* A search that finds no patch of the principal is true when it is made.
LEMMA ReadScans ==
  ASSUME Transactional, OwnedScans, NEW t \in Tx, Read(t)
  PROVE  OwnedScans' /\ UNCHANGED <<patches, principals, lapsed>>
         /\ \A o \in Tx : tx'[o].cmd = tx[o].cmd /\ tx'[o].actor = tx[o].actor
  <1>1. PICK s, session, picked : Reads(t, s, session, picked)
    BY ReadShape DEF Transactional
  <1> DEFINE new == [session EXCEPT !.step = @ + 1, !.holds = @ \cup Exclusive(t),
                                    !.shares = @ \cup Shared(t)]
  <1>2. /\ At(t, s) /\ s # "commit" /\ tx' = [tx EXCEPT ![t] = new]
        /\ UNCHANGED <<patches, principals, lapsed>>
    BY <1>1 DEF Execute, Reads, rows, time
  <1>3. /\ new.cmd = tx[t].cmd /\ new.actor = tx[t].actor
        /\ new.step = tx[t].step + 1 /\ new.blocked = session.blocked
    BY <1>1 DEF Session, Reads
  <1> HIDE DEF new
  <1>4. \A o \in Tx : tx'[o] = IF o = t THEN new ELSE tx[o]
    BY <1>2 DEF Transactional, Typed, TypeOK
  <1>5. tx[t].step \in Nat \ {0} /\ tx[t].cmd \in Commands \cup {"idle"} /\ Typed
    BY DEF Transactional, Typed, TypeOK, Session
  <1>6. \A r : Has(t, r)' <=> Has(t, r) \/ r = s
    BY <1>2, <1>3, <1>4, <1>5, ExecuteHas
  <1>7. Has(t, "quota") => s \notin {"owned", "quota", "ownedLock", "pending"}
    BY <1>2, <1>5, SearchesAreLast
  <1>8. Has(t, "ownedLock") => s \notin {"owned", "quota", "ownedLock", "pending"}
    BY <1>2, <1>5, SearchesAreLast
  <1>9. (Has(t, "quota") \/ Has(t, "ownedLock") \/ s \in {"quota", "ownedLock"}) /\ ~new.blocked
          => OwnedBy(new.actor) = {}
    BY <1>1, <1>3, <1>7, <1>8 DEF Reads, OwnedScans
  <1>10. ASSUME NEW o \in Tx, o # t
         PROVE  Has(o, "quota")' \/ Has(o, "ownedLock")' => Has(o, "quota") \/ Has(o, "ownedLock")
    BY <1>4, <1>10, SameHas
  <1>11. ASSUME NEW o \in Tx
         PROVE  (Has(o, "quota")' \/ Has(o, "ownedLock")') /\ ~tx'[o].blocked
                  => OwnedBy(tx'[o].actor) = {}
    <2>1. CASE o = t
      BY <1>3, <1>4, <1>6, <1>9, <2>1 DEF OwnedScans
    <2>2. CASE o # t
      BY <1>4, <1>10, <2>2 DEF OwnedScans
    <2> QED BY <2>1, <2>2
  <1>12. OwnedScans'
    BY <1>2, <1>11 DEF OwnedScans, OwnedBy
  <1> QED BY <1>2, <1>3, <1>4, <1>12

\* Nobody is dismissed by a commit who was not before: a request opens a new recovery
\* window, and the completion finds it ended.
LEMMA CommitDismisses ==
  ASSUME Transactional, NEW t \in Tx, Commit(t)
  PROVE  \A u \in Principal : Dismissed(u)' => Dismissed(u)
  <1>1. Typed /\ principals \in [Principal -> Status] /\ LockedReadsAreCurrent!(t)
    BY DEF Transactional, Typed, TypeOK, Serial, LockedReadsAreCurrent
  <1>2. CASE CommitRequest(t) \/ CommitRecover(t) \/ CommitComplete(t)
    <2>1. tx[t].actor \in Principal /\ tx[t].standing = principals[tx[t].actor]
      BY <1>1, <1>2, ReadyHas, ReadyTyped
         DEF CommitRequest, CommitRecover, CommitComplete, ByPrincipal
    <2>2. CASE CommitRequest(t)
      BY <1>1, <2>1, <2>2 DEF CommitRequest, SetStatus, Dismissed
    <2>3. CASE CommitRecover(t)
      BY <1>1, <2>1, <2>3 DEF CommitRecover, SetStatus, Dismissed
    <2>4. CASE CommitComplete(t)
      BY <1>1, <2>1, <2>4 DEF CommitComplete, CompleteAllowed, SetStatus, Dismissed
    <2> QED BY <1>2, <2>2, <2>3, <2>4
  <1>3. \/ UNCHANGED <<principals, lapsed>>
        \/ CommitRequest(t) \/ CommitRecover(t) \/ CommitComplete(t)
    BY DEF Commit, CommitClaim, CommitAssign, ReturnAssign, CommitCreate, CommitAccept,
           CommitCancel, CommitAbandon, CommitExpire, Finish, rows, time
  <1> QED BY <1>2, <1>3 DEF Dismissed

\* A deleted principal is given nothing by a step that deletes nobody.
LEMMA GivesToTheLiving ==
  ASSUME Receivers, UNCHANGED principals, NEW t \in Tx,
         \/ \E p \in Patch, u \in Principal : Receives(p, u)
         \/ Assigns(t)
         \/ \A p \in Patch : patches'[p].owner \in {patches[p].owner, NoOne}
  PROVE  DeletedOwnNoPatch'
  <1> SUFFICES ASSUME NEW u \in Principal, principals[u] = "deleted", NEW q \in Patch
               PROVE  patches'[q].owner # u
    BY DEF DeletedOwnNoPatch, OwnedBy
  <1>1. patches[q].owner # u /\ u # NoOne
    BY OwnershipAssumption DEF Receivers, DeletedOwnNoPatch, OwnedBy
  <1>2. CASE \E p \in Patch, v \in Principal : Receives(p, v)
    BY <1>1, <1>2 DEF Receives
  <1>3. CASE Assigns(t)
    <2>1. tx[t].actor # u
      BY <1>3 DEF Assigns, Ready, Receivers, NoLateAssignment, Dismissed
    <2> QED BY <1>1, <1>3, <2>1 DEF Assigns
  <1>4. CASE \A p \in Patch : patches'[p].owner \in {patches[p].owner, NoOne}
    BY <1>1, <1>4
  <1> QED BY <1>2, <1>3, <1>4

\* Every step keeps the searches true and patches away from deleted principals.
LEMMA StepReceivers ==
  ASSUME Transactional, Tables, Receivers, [Next]_vars
  PROVE  Receivers'
  <1> USE DEF Receivers
  <1>1. ASSUME UNCHANGED <<patches, principals, tx>>,
               \A t \in Tx :
                 tx[t].cmd = "assign" /\ Dismissed(tx[t].actor)' => Dismissed(tx[t].actor)
        PROVE  Receivers'
    BY <1>1 DEF OwnedScans, NoLateAssignment, DeletedOwnNoPatch, OwnedBy, Has, Dismissed
  <1>2. CASE Clock \/ UNCHANGED vars
    BY <1>1, <1>2 DEF Clock, TransferFallsDue, RecoveryWindowEnds, AttemptWindowEnds,
                      ClaimWindowEnds, vars, rows, time, Dismissed
  <1>3. ASSUME NEW t \in Tx, Begin(t) PROVE Receivers'
    <2>1. PICK c, u, v, p, x : Start(t, c, u, v, p, x) /\ Requested(c, u, v, p, x)
      BY <1>3, BeginShape
    <2>2. PICK r : tx' = [tx EXCEPT ![t] = r] /\ r.step = 1 /\ r.cmd = c /\ r.actor = u
      BY <2>1, StartShape
    <2>3. UNCHANGED <<patches, principals, lapsed>>
      BY <2>1 DEF Start, rows, time
    <2>4. \A o \in Tx : tx'[o] = IF o = t THEN r ELSE tx[o]
      BY <2>2 DEF Transactional, Typed, TypeOK
    <2>5. OwnedScans'
      BY <2>2, <2>3, <2>4, FreshHas, SameHas DEF OwnedScans, OwnedBy
    <2>6. c = "assign" => principals[u] = "active"
      BY <2>1 DEF Requested
    <2>7. NoLateAssignment'
      BY <2>2, <2>3, <2>4, <2>6 DEF NoLateAssignment, Dismissed
    <2> QED BY <2>3, <2>5, <2>7 DEF DeletedOwnNoPatch, OwnedBy
  <1>4. ASSUME NEW t \in Tx, Read(t) PROVE Receivers'
    BY <1>4, ReadScans DEF NoLateAssignment, Dismissed, DeletedOwnNoPatch, OwnedBy
  <1>5. ASSUME NEW t \in Tx, Commit(t) \/ Abort(t)
        PROVE  \A o \in Tx : tx'[o] = tx[o] \/ tx'[o].cmd = "idle"
    BY <1>5, EndShape DEF Idle, Transactional, Typed, TypeOK
  <1>6. ASSUME NEW t \in Tx, Abort(t) PROVE Receivers'
    <2>1. UNCHANGED <<patches, principals, lapsed>>
      BY <1>6 DEF Abort, Finish, rows, time
    <2>2. OwnedScans'
      BY <1>6, <2>1, EndShape, EndScans
    <2>3. NoLateAssignment'
      BY <1>5, <1>6, <2>1 DEF NoLateAssignment, Dismissed
    <2> QED BY <2>1, <2>2, <2>3 DEF DeletedOwnNoPatch, OwnedBy
  <1>7. ASSUME NEW t \in Tx, Commit(t) PROVE Receivers'
    <2>1. \/ \E p \in Patch, u \in Principal :
               Receives(p, u) /\ PrincipalLock(u) \in tx[t].holds
          \/ Assigns(t)
          \/ \A p \in Patch : patches'[p].owner \in {patches[p].owner, NoOne}
      BY <1>7, CommitReceives
    <2>2. OwnedScans'
      BY <1>7, <2>1, EndShape, EndScans
    <2>3. NoLateAssignment'
      <3> SUFFICES ASSUME NEW o \in Tx, tx'[o].cmd = "assign" PROVE (~Dismissed(tx[o].actor))'
        BY DEF NoLateAssignment
      <3>1. tx'[o] = tx[o]
        BY <1>5, <1>7
      <3>2. tx[o].actor \in Principal /\ ~Dismissed(tx[o].actor)
        BY <3>1 DEF NoLateAssignment, Transactional, Typed, Parameters, ByPrincipal
      <3>3. ~Dismissed(tx[o].actor)'
        BY <1>7, <3>1, <3>2, CommitDismisses DEF Dismissed
      <3> QED BY <3>1, <3>3 DEF Dismissed
    <2>4. CASE UNCHANGED principals
      BY <2>1, <2>2, <2>3, <2>4, GivesToTheLiving
    <2>5. CASE CommitRequest(t) \/ CommitRecover(t)
      <3>1. UNCHANGED patches
        BY <2>5 DEF CommitRequest, CommitRecover, SetStatus
      <3>2. \A u \in Principal : principals'[u] = "deleted" => principals[u] = "deleted"
        BY <2>5 DEF CommitRequest, CommitRecover, SetStatus, Transactional, Typed, TypeOK
      <3> QED BY <2>2, <2>3, <3>1, <3>2 DEF DeletedOwnNoPatch, OwnedBy
    <2>6. CASE CommitComplete(t)
      <3>1. UNCHANGED patches
        BY <2>6 DEF CommitComplete, SetStatus
      <3>2. ~tx[t].blocked => OwnedBy(tx[t].actor) = {}
        BY <2>6, ReadyHas DEF CommitComplete, OwnedScans, Transactional
      <3>3. \A u \in Principal : principals'[u] = "deleted" =>
               principals[u] = "deleted" \/ OwnedBy(u) = {}
        BY <2>6, <3>2
           DEF CommitComplete, CompleteAllowed, SetStatus, Transactional, Typed, TypeOK
      <3> QED BY <2>2, <2>3, <3>1, <3>3 DEF DeletedOwnNoPatch, OwnedBy
    <2>7. UNCHANGED principals \/ CommitRequest(t) \/ CommitRecover(t) \/ CommitComplete(t)
      BY <1>7 DEF Commit, CommitClaim, CommitAssign, ReturnAssign, CommitCreate, CommitAccept,
                  CommitCancel, CommitAbandon, CommitExpire, rows
    <2> QED BY <2>4, <2>5, <2>6, <2>7
  <1> QED BY <1>2, <1>3, <1>4, <1>6, <1>7 DEF Next

\* The searches are true and the deleted own nothing in every reachable state.
LEMMA ReceiversAlways == Spec => [](Transactional /\ Tables /\ Receivers)
  <1>1. Init => Receivers
    <2> SUFFICES ASSUME Init PROVE Receivers
      OBVIOUS
    <2>1. \A t \in Tx : tx[t].cmd = "idle" /\ \A s : ~Has(t, s)
      BY PlanDomains DEF Init, Idle, Has
    <2>2. \A u \in Principal : principals[u] = "active"
      BY DEF Init
    <2> QED BY <2>1, <2>2 DEF Receivers, OwnedScans, NoLateAssignment, DeletedOwnNoPatch
  <1>2. Transactional /\ Tables /\ Receivers /\ [Next]_vars => Receivers'
    BY StepReceivers
  <1>3. Spec => []Receivers
    BY <1>1, <1>2, TablesAlways, PTL DEF Spec
  <1> QED BY <1>3, TablesAlways, PTL

\* A deleted principal owns nothing and is a member nowhere, although an assignment does
\* not look at the status within its transaction: its principal was active when it began,
\* and no assignment outlasts the thirty days of the recovery window. Claims, acceptances
\* and recoveries may: they look at the status under the lock of the principal's row.
THEOREM DeletionIsFinal == Spec => []DeletedOwnNothing
  <1>1. Tables /\ Receivers => DeletedOwnNothing
    BY OwnershipAssumption
       DEF Tables, Receivers, MembersAreOwners, DeletedOwnNoPatch, DeletedOwnNothing, OwnedBy
  <1> QED BY <1>1, ReceiversAlways, PTL

\* Claims and transfers give patches to active principals only, whatever else runs.
THEOREM ReceiversAreActive == Spec => OnlyActiveReceive
  <1> DEFINE Active == \A p \in Patch : patches'[p].owner # patches[p].owner =>
                         \/ patches'[p].owner = NoOne \/ principals[patches'[p].owner] = "active"
                         \/ \E t \in Tx : Ready(t, "assign") /\ tx[t].patch = p
  <1>1. Transactional /\ Tables /\ Receivers /\ [Next]_vars => [Active]_vars
    <2> SUFFICES ASSUME Transactional, Tables, Receivers, [Next]_vars PROVE Active
      OBVIOUS
    <2>1. ASSUME NEW t \in Tx, Commit(t) PROVE Active
      BY <2>1, CommitReceives DEF Receivers, Receives, Assigns
    <2>2. ASSUME NEW t \in Tx, Begin(t) \/ Read(t) \/ Abort(t) PROVE UNCHANGED patches
      BY <2>2, BeginShape, ReadScans DEF Start, Abort, rows, Receivers
    <2>3. CASE Clock \/ UNCHANGED vars
      BY <2>3 DEF Clock, TransferFallsDue, RecoveryWindowEnds, AttemptWindowEnds,
                  ClaimWindowEnds, vars, rows
    <2> QED BY <2>1, <2>2, <2>3 DEF Next
  <1>2. Spec => [][Active]_vars
    BY <1>1, ReceiversAlways, PTL DEF Spec
  <1> QED BY <1>2, PTL DEF OnlyActiveReceive

\* The claim and the acceptance of a transfer lock the principal's row before they look for
\* a patch it owns, so neither gives a second one, whatever else runs: only an automatic
\* assignment, which looks without that lock, can.
THEOREM OnlyAssignmentsExceed == Spec => ClaimsAndTransfersKeepQuota
  <1> DEFINE Within == \A p \in Patch : patches'[p].owner \notin {patches[p].owner, NoOne} =>
                         \/ OwnedBy(patches'[p].owner) = {}
                         \/ \E t \in Tx : Ready(t, "assign") /\ tx[t].patch = p
  <1>1. Transactional /\ Tables /\ Receivers /\ [Next]_vars => [Within]_vars
    <2> SUFFICES ASSUME Transactional, Tables, Receivers, [Next]_vars PROVE Within
      OBVIOUS
    <2>1. ASSUME NEW t \in Tx, Commit(t) PROVE Within
      <3>1. CASE \E p \in Patch, u \in Principal : Receives(p, u)
        BY <3>1 DEF Receives
      <3>2. CASE Assigns(t)
        BY <3>2 DEF Assigns
      <3>3. CASE \A p \in Patch : patches'[p].owner \in {patches[p].owner, NoOne}
        BY <3>3
      <3> QED BY <2>1, <3>1, <3>2, <3>3, CommitReceives DEF Receivers
    <2>2. ASSUME NEW t \in Tx, Begin(t) \/ Read(t) \/ Abort(t) PROVE UNCHANGED patches
      BY <2>2, BeginShape, ReadScans DEF Start, Abort, rows, Receivers
    <2>3. CASE Clock \/ UNCHANGED vars
      BY <2>3 DEF Clock, TransferFallsDue, RecoveryWindowEnds, AttemptWindowEnds,
                  ClaimWindowEnds, vars, rows
    <2> QED BY <2>1, <2>2, <2>3 DEF Next
  <1>2. Spec => [][Within]_vars
    BY <1>1, ReceiversAlways, PTL DEF Spec
  <1> QED BY <1>2, PTL DEF ClaimsAndTransfersKeepQuota

-----------------------------------------------------------------------------
(* Refinement *)

\* The abstract offer of a patch is read off its one pending transfer.
OfferRead ==
  \A p \in Patch :
    /\ PendingFor(p) = {} => offer[p] = NoOne
    /\ \A x \in PendingFor(p) : offer[p] = transfers[x].recipient

\* With one pending transfer a patch, the abstract offer is its recipient.
LEMMA OfferOf == OffersComeFromTheOwner => OfferRead
  <1> SUFFICES ASSUME OffersComeFromTheOwner, NEW p \in Patch
               PROVE  OfferRead!(p)
    BY DEF OfferRead
  <1>1. \A x \in PendingFor(p) : PendingFor(p) = {x}
    BY DEF PendingFor, OffersComeFromTheOwner
  <1>2. PendingFor(p) = {} => offer[p] = NoOne
    BY DEF offer
  <1>3. ASSUME NEW x \in PendingFor(p) PROVE offer[p] = transfers[x].recipient
    <2>1. (CHOOSE y \in PendingFor(p) : TRUE) \in PendingFor(p)
      BY <1>3
    <2>2. (CHOOSE y \in PendingFor(p) : TRUE) = x
      BY <1>1, <2>1
    <2>3. offer[p] = transfers[CHOOSE y \in PendingFor(p) : TRUE].recipient
      BY <1>3 DEF offer
    <2> QED BY <2>2, <2>3
  <1> QED BY <1>2, <1>3

\* The same after a step.
LEMMA OfferOfNext == OffersComeFromTheOwner' => OfferRead'
  BY OfferOf, PTL

\* Every effect is a step of the lifecycle or leaves owners and offers alone.
LEMMA EffectImplements ==
  ASSUME Typed, Tables, Tables', Effect
  PROVE  Lifecycle!Next \/ UNCHANGED <<owner, offer>>
  <1>0. /\ patches \in [Patch -> Row] /\ transfers \in [Transfer -> Offer]
        /\ NamedTransfers /\ NoOne \notin Principal
        /\ OffersComeFromTheOwner /\ OfferRead /\ OfferRead' /\ DistinctParties
    BY OwnershipAssumption, OfferOf, OfferOfNext DEF Typed, TypeOK, Tables
  <1>1. /\ owner = [p \in Patch |-> owner[p]] /\ owner' = [p \in Patch |-> owner'[p]]
        /\ offer = [p \in Patch |-> offer[p]] /\ offer' = [p \in Patch |-> offer'[p]]
        /\ \A p \in Patch : owner[p] = patches[p].owner /\ owner'[p] = patches'[p].owner
    BY DEF owner, offer
  <1>2. ASSUME NEW q \in Patch, PendingFor(q)' = PendingFor(q),
               \A y \in PendingFor(q) : transfers'[y].recipient = transfers[y].recipient
        PROVE  offer'[q] = offer[q]
    BY <1>0, <1>2 DEF OfferRead
  <1>3. ASSUME transfers' = transfers PROVE offer' = offer
    BY <1>3 DEF offer, PendingFor
  <1>4. ASSUME NEW p \in Patch, NEW u \in Principal, Takes(p, u) PROVE Lifecycle!Next
    <2>1. PendingFor(p) = {} /\ owner[p] = NoOne
      BY <1>0, <1>1, <1>4 DEF Takes, OffersComeFromTheOwner, NamedTransfers, PendingFor
    <2>2. owner' = [owner EXCEPT ![p] = u]
      BY <1>0, <1>1, <1>4 DEF Takes
    <2>3. offer[p] = NoOne /\ offer' = offer
      BY <1>0, <1>3, <1>4, <2>1 DEF Takes, OfferRead
    <2>4. Lifecycle!Take(p, u)
      BY <2>1, <2>2, <2>3 DEF Lifecycle!Take
    <2> QED BY <2>4 DEF Lifecycle!Next
  <1>5. ASSUME NEW x \in Transfer, NEW p \in Patch, NEW u \in Principal, NEW v \in Principal,
               Offers(x, p, u, v)
        PROVE  Lifecycle!Next
    <2>1. /\ transfers'[x].status = "pending" /\ transfers'[x].patch = p
          /\ transfers'[x].recipient = v /\ transfers[x].status = "free"
          /\ \A y \in Transfer \ {x} : transfers'[y] = transfers[y]
          /\ patches' = patches /\ patches[p].owner = u /\ PendingFor(p) = {} /\ u # v
      BY <1>0, <1>5 DEF Offers
    <2>2. offer[p] = NoOne /\ offer'[p] = v
      <3>1. x \in PendingFor(p)'
        BY <2>1 DEF PendingFor
      <3> QED BY <1>0, <2>1, <3>1 DEF OfferRead
    <2>3. ASSUME NEW q \in Patch \ {p} PROVE offer'[q] = offer[q]
      <3>1. PendingFor(q)' = PendingFor(q) /\ x \notin PendingFor(q)
        BY <2>1 DEF PendingFor
      <3>2. \A y \in PendingFor(q) : transfers'[y].recipient = transfers[y].recipient
        BY <2>1, <3>1 DEF PendingFor
      <3> QED BY <1>2, <3>1, <3>2
    <2>4. offer' = [offer EXCEPT ![p] = v]
      BY <1>1, <2>2, <2>3
    <2>5. owner' = owner /\ owner[p] \in Principal \ {v}
      BY <1>1, <2>1
    <2>6. Lifecycle!Propose(p, v)
      BY <2>2, <2>4, <2>5 DEF Lifecycle!Propose
    <2> QED BY <2>6 DEF Lifecycle!Next
  <1>6. ASSUME NEW x \in Transfer, HandsOver(x) PROVE Lifecycle!Next
    <2>0. PICK p \in Patch : p = transfers[x].patch
      BY <1>0, <1>6 DEF HandsOver, NamedTransfers
    <2>1. /\ PendingFor(p) = {x} /\ transfers[x].recipient \in Principal
      BY <1>0, <1>6, <2>0 DEF HandsOver, OffersComeFromTheOwner, NamedTransfers
    <2>2. /\ transfers'[x].status = "accepted"
          /\ \A y \in Transfer \ {x} : transfers'[y] = transfers[y]
      <3>1. \A r \in Offer : [r EXCEPT !.status = "accepted"].status = "accepted"
        BY DEF Offer
      <3>2. transfers'[x] = [transfers[x] EXCEPT !.status = "accepted"]
            /\ \A y \in Transfer \ {x} : transfers'[y] = transfers[y]
        BY <1>0, <1>6 DEF HandsOver
      <3> QED BY <1>0, <3>1, <3>2
    <2>3. owner' = [owner EXCEPT ![p] = transfers[x].recipient]
      BY <1>0, <1>1, <1>6, <2>0 DEF HandsOver
    <2>4. offer[p] = transfers[x].recipient
      BY <1>0, <2>1 DEF OfferRead
    <2>5. offer'[p] = NoOne
      <3>1. PendingFor(p)' = {}
        <4>1. \A y \in Transfer : transfers'[y].status = "pending" =>
                 y # x /\ transfers'[y] = transfers[y]
          BY <2>2
        <4> QED BY <2>1, <4>1 DEF PendingFor
      <3> QED BY <1>0, <2>1, <3>1 DEF OfferRead
    <2>6. ASSUME NEW q \in Patch \ {p} PROVE offer'[q] = offer[q]
      <3>1. PendingFor(q)' = PendingFor(q) /\ x \notin PendingFor(q)
        BY <2>1, <2>2 DEF PendingFor
      <3>2. \A y \in PendingFor(q) : transfers'[y].recipient = transfers[y].recipient
        BY <2>2, <3>1 DEF PendingFor
      <3> QED BY <1>2, <3>1, <3>2
    <2>7. offer' = [offer EXCEPT ![p] = NoOne]
      BY <1>1, <2>5, <2>6
    <2>8. Lifecycle!HandOver(p)
      BY <1>0, <2>1, <2>3, <2>4, <2>7 DEF Lifecycle!HandOver
    <2> QED BY <2>1, <2>8 DEF Lifecycle!Next
  <1>7. ASSUME NEW S \in SUBSET Transfer, Closes(S) PROVE Lifecycle!Next
    <2> DEFINE T == {q \in Patch : PendingFor(q)' = {}}
    <2>1. \A y \in Transfer : transfers'[y].status = "pending" => transfers'[y] = transfers[y]
      BY <1>7 DEF Closes
    <2>2. ASSUME NEW q \in Patch, NEW y \in PendingFor(q)' PROVE offer'[q] = offer[q]
      <3>1. y \in PendingFor(q) /\ transfers'[y] = transfers[y]
        BY <2>1, <2>2 DEF PendingFor
      <3> QED BY <1>0, <2>2, <3>1 DEF OfferRead
    <2>3. \A q \in Patch : offer'[q] = IF q \in T THEN NoOne ELSE offer[q]
      BY <1>0, <2>2 DEF OfferRead
    <2>4. owner' = owner /\ T \in SUBSET Patch
      BY <1>1, <1>7 DEF Closes
    <2> HIDE DEF T
    <2>5. Lifecycle!Withdraw(T)
      BY <1>1, <2>3, <2>4 DEF Lifecycle!Withdraw
    <2> QED BY <2>4, <2>5 DEF Lifecycle!Next
  <1>8. ASSUME NEW p \in Patch, NEW u \in Principal, Leaves(p, u) PROVE Lifecycle!Next
    <2>1. owner' = [owner EXCEPT ![p] = NoOne] /\ owner[p] # NoOne
      BY <1>0, <1>1, <1>8 DEF Leaves
    <2>2. offer[p] = NoOne /\ offer' = offer
      BY <1>0, <1>3, <1>8 DEF Leaves, OfferRead
    <2>3. Lifecycle!GiveUp(p)
      BY <2>1, <2>2 DEF Lifecycle!GiveUp
    <2> QED BY <2>3 DEF Lifecycle!Next
  <1>9. CASE UNCHANGED <<patches, members, transfers>>
    BY <1>3, <1>9 DEF owner
  <1> QED BY <1>4, <1>5, <1>6, <1>7, <1>8, <1>9 DEF Effect

\* The interleaved transactions of repository.ts implement the atomic patch lifecycle: a
\* patch changes hands only as if every command ran alone.
THEOREM Implementation == Spec => ImplementsLifecycle
  <1>1. Init => Lifecycle!Init
    <2> SUFFICES ASSUME Init PROVE Lifecycle!Init
      OBVIOUS
    <2>1. \A p \in Patch : PendingFor(p) = {} /\ patches[p].owner = NoOne
      BY DEF Init, NoRow, NoOffer, PendingFor
    <2> QED BY <2>1 DEF Lifecycle!Init, owner, offer
  <1>2. Transactional /\ Tables /\ Tables' /\ [Next]_vars => [Lifecycle!Next]_<<owner, offer>>
    BY StepEffect, EffectImplements DEF Transactional
  <1>3. Spec => [](Transactional /\ Tables)
    BY TablesAlways
  <1> QED BY <1>1, <1>2, <1>3, PTL DEF Spec, ImplementsLifecycle, Lifecycle!Spec, Lifecycle!lifecycle
-----------------------------------------------------------------------------
(* Claims, assignments, abandonment and deletion requests never deadlock. *)

\* The place of a statement in the common lock order: the principal's advisory lock, a
\* patch, its offer, the principal's row; the statements after these lock nothing.
Rank(s) ==
  CASE s = "advisory"                -> 1
    [] s \in {"owned", "patch", "pick"} -> 2
    [] s = "pending"                 -> 3
    [] s \in {"actor", "shareActor"}   -> 4
    [] s = "quota"                   -> 5
    [] OTHER                         -> 6

\* The place of a lock in that order.
LockRank(l) ==
  CASE l[1] = "advisory" -> 1
    [] l[1] = "patch"    -> 2
    [] l[1] = "transfer" -> 3
    [] OTHER             -> 4

\* What an ordered transaction has locked comes before what it locks next.
Ranked ==
  \A t \in Tx : tx[t].cmd \in Ordered =>
    \A l \in tx[t].holds \cup tx[t].shares : LockRank(l) < Rank(Statement(t))

\* The locks of a statement of an ordered command have the statement's place; only the
\* choice of an assignment locks outside of Exclusive.
LEMMA LockedInPlace ==
  ASSUME NEW t \in Tx, tx[t].cmd \in Ordered
  PROVE  \A l \in Exclusive(t) \cup Shared(t) : LockRank(l) = Rank(Statement(t))
  <1>1. Statement(t) \in {"advisory", "patch", "actor", "quota", "owned", "pick",
                          "shareActor", "pending", "commit"}
    BY DEF Statement, PlanOf, ClaimPlan, AssignPlan, Ordered
  <1>2. \A u : LockRank(AdvisoryLock(u)) = 1 /\ LockRank(PrincipalLock(u)) = 4
               /\ LockRank(PatchLock(u)) = 2 /\ LockRank(TransferLock(u)) = 3
    BY DEF LockRank, AdvisoryLock, PrincipalLock, PatchLock, TransferLock
  <1>3. CASE Statement(t) = "advisory"
    BY <1>2, <1>3 DEF Exclusive, Shared, Rank
  <1>4. CASE Statement(t) = "patch"
    BY <1>2, <1>4 DEF Exclusive, Shared, Rank, ForUpdate
  <1>5. CASE Statement(t) = "actor"
    BY <1>2, <1>5 DEF Exclusive, Shared, Rank, ForUpdate
  <1>6. CASE Statement(t) = "pending"
    BY <1>2, <1>6 DEF Exclusive, Shared, Rank
  <1>7. CASE Statement(t) = "shareActor"
    BY <1>2, <1>7 DEF Exclusive, Shared, Rank
  <1>8. CASE Statement(t) \in {"quota", "owned", "pick", "commit"}
    BY <1>8 DEF Exclusive, Shared
  <1> QED BY <1>1, <1>3, <1>4, <1>5, <1>6, <1>7, <1>8

\* The statement with which command c goes on at step n of its plan.
StatementAt(c, n) == IF n \in DOMAIN PlanOf(c) THEN PlanOf(c)[n] ELSE "commit"

\* The plans of the ordered commands follow the lock order; a statement that reads
\* without a lock may share its place with the next one.
LEMMA PlansFollowTheOrder ==
  ASSUME NEW c \in Ordered, NEW n \in Nat \ {0}, n \in DOMAIN PlanOf(c)
  PROVE  \/ Rank(PlanOf(c)[n]) < Rank(StatementAt(c, n + 1))
         \/ PlanOf(c)[n] = "owned" /\ Rank(PlanOf(c)[n]) = Rank(StatementAt(c, n + 1))
  <1>1. /\ Rank("advisory") = 1 /\ Rank("owned") = 2 /\ Rank("patch") = 2 /\ Rank("pick") = 2
        /\ Rank("pending") = 3 /\ Rank("actor") = 4 /\ Rank("shareActor") = 4
        /\ Rank("quota") = 5 /\ Rank("commit") = 6
    BY DEF Rank
  <1>2. CASE c = "claim"
    <2>1. PlanOf(c) = <<"advisory", "patch", "actor", "quota">>
      BY <1>2 DEF PlanOf, ClaimPlan
    <2>2. DOMAIN PlanOf(c) = {1, 2, 3, 4} /\ n \in {1, 2, 3, 4}
      BY <2>1
    <2>3. CASE n = 1
      <3>1. PlanOf(c)[n] = "advisory" /\ StatementAt(c, n + 1) = "patch"
        BY <2>1, <2>2, <2>3 DEF StatementAt
      <3> QED BY <1>1, <3>1
    <2>4. CASE n = 2
      <3>1. PlanOf(c)[n] = "patch" /\ StatementAt(c, n + 1) = "actor"
        BY <2>1, <2>2, <2>4 DEF StatementAt
      <3> QED BY <1>1, <3>1
    <2>5. CASE n = 3
      <3>1. PlanOf(c)[n] = "actor" /\ StatementAt(c, n + 1) = "quota"
        BY <2>1, <2>2, <2>5 DEF StatementAt
      <3> QED BY <1>1, <3>1
    <2>6. CASE n = 4
      <3>1. PlanOf(c)[n] = "quota" /\ StatementAt(c, n + 1) = "commit"
        BY <2>1, <2>2, <2>6 DEF StatementAt
      <3> QED BY <1>1, <3>1
    <2> QED BY <2>2, <2>3, <2>4, <2>5, <2>6
  <1>3. CASE c = "assign"
    <2>1. PlanOf(c) = <<"advisory", "owned", "pick", "shareActor">>
      BY <1>3 DEF PlanOf, AssignPlan
    <2>2. DOMAIN PlanOf(c) = {1, 2, 3, 4} /\ n \in {1, 2, 3, 4}
      BY <2>1
    <2>3. CASE n = 1
      <3>1. PlanOf(c)[n] = "advisory" /\ StatementAt(c, n + 1) = "owned"
        BY <2>1, <2>2, <2>3 DEF StatementAt
      <3> QED BY <1>1, <3>1
    <2>4. CASE n = 2
      <3>1. PlanOf(c)[n] = "owned" /\ StatementAt(c, n + 1) = "pick"
        BY <2>1, <2>2, <2>4 DEF StatementAt
      <3> QED BY <1>1, <3>1
    <2>5. CASE n = 3
      <3>1. PlanOf(c)[n] = "pick" /\ StatementAt(c, n + 1) = "shareActor"
        BY <2>1, <2>2, <2>5 DEF StatementAt
      <3> QED BY <1>1, <3>1
    <2>6. CASE n = 4
      <3>1. PlanOf(c)[n] = "shareActor" /\ StatementAt(c, n + 1) = "commit"
        BY <2>1, <2>2, <2>6 DEF StatementAt
      <3> QED BY <1>1, <3>1
    <2> QED BY <2>2, <2>3, <2>4, <2>5, <2>6
  <1>4. CASE c = "abandon"
    <2>1. PlanOf(c) = <<"patch", "pending", "shareActor">>
      BY <1>4 DEF PlanOf
    <2>2. DOMAIN PlanOf(c) = {1, 2, 3} /\ n \in {1, 2, 3}
      BY <2>1
    <2>3. CASE n = 1
      <3>1. PlanOf(c)[n] = "patch" /\ StatementAt(c, n + 1) = "pending"
        BY <2>1, <2>2, <2>3 DEF StatementAt
      <3> QED BY <1>1, <3>1
    <2>4. CASE n = 2
      <3>1. PlanOf(c)[n] = "pending" /\ StatementAt(c, n + 1) = "shareActor"
        BY <2>1, <2>2, <2>4 DEF StatementAt
      <3> QED BY <1>1, <3>1
    <2>5. CASE n = 3
      <3>1. PlanOf(c)[n] = "shareActor" /\ StatementAt(c, n + 1) = "commit"
        BY <2>1, <2>2, <2>5 DEF StatementAt
      <3> QED BY <1>1, <3>1
    <2> QED BY <2>2, <2>3, <2>4, <2>5
  <1>5. CASE c = "request"
    <2>1. PlanOf(c) = <<"actor">>
      BY <1>5 DEF PlanOf
    <2>2. DOMAIN PlanOf(c) = {1} /\ n \in {1}
      BY <2>1
    <2>3. CASE n = 1
      <3>1. PlanOf(c)[n] = "actor" /\ StatementAt(c, n + 1) = "commit"
        BY <2>1, <2>2, <2>3 DEF StatementAt
      <3> QED BY <1>1, <3>1
    <2> QED BY <2>2, <2>3
  <1> QED BY <1>2, <1>3, <1>4, <1>5 DEF Ordered

\* A place is one of six.
LEMMA RankBounds == \A s : Rank(s) \in 1..6
  BY DEF Rank

\* A connection that starts or ends a transaction holds nothing.
LEMMA ResetRanked ==
  ASSUME Typed, Ranked, NEW t \in Tx, NEW r, r.holds = {}, r.shares = {},
         tx' = [tx EXCEPT ![t] = r]
  PROVE  Ranked'
  <1>1. \A o \in Tx : tx'[o] = IF o = t THEN r ELSE tx[o]
    BY DEF Typed, TypeOK
  <1> QED BY <1>1 DEF Ranked, Statement

\* A statement locks in its place, and the next one comes later.
LEMMA ExecuteRanked ==
  ASSUME Typed, Ranked, NEW t \in Tx, NEW s, NEW session, NEW picked,
         Reads(t, s, session, picked)
  PROVE  Ranked'
  <1> DEFINE new == [session EXCEPT !.step = @ + 1, !.holds = @ \cup Exclusive(t),
                                    !.shares = @ \cup Shared(t)]
  <1>1. At(t, s) /\ s # "commit" /\ tx' = [tx EXCEPT ![t] = new]
    BY DEF Execute, Reads
  <1>2. /\ new.cmd = tx[t].cmd /\ new.step = tx[t].step + 1
        /\ new.holds = tx[t].holds \cup picked \cup Exclusive(t)
        /\ new.shares = tx[t].shares \cup Shared(t)
    BY DEF Session, Reads
  <1> HIDE DEF new
  <1>3. \A o \in Tx : tx'[o] = IF o = t THEN new ELSE tx[o]
    BY <1>1 DEF Typed, TypeOK
  <1>4. tx[t].step \in Nat \ {0} /\ Statement(t) = s
    BY <1>1 DEF Typed, TypeOK, Session, At
  <1> SUFFICES ASSUME NEW o \in Tx, (tx[o].cmd \in Ordered)',
                      NEW l \in (tx[o].holds \cup tx[o].shares)'
               PROVE  LockRank(l) < Rank(Statement(o))'
    BY DEF Ranked, LockRank, Rank
  <1>5. CASE o # t
    BY <1>3, <1>5 DEF Ranked, Statement
  <1>6. CASE o = t
    <2>1. tx[t].cmd \in Ordered
      BY <1>2, <1>3, <1>6
    <2>2. tx[t].step \in DOMAIN PlanOf(tx[t].cmd) /\ PlanOf(tx[t].cmd)[tx[t].step] = s
      BY <1>1, <1>4 DEF Statement
    <2>3. Statement(t)' = StatementAt(tx[t].cmd, tx[t].step + 1)
      BY <1>2, <1>3 DEF Statement, StatementAt
    <2>4. \/ Rank(s) < Rank(Statement(t)')
          \/ s = "owned" /\ Rank(s) = Rank(Statement(t)')
      BY <1>4, <2>1, <2>2, <2>3, PlansFollowTheOrder
    <2>5. CASE l \in tx[t].holds \cup tx[t].shares
      <3>1. LockRank(l) < Rank(s)
        BY <1>4, <2>1, <2>5 DEF Ranked
      <3>2. LockRank(l) \in 1..4
        BY DEF LockRank
      <3> QED BY <1>6, <2>4, <3>1, <3>2, RankBounds
    <2>6. CASE l \in picked
      <3>1. s = "pick" /\ LockRank(l) = 2
        BY <2>6 DEF Reads, LockRank, PatchLock
      <3> QED BY <1>6, <2>4, <3>1, RankBounds DEF Rank
    <2>7. CASE l \in Exclusive(t) \cup Shared(t)
      <3>1. LockRank(l) = Rank(s)
        BY <1>4, <2>1, <2>7, LockedInPlace
      <3>2. s # "owned"
        BY <1>4, <2>7 DEF Exclusive, Shared
      <3> QED BY <1>6, <2>4, <3>1, <3>2
    <2> QED BY <1>2, <1>3, <1>6, <2>5, <2>6, <2>7
  <1> QED BY <1>5, <1>6

\* The lock order is kept by every step.
LEMMA StepRanked == Typed /\ Ranked /\ [Next]_vars => Ranked'
  <1> SUFFICES ASSUME Typed, Ranked, [Next]_vars PROVE Ranked'
    OBVIOUS
  <1>1. ASSUME UNCHANGED tx PROVE Ranked'
    BY <1>1 DEF Ranked, Statement
  <1>2. CASE Clock \/ UNCHANGED vars
    BY <1>1, <1>2 DEF Clock, TransferFallsDue, RecoveryWindowEnds, AttemptWindowEnds,
                      ClaimWindowEnds, vars
  <1>3. ASSUME NEW t \in Tx, Begin(t) PROVE Ranked'
    <2>1. PICK c, u, v, p, x : Start(t, c, u, v, p, x)
      BY <1>3, BeginShape
    <2> QED BY <2>1, StartShape, ResetRanked
  <1>4. ASSUME NEW t \in Tx, Read(t) PROVE Ranked'
    BY <1>4, ReadShape, ExecuteRanked
  <1>5. ASSUME NEW t \in Tx, Commit(t) \/ Abort(t) PROVE Ranked'
    <2>1. Idle.holds = {} /\ Idle.shares = {}
      BY DEF Idle
    <2> QED BY <1>5, <2>1, EndShape, ResetRanked
  <1> QED BY <1>2, <1>3, <1>4, <1>5 DEF Next

\* Whoever blocks an ordered transaction, and is ordered itself, is further in the order.
LEMMA BlockersAreAhead ==
  ASSUME Ranked, NEW t \in Tx, NEW o \in BlockedBy(t),
         tx[t].cmd \in Ordered, tx[o].cmd \in Ordered
  PROVE  Rank(Statement(t)) < Rank(Statement(o))
  <1>1. PICK l \in Exclusive(t) \cup Shared(t) : l \in tx[o].holds \cup tx[o].shares
    BY DEF BlockedBy, Conflicts
  <1>2. LockRank(l) = Rank(Statement(t))
    BY <1>1, LockedInPlace
  <1>3. LockRank(l) < Rank(Statement(o))
    BY <1>1 DEF Ranked, BlockedBy
  <1> QED BY <1>2, <1>3

\* Among ordered transactions, one that is furthest in the order waits for none of them.
LEMMA RankedNeverCycle == Ranked => NoLockCycle
  <1> SUFFICES ASSUME Ranked, NEW S \in SUBSET {t \in Tx : tx[t].cmd \in Ordered}, S # {},
                      \A t \in S : BlockedBy(t) \cap S # {}
               PROVE  FALSE
    BY DEF NoLockCycle
  <1>1. \A t \in S : \E o \in S : Rank(Statement(t)) < Rank(Statement(o))
    BY BlockersAreAhead
  <1> DEFINE place(t) == Rank(Statement(t))
  <1>2. \A t \in S : place(t) \in 1..6
    BY RankBounds
  <1>3. \A t \in S : \E o \in S : place(t) < place(o)
    BY <1>1
  <1> HIDE DEF place
  <1>4. PICK a \in S : TRUE
    OBVIOUS
  <1>5. PICK b \in S : place(a) < place(b)
    BY <1>3
  <1>6. PICK c \in S : place(b) < place(c)
    BY <1>3
  <1>7. PICK d \in S : place(c) < place(d)
    BY <1>3
  <1>8. PICK e \in S : place(d) < place(e)
    BY <1>3
  <1>9. PICK f \in S : place(e) < place(f)
    BY <1>3
  <1>10. PICK g \in S : place(f) < place(g)
    BY <1>3
  <1>11. /\ place(a) \in 1..6 /\ place(b) \in 1..6 /\ place(c) \in 1..6 /\ place(d) \in 1..6
         /\ place(e) \in 1..6 /\ place(f) \in 1..6 /\ place(g) \in 1..6
    BY <1>2
  <1> QED BY <1>5, <1>6, <1>7, <1>8, <1>9, <1>10, <1>11

\* However claims, assignments, abandonments and deletion requests of repository.ts
\* interleave, on any number of connections, no set of them waits in a circle: their
\* statements lock the principal's advisory lock, a patch, its offer and the principal's
\* row in one order.
THEOREM LocksAreOrdered == Spec => []NoLockCycle
  <1>1. Init => Typed /\ Ranked
    <2>1. Init => Ranked
      BY DEF Init, Ranked, Idle, Ordered
    <2> QED BY <2>1, InitTyped
  <1>2. Typed /\ Ranked /\ [Next]_vars => (Typed /\ Ranked)'
    BY StepTyped, StepRanked
  <1>3. Typed /\ Ranked => NoLockCycle
    BY RankedNeverCycle
  <1> QED BY <1>1, <1>2, <1>3, PTL DEF Spec
=============================================================================
