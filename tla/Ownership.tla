----------------------------- MODULE Ownership -----------------------------
(***************************************************************************)
(* Patch ownership and principal lifecycle: the claim, automatic           *)
(* assignment, transfer, abandonment and account deletion transactions of  *)
(* apps/server/src/db/repository.ts, run concurrently against PostgreSQL.  *)
(*                                                                         *)
(* Every transaction is a program of SQL statements (Plan).  A statement   *)
(* is one step: under READ COMMITTED a FOR UPDATE read waits for the row   *)
(* lock and then copies the latest committed row into the transaction; the *)
(* guards and the new values of the commit step come from those COPIES.    *)
(* Foreign keys take FOR KEY SHARE locks on the principals a row names.    *)
(* Operation identifiers are fresh here: QuiltMutation models replay.     *)
(***************************************************************************)
EXTENDS Naturals, Sequences

CONSTANTS
  Principal,      \* principal ids, naturals so that "sorted by id" has a meaning
  Patch,          \* the patches of the canonical quilt
  ClaimEnabled,   \* those whose visibility policy allows claims
  Transfer,       \* transfer row ids (a bound: each is inserted at most once)
  Tx,             \* database connections, each running one transaction at a time
  Command,        \* the commands this instance issues
  AttemptLimit,   \* CLAIM_ATTEMPT_LIMIT
  AttemptBound,   \* bound: no claim starts after this many recent attempts
  MaxRevision,    \* bound: no command starts once a patch has this revision
  NoOne, NoPatch, NoTransfer

Commands == {"claim", "assign", "create", "accept", "cancel", "abandon",
             "expire", "request", "recover", "complete"}

ASSUME OwnershipAssumption ==
  /\ Principal \subseteq Nat
  /\ NoOne \notin Principal
  /\ NoPatch \notin Patch
  /\ NoTransfer \notin Transfer
  /\ ClaimEnabled \subseteq Patch
  /\ Command \subseteq Commands
  /\ AttemptLimit \in Nat
  /\ AttemptBound \in Nat
  /\ MaxRevision \in Nat

VARIABLES
  patches,     \* [owner, revision]; state is 'active' iff there is an owner
  members,     \* the principals with an owner membership of each patch
  transfers,   \* pending_ownership_transfers
  principals,  \* principals.status
  quota,       \* claim attempts and successes still inside their windows
  due,         \* transfers whose expiresAt has passed
  lapsed,      \* principals whose deletionRecoveryDeadline has passed
  tx           \* the transactions

rows == <<patches, members, transfers, principals, quota>>
time == <<due, lapsed>>
vars == <<rows, time, tx>>

-----------------------------------------------------------------------------
(* Locks and transactions *)

AdvisoryLock(u)  == <<"advisory", u>>
PatchLock(p)     == <<"patch", p>>
TransferLock(x)  == <<"transfer", x>>
PrincipalLock(u) == <<"principal", u>>
Lock == {AdvisoryLock(u) : u \in Principal} \cup {PrincipalLock(u) : u \in Principal}
          \cup {PatchLock(p) : p \in Patch} \cup {TransferLock(x) : x \in Transfer}

Row   == [owner : Principal \cup {NoOne}, revision : Nat]
Offer == [status : {"free", "pending", "accepted", "cancelled", "expired"},
          patch : Patch \cup {NoPatch},
          sender : Principal \cup {NoOne}, recipient : Principal \cup {NoOne}]
NoRow   == [owner |-> NoOne, revision |-> 0]
NoOffer == [status |-> "free", patch |-> NoPatch, sender |-> NoOne, recipient |-> NoOne]

Statements == {"advisory", "patch", "transfer", "actor", "lower", "upper", "owned",
               "quota", "pick", "pending", "ownedLock", "due", "shareActor", "shareOther",
               "shareDue"}

Status == {"active", "deletion_pending", "deleted"}

\* A transaction: who runs what, the next statement, its locks, what it has read.
Session ==
  [cmd : Commands \cup {"idle"}, step : Nat \ {0},
   actor : Principal \cup {NoOne}, other : Principal \cup {NoOne},
   patch : Patch \cup {NoPatch}, transfer : Transfer \cup {NoTransfer},
   holds : SUBSET Lock, shares : SUBSET Lock,
   row : Row, offer : Offer, standing : Status \cup {"unread"}, blocked : BOOLEAN]

Idle == [cmd |-> "idle", step |-> 1, actor |-> NoOne, other |-> NoOne,
         patch |-> NoPatch, transfer |-> NoTransfer, holds |-> {}, shares |-> {},
         row |-> NoRow, offer |-> NoOffer, standing |-> "unread", blocked |-> FALSE]

\* Faulty orders, for the mutation checks.
PrincipalFirst == <<"advisory", "actor", "patch", "quota">>
OwnedFirst     == <<"patch", "transfer", "ownedLock", "actor", "shareOther">>

\* The statements of each command in program order, up to its commit.
ClaimPlan  == <<"advisory", "patch", "actor", "quota">>
AssignPlan == <<"advisory", "owned", "pick", "shareActor">>
AcceptPlan == <<"patch", "transfer", "actor", "ownedLock", "shareOther">>
PlanOf(c) ==
  CASE c = "claim"    -> ClaimPlan
    [] c = "assign"   -> AssignPlan
    [] c = "accept"   -> AcceptPlan
    [] c = "create"   -> <<"patch", "lower", "upper", "pending">>
    [] c = "cancel"   -> <<"transfer", "patch", "shareActor", "shareOther">>
    [] c = "abandon"  -> <<"patch", "pending", "shareActor">>
    [] c = "expire"   -> <<"due", "shareDue">>
    [] c = "complete" -> <<"actor", "ownedLock">>
    [] OTHER          -> <<"actor">>

Statement(t) ==
  IF tx[t].step \in DOMAIN PlanOf(tx[t].cmd) THEN PlanOf(tx[t].cmd)[tx[t].step] ELSE "commit"

At(t, s) == tx[t].cmd # "idle" /\ Statement(t) = s

OwnedBy(u)    == {p \in Patch : patches[p].owner = u}
PendingFor(p) == {x \in Transfer : transfers[x].status = "pending" /\ transfers[x].patch = p}
DueTransfers  == {x \in due : transfers[x].status = "pending"}

Lower(u, v) == IF u < v THEN u ELSE v
Upper(u, v) == IF u < v THEN v ELSE u
OneOf(S)    == IF S = {} THEN {} ELSE {CHOOSE e \in S : TRUE}

\* .for('update') on the rows one select reads, and its omission (a fault).
NotForUpdate(locks) == {}
ForUpdate(locks)    == locks

\* The locks the next statement takes FOR UPDATE ...
Exclusive(t) ==
  LET s == Statement(t) IN
  CASE s = "advisory"  -> {AdvisoryLock(tx[t].actor)}
    [] s = "patch"     -> ForUpdate({PatchLock(tx[t].patch)})
    [] s = "transfer"  -> ForUpdate({TransferLock(tx[t].transfer)})
    [] s = "actor"     -> ForUpdate({PrincipalLock(tx[t].actor)})
    [] s = "lower"     -> {PrincipalLock(Lower(tx[t].actor, tx[t].other))}
    [] s = "upper"     -> {PrincipalLock(Upper(tx[t].actor, tx[t].other))}
    [] s = "pending"   -> {TransferLock(x) : x \in OneOf(PendingFor(tx[t].patch))}
    [] s = "ownedLock" -> {PatchLock(p) : p \in OneOf(OwnedBy(tx[t].actor))}
    [] s = "due"       -> {TransferLock(x) : x \in DueTransfers}
    [] OTHER           -> {}

\* ... and, for the foreign keys of the rows it inserts, FOR KEY SHARE; the audit rows of
\* an expiry name the recipients.
LockedTransfers(t) == {x \in Transfer : TransferLock(x) \in tx[t].holds}
Shared(t) ==
  CASE Statement(t) = "shareActor" -> {PrincipalLock(tx[t].actor)}
    [] Statement(t) = "shareOther" -> {PrincipalLock(tx[t].other)}
    [] Statement(t) = "shareDue"   -> {PrincipalLock(transfers[x].recipient) : x \in LockedTransfers(t)}
    [] OTHER                       -> {}

\* An exclusive lock excludes every other lock, a shared one exclusive locks.
Conflicts(o, exclusive, shared) ==
  \/ exclusive \cap (tx[o].holds \cup tx[o].shares) # {}
  \/ shared \cap tx[o].holds # {}
BlockedBy(t) == {o \in Tx \ {t} : Conflicts(o, Exclusive(t), Shared(t))}

-----------------------------------------------------------------------------
Init ==
  /\ patches = [p \in Patch |-> NoRow]
  /\ members = [p \in Patch |-> {}]
  /\ transfers = [x \in Transfer |-> NoOffer]
  /\ principals = [u \in Principal |-> "active"]
  /\ quota = [u \in Principal |-> [attempts |-> 0, claims |-> 0]]
  /\ due = {} /\ lapsed = {}
  /\ tx = [t \in Tx |-> Idle]

(* Requests.  The HTTP guards look at the principal's status only here. *)

Start(t, c, u, v, p, x) ==
  /\ c \in Command
  /\ tx[t].cmd = "idle"
  /\ \A q \in Patch : patches[q].revision < MaxRevision
  /\ tx' = [tx EXCEPT ![t] = [Idle EXCEPT !.cmd = c, !.actor = u, !.other = v,
                                          !.patch = p, !.transfer = x]]
  /\ UNCHANGED <<rows, time>>

StartClaim(t) ==
  \E u \in Principal, p \in Patch :
    /\ principals[u] = "active"
    /\ quota[u].attempts < AttemptBound
    /\ Start(t, "claim", u, NoOne, p, NoTransfer)

StartAssign(t) ==
  \E u \in Principal :
    principals[u] = "active" /\ Start(t, "assign", u, NoOne, NoPatch, NoTransfer)

\* pending_ownership_transfers_distinct_principals_check rejects sender = recipient.
StartCreate(t) ==
  \E u, v \in Principal, p \in Patch, x \in Transfer :
    /\ principals[u] = "active" /\ u # v
    /\ transfers[x].status = "free"
    /\ \A o \in Tx : tx[o].transfer # x
    /\ Start(t, "create", u, v, p, x)

StartAccept(t) ==
  \E u \in Principal, x \in Transfer :
    /\ principals[u] = "active" /\ transfers[x].status # "free"
    /\ Start(t, "accept", u, transfers[x].sender, transfers[x].patch, x)

StartCancel(t) ==
  \E u \in Principal, x \in Transfer :
    /\ principals[u] = "active" /\ transfers[x].status # "free"
    /\ Start(t, "cancel", u, transfers[x].recipient, transfers[x].patch, x)

StartAbandon(t) ==
  \E u \in Principal, p \in Patch :
    principals[u] = "active" /\ Start(t, "abandon", u, NoOne, p, NoTransfer)

StartExpire(t) == Start(t, "expire", NoOne, NoOne, NoPatch, NoTransfer)

StartRequest(t) ==
  \E u \in Principal :
    principals[u] = "active" /\ Start(t, "request", u, NoOne, NoPatch, NoTransfer)

StartRecover(t) ==
  \E u \in Principal :
    principals[u] = "deletion_pending" /\ Start(t, "recover", u, NoOne, NoPatch, NoTransfer)

\* listDuePrincipalDeletionIds selects the candidates, each then gets a transaction.
StartComplete(t) ==
  \E u \in lapsed :
    /\ principals[u] = "deletion_pending"
    /\ Start(t, "complete", u, NoOne, NoPatch, NoTransfer)

-----------------------------------------------------------------------------
(* Statements: each waits for its locks and copies what it reads. *)

Execute(t, s, session) ==
  /\ At(t, s)
  /\ BlockedBy(t) = {}
  /\ tx' = [tx EXCEPT ![t] = [session EXCEPT !.step = @ + 1,
                                            !.holds = @ \cup Exclusive(t),
                                            !.shares = @ \cup Shared(t)]]
  /\ UNCHANGED <<rows, time>>

TakeAdvisoryLock(t) == Execute(t, "advisory", tx[t])

ReadPatch(t) ==
  Execute(t, "patch", [tx[t] EXCEPT !.row = patches[tx[t].patch]])

ReadTransfer(t) ==
  Execute(t, "transfer", [tx[t] EXCEPT !.offer = transfers[tx[t].transfer]])

ReadActor(t) ==
  Execute(t, "actor", [tx[t] EXCEPT !.standing = principals[tx[t].actor]])

\* createOwnershipTransfer locks both principals in id order and judges the recipient.
ReadParties(t) ==
  \/ Execute(t, "lower", [tx[t] EXCEPT !.standing = principals[tx[t].other]])
  \/ Execute(t, "upper", [tx[t] EXCEPT !.standing = principals[tx[t].other]])

\* A plain read of the principal's active patches.
ReadOwned(t) ==
  Execute(t, "owned", [tx[t] EXCEPT !.blocked = OwnedBy(tx[t].actor) # {}])

\* Fault: one attempt too many.
ReadQuotaPastLimit(t) ==
  Execute(t, "quota", [tx[t] EXCEPT !.blocked = \/ quota[tx[t].actor].attempts > AttemptLimit
                                               \/ quota[tx[t].actor].claims >= 1
                                               \/ OwnedBy(tx[t].actor) # {}])

\* The quota counts, and a plain read of the principal's active patches.
ReadQuota(t) ==
  Execute(t, "quota", [tx[t] EXCEPT !.blocked = \/ quota[tx[t].actor].attempts >= AttemptLimit
                                               \/ quota[tx[t].actor].claims >= 1
                                               \/ OwnedBy(tx[t].actor) # {}])

\* ORDER BY random() FOR UPDATE SKIP LOCKED: any claimable patch nobody has locked.
Claimable(t) ==
  {p \in ClaimEnabled : /\ patches[p].owner = NoOne
                        /\ \A o \in Tx \ {t} : ~Conflicts(o, {PatchLock(p)}, {})}

PickPatch(t) ==
  /\ ~tx[t].blocked
  /\ \E p \in Claimable(t) :
       Execute(t, "pick", [tx[t] EXCEPT !.patch = p, !.row = patches[p],
                                        !.holds = @ \cup {PatchLock(p)}])

ReadPending(t) ==
  Execute(t, "pending", [tx[t] EXCEPT !.blocked = PendingFor(tx[t].patch) # {}])

ReadOwnedForUpdate(t) ==
  Execute(t, "ownedLock", [tx[t] EXCEPT !.blocked = OwnedBy(tx[t].actor) # {}])

ReadDue(t) == Execute(t, "due", tx[t])

CheckForeignKeys(t) ==
  \/ Execute(t, "shareActor", tx[t])
  \/ Execute(t, "shareOther", tx[t])
  \/ Execute(t, "shareDue", tx[t])

-----------------------------------------------------------------------------
(* Commits: the guards and the new rows come from the transaction's copies. *)

Ready(t, c) == tx[t].cmd = c /\ Statement(t) = "commit"

\* Fault: a revision falls.
SetOwnerBackwards(t, u) ==
  patches' = [patches EXCEPT ![tx[t].patch] = [owner |-> u, revision |-> tx[t].row.revision - 1]]

Finish(t) == tx' = [tx EXCEPT ![t] = Idle] /\ UNCHANGED time

SetOwner(t, u) ==
  patches' = [patches EXCEPT ![tx[t].patch] = [owner |-> u, revision |-> tx[t].row.revision + 1]]

ClaimAllowed(t) ==
  /\ tx[t].standing = "active"
  /\ tx[t].row.owner = NoOne
  /\ tx[t].patch \in ClaimEnabled
  /\ ~tx[t].blocked

\* Every attempt is recorded, the denied ones too.
CommitClaim(t) ==
  LET u == tx[t].actor
      p == tx[t].patch IN
  /\ Ready(t, "claim")
  /\ \/ /\ ClaimAllowed(t)
        /\ SetOwner(t, u)
        /\ members' = [members EXCEPT ![p] = @ \cup {u}]
        /\ quota' = [quota EXCEPT ![u] = [attempts |-> @.attempts + 1, claims |-> @.claims + 1]]
     \/ /\ ~ClaimAllowed(t)
        /\ quota' = [quota EXCEPT ![u].attempts = @ + 1]
        /\ UNCHANGED <<patches, members>>
  /\ UNCHANGED <<transfers, principals>>
  /\ Finish(t)

CommitAssign(t) ==
  /\ Ready(t, "assign")
  /\ SetOwner(t, tx[t].actor)
  /\ members' = [members EXCEPT ![tx[t].patch] = @ \cup {tx[t].actor}]
  /\ UNCHANGED <<transfers, principals, quota>>
  /\ Finish(t)

\* ensureCanonicalPatchAssignment returns early: a patch is owned, or none is free.
ReturnAssign(t) ==
  /\ At(t, "pick")
  /\ tx[t].blocked \/ Claimable(t) = {}
  /\ UNCHANGED rows
  /\ Finish(t)

CreateAllowed(t) ==
  /\ tx[t].standing = "active"
  /\ tx[t].row.owner = tx[t].actor
  /\ ~tx[t].blocked

CommitCreate(t) ==
  /\ Ready(t, "create")
  /\ \/ /\ CreateAllowed(t)
        /\ transfers' = [transfers EXCEPT ![tx[t].transfer] =
             [status |-> "pending", patch |-> tx[t].patch,
              sender |-> tx[t].actor, recipient |-> tx[t].other]]
     \/ ~CreateAllowed(t) /\ UNCHANGED transfers
  /\ UNCHANGED <<patches, members, principals, quota>>
  /\ Finish(t)

\* Faults of acceptance: no check that the transfer is still pending, the sender's
\* membership kept.
AcceptWithdrawn(t) ==
  /\ tx[t].standing = "active"
  /\ tx[t].offer.recipient = tx[t].actor
  /\ tx[t].row.owner = tx[t].offer.sender
  /\ ~tx[t].blocked
AddMember(S, sender, recipient) == S \cup {recipient}

SwapMember(S, sender, recipient) == (S \ {sender}) \cup {recipient}

AcceptAllowed(t) ==
  /\ tx[t].standing = "active"
  /\ tx[t].offer.status = "pending" /\ tx[t].transfer \notin due
  /\ tx[t].offer.recipient = tx[t].actor
  /\ tx[t].row.owner = tx[t].offer.sender
  /\ ~tx[t].blocked

CommitAccept(t) ==
  LET offer == tx[t].offer IN
  /\ Ready(t, "accept")
  /\ \/ /\ AcceptAllowed(t)
        /\ SetOwner(t, offer.recipient)
        /\ members' = [members EXCEPT ![tx[t].patch] = SwapMember(@, offer.sender, offer.recipient)]
        /\ transfers' = [transfers EXCEPT ![tx[t].transfer].status = "accepted"]
     \/ ~AcceptAllowed(t) /\ UNCHANGED <<patches, members, transfers>>
  /\ UNCHANGED <<principals, quota>>
  /\ Finish(t)

CancelAllowed(t) ==
  tx[t].offer.status = "pending" /\ tx[t].row.owner = tx[t].actor

CommitCancel(t) ==
  /\ Ready(t, "cancel")
  /\ \/ /\ CancelAllowed(t)
        /\ transfers' = [transfers EXCEPT ![tx[t].transfer].status = "cancelled"]
     \/ ~CancelAllowed(t) /\ UNCHANGED transfers
  /\ UNCHANGED <<patches, members, principals, quota>>
  /\ Finish(t)

AbandonOffered(t) == tx[t].row.owner = tx[t].actor   \* fault: the offer is ignored

AbandonAllowed(t) == tx[t].row.owner = tx[t].actor /\ ~tx[t].blocked

CommitAbandon(t) ==
  /\ Ready(t, "abandon")
  /\ \/ /\ AbandonAllowed(t)
        /\ SetOwner(t, NoOne)
        /\ members' = [members EXCEPT ![tx[t].patch] = @ \ {tx[t].actor}]
     \/ ~AbandonAllowed(t) /\ UNCHANGED <<patches, members>>
  /\ UNCHANGED <<transfers, principals, quota>>
  /\ Finish(t)

CommitExpire(t) ==
  /\ Ready(t, "expire")
  /\ transfers' = [x \in Transfer |-> IF x \in LockedTransfers(t)
                                        THEN [transfers[x] EXCEPT !.status = "expired"]
                                        ELSE transfers[x]]
  /\ UNCHANGED <<patches, members, principals, quota>>
  /\ Finish(t)

SetStatus(t, allowed, status) ==
  /\ \/ allowed /\ principals' = [principals EXCEPT ![tx[t].actor] = status]
     \/ ~allowed /\ UNCHANGED principals
  /\ UNCHANGED <<patches, members, transfers, quota>>
  /\ tx' = [tx EXCEPT ![t] = Idle]
  /\ UNCHANGED due

\* The new deletionRecoveryDeadline lies ahead.
CommitRequest(t) ==
  /\ Ready(t, "request")
  /\ SetStatus(t, tx[t].standing = "active", "deletion_pending")
  /\ lapsed' = IF tx[t].standing = "active" THEN lapsed \ {tx[t].actor} ELSE lapsed

RecoverAllowed(t) == tx[t].standing = "deletion_pending" /\ tx[t].actor \notin lapsed

CommitRecover(t) ==
  /\ Ready(t, "recover")
  /\ SetStatus(t, RecoverAllowed(t), "active")
  /\ UNCHANGED lapsed

CompleteOwning(t) ==   \* fault: ownership is not resolved first
  tx[t].standing = "deletion_pending" /\ tx[t].actor \in lapsed

CompleteAllowed(t) ==
  /\ tx[t].standing = "deletion_pending"
  /\ tx[t].actor \in lapsed
  /\ ~tx[t].blocked

CommitComplete(t) ==
  \E retentionApproved \in BOOLEAN :
    /\ Ready(t, "complete")
    /\ SetStatus(t, CompleteAllowed(t) /\ retentionApproved, "deleted")
    /\ UNCHANGED lapsed

\* A crash, a lost connection, a failed statement, or PostgreSQL's deadlock victim.
Abort(t) ==
  /\ tx[t].cmd # "idle"
  /\ UNCHANGED rows
  /\ Finish(t)

-----------------------------------------------------------------------------
(* The clock: seven days, thirty days, ten minutes, twenty-four hours. *)

TransferFallsDue(x) ==
  /\ transfers[x].status = "pending" /\ x \notin due
  /\ due' = due \cup {x}
  /\ UNCHANGED <<rows, lapsed, tx>>

\* The thirty days may end with any request of the principal in flight but a discovery,
\* which looks at the status before the window opens and does not last that long.
RecoveryWindowEnds(u) ==
  /\ principals[u] = "deletion_pending" /\ u \notin lapsed
  /\ \A t \in Tx : tx[t].actor = u => tx[t].cmd # "assign"
  /\ lapsed' = lapsed \cup {u}
  /\ UNCHANGED <<rows, due, tx>>

AttemptWindowEnds(u) ==
  /\ quota[u].attempts > 0
  /\ quota' = [quota EXCEPT ![u].attempts = @ - 1]
  /\ UNCHANGED <<patches, members, transfers, principals, time, tx>>

ClaimWindowEnds(u) ==
  /\ quota[u].claims > 0
  /\ quota' = [quota EXCEPT ![u].claims = @ - 1]
  /\ UNCHANGED <<patches, members, transfers, principals, time, tx>>

-----------------------------------------------------------------------------
Begin(t) ==
  \/ StartClaim(t)   \/ StartAssign(t)  \/ StartCreate(t)  \/ StartAccept(t)
  \/ StartCancel(t)  \/ StartAbandon(t) \/ StartExpire(t)  \/ StartRequest(t)
  \/ StartRecover(t) \/ StartComplete(t)

Read(t) ==
  \/ TakeAdvisoryLock(t) \/ ReadPatch(t) \/ ReadTransfer(t) \/ ReadActor(t)
  \/ ReadParties(t) \/ ReadOwned(t) \/ ReadQuota(t) \/ PickPatch(t)
  \/ ReadPending(t) \/ ReadOwnedForUpdate(t) \/ ReadDue(t) \/ CheckForeignKeys(t)

Commit(t) ==
  \/ CommitClaim(t)   \/ CommitAssign(t)  \/ ReturnAssign(t)  \/ CommitCreate(t)
  \/ CommitAccept(t)  \/ CommitCancel(t)  \/ CommitAbandon(t) \/ CommitExpire(t)
  \/ CommitRequest(t) \/ CommitRecover(t) \/ CommitComplete(t)

Clock ==
  \/ \E x \in Transfer : TransferFallsDue(x)
  \/ \E u \in Principal : RecoveryWindowEnds(u) \/ AttemptWindowEnds(u) \/ ClaimWindowEnds(u)

Next == Clock \/ \E t \in Tx : Begin(t) \/ Read(t) \/ Commit(t) \/ Abort(t)

Spec == Init /\ [][Next]_vars

-----------------------------------------------------------------------------
(* Type correctness *)

\* Every table and transaction stays well formed; each lock has one exclusive holder.
TypeOK ==
  /\ patches \in [Patch -> Row]
  /\ members \in [Patch -> SUBSET Principal]
  /\ transfers \in [Transfer -> Offer]
  /\ principals \in [Principal -> Status]
  /\ quota \in [Principal -> [attempts : Nat, claims : Nat]]
  /\ due \subseteq Transfer
  /\ lapsed \subseteq Principal
  /\ tx \in [Tx -> Session]

(* Safety *)

\* The statements a transaction has completed.
Has(t, s) == \E i \in DOMAIN PlanOf(tx[t].cmd) : i < tx[t].step /\ PlanOf(tx[t].cmd)[i] = s

\* Two-phase locking works: what a transaction read FOR UPDATE is still the committed
\* row when it commits, so no other command's write is lost between the two.
LockedReadsAreCurrent ==
  \A t \in Tx :
    /\ Has(t, "patch") \/ Has(t, "pick") => tx[t].row = patches[tx[t].patch]
    /\ Has(t, "transfer") => tx[t].offer = transfers[tx[t].transfer]
    /\ Has(t, "actor") => tx[t].standing = principals[tx[t].actor]
    /\ Has(t, "upper") => tx[t].standing = principals[tx[t].other]

\* A transfer that can still be accepted is an offer of the patch's present owner, and
\* the only one: no command leaves an offer behind when ownership changes.
OffersComeFromTheOwner ==
  \A x \in Transfer : transfers[x].status = "pending" =>
    /\ transfers[x].sender = patches[transfers[x].patch].owner
    /\ PendingFor(transfers[x].patch) = {x}

\* The membership table, which authorizes reads, names exactly the owner.
MembersAreOwners ==
  \A p \in Patch : members[p] = {patches[p].owner} \ {NoOne}

\* One active patch per principal and quilt. (Violated: run ownership_race.)
OnePatchPerPrincipal ==
  \A p, q \in Patch : p # q /\ patches[p].owner # NoOne => patches[p].owner # patches[q].owner

\* Account deletion completes only for principals that own nothing, and nothing
\* reaches them afterwards.
DeletedOwnNothing ==
  \A u \in Principal : principals[u] = "deleted" =>
    OwnedBy(u) = {} /\ \A p \in Patch : u \notin members[p]

(* Action properties *)

\* Any change of a patch's owner moves its revision by exactly one, so that a tile
\* write authorized under the former owner fails its revision check.
OwnershipMovesRevision ==
  [][\A p \in Patch : patches'[p] # patches[p] =>
        /\ patches'[p].owner # patches[p].owner
        /\ patches'[p].revision = patches[p].revision + 1]_vars

\* A claim succeeds only while, at its commit, the principal has fewer than
\* CLAIM_ATTEMPT_LIMIT recent attempts and no recent success, however its claims of
\* different patches interleave.
ClaimsStayInQuota ==
  [][\A u \in Principal : quota'[u].claims > quota[u].claims =>
        quota[u].claims = 0 /\ quota[u].attempts < AttemptLimit]_vars

\* Nobody whose deletion is pending or complete receives a patch by a claim or a transfer.
\* (Automatic assignment looks at the status before its transaction only.)
OnlyActiveReceive ==
  [][\A p \in Patch : patches'[p].owner # patches[p].owner =>
        \/ patches'[p].owner = NoOne \/ principals[patches'[p].owner] = "active"
        \/ \E t \in Tx : Ready(t, "assign") /\ tx[t].patch = p]_vars

\* Whoever gains a patch by a claim or by accepting a transfer owns none at that commit,
\* whatever other claims, acceptances and assignments of the principal run beside it: only
\* an automatic assignment can add a second patch.
ClaimsAndTransfersKeepQuota ==
  [][\A p \in Patch : patches'[p].owner \notin {patches[p].owner, NoOne} =>
        \/ OwnedBy(patches'[p].owner) = {}
        \/ \E t \in Tx : Ready(t, "assign") /\ tx[t].patch = p]_vars

(* Deadlock *)

\* The commands that take the principal's advisory lock, a patch and its offers, and the
\* principal's row in this order.
Ordered == {"claim", "assign", "abandon", "request"}

\* Claims, assignments, abandonment and deletion requests take their locks in one order
\* (principal advisory lock, patch, its offer, principal row), so no schedule makes them
\* wait on each other; transfers may break the order, and the deadlock detector resolves it.
NoLockCycle ==
  \A S \in SUBSET {t \in Tx : tx[t].cmd \in Ordered} :
    S # {} => \E t \in S : BlockedBy(t) \cap S = {}

(* Refinement *)

owner == [p \in Patch |-> patches[p].owner]
offer == [p \in Patch |->
            IF PendingFor(p) = {} THEN NoOne
            ELSE transfers[CHOOSE x \in PendingFor(p) : TRUE].recipient]

Lifecycle == INSTANCE PatchLifecycle WITH owner <- owner, offer <- offer

\* The interleaved transactions implement the atomic patch lifecycle.
ImplementsLifecycle == Lifecycle!Spec
=============================================================================
