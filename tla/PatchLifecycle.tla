--------------------------- MODULE PatchLifecycle ---------------------------
(***************************************************************************)
(* What patch ownership promises, without transactions, locks or copies: a *)
(* patch is taken, offered to one principal, handed over to exactly that   *)
(* principal, and given up only while no offer stands.                     *)
(***************************************************************************)
CONSTANTS Principal, Patch, NoOne

VARIABLES
  owner,   \* the active owner of each patch, or NoOne
  offer    \* the recipient of its pending transfer, or NoOne

lifecycle == <<owner, offer>>

Init ==
  /\ owner = [p \in Patch |-> NoOne]
  /\ offer = [p \in Patch |-> NoOne]

\* claimPatch and ensureCanonicalPatchAssignment
Take(p, u) ==
  /\ owner[p] = NoOne /\ offer[p] = NoOne
  /\ owner' = [owner EXCEPT ![p] = u]
  /\ UNCHANGED offer

\* createOwnershipTransfer
Propose(p, u) ==
  /\ owner[p] \in Principal \ {u} /\ offer[p] = NoOne
  /\ offer' = [offer EXCEPT ![p] = u]
  /\ UNCHANGED owner

\* acceptOwnershipTransfer
HandOver(p) ==
  /\ offer[p] # NoOne
  /\ owner' = [owner EXCEPT ![p] = offer[p]]
  /\ offer' = [offer EXCEPT ![p] = NoOne]

\* cancelOwnershipTransfer, and expireOwnershipTransfers for several patches at once
Withdraw(S) ==
  /\ offer' = [p \in Patch |-> IF p \in S THEN NoOne ELSE offer[p]]
  /\ UNCHANGED owner

\* abandonPatch
GiveUp(p) ==
  /\ owner[p] # NoOne /\ offer[p] = NoOne
  /\ owner' = [owner EXCEPT ![p] = NoOne]
  /\ UNCHANGED offer

Next ==
  \/ \E S \in SUBSET Patch : Withdraw(S)
  \/ \E p \in Patch : HandOver(p) \/ GiveUp(p)
  \/ \E p \in Patch, u \in Principal : Take(p, u) \/ Propose(p, u)

Spec == Init /\ [][Next]_lifecycle
=============================================================================
