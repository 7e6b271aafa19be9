\* Every ownership command: claims, transfers, assignment and account deletion.
SPECIFICATION Spec
CONSTANTS
  Principal = {1, 2}
  Patch = {p1, p2}
  ClaimEnabled = {p1, p2}
  Transfer = {x1}
  Tx <- Sessions
  Command <- Commands
  AttemptLimit = 1
  AttemptBound = 2
  MaxRevision = 2
  NoOne = 0
  NoPatch = NoPatch
  NoTransfer = NoTransfer
  t1 = t1
  t2 = t2
SYMMETRY Symmetry
ACTION_CONSTRAINT
  Scenes
INVARIANTS
  TypeOK
  OffersComeFromTheOwner
  MembersAreOwners
  DeletedOwnNothing
  NoLockCycle
PROPERTIES
  OwnershipMovesRevision
  ClaimsStayInQuota
  ClaimsAndTransfersKeepQuota
  ImplementsLifecycle
\* Once the transfers and revisions of the bounds are used up nothing remains to do.
CHECK_DEADLOCK FALSE
