\* Automatic assignment against the acceptance of a transfer.
SPECIFICATION Spec
CONSTANTS
  Principal = {1, 2}
  Patch = {p1, p2}
  ClaimEnabled = {p1, p2}
  Transfer = {x1}
  Tx <- Sessions
  Command <- Racing
  AttemptLimit = 3
  AttemptBound = 1
  MaxRevision = 2
  NoOne = 0
  NoPatch = NoPatch
  NoTransfer = NoTransfer
  t1 = t1
  t2 = t2
SYMMETRY Symmetry
INVARIANTS
  OnePatchPerPrincipal
\* Once the transfers and revisions of the bounds are used up nothing remains to do.
CHECK_DEADLOCK FALSE
