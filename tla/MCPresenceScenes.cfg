\* Two sockets of one principal; two reapers after a restart.
SPECIFICATION Scenes
CONSTANTS
  Principal = {u1, u2}
  Socket = {s1, s2, s3}
  Replica = {r1, r2}
  PrincipalOf <- Owners
  ReplicaOf <- Together
  Orphan = {s1, s2}
  MaxFaults = 2
  NoPrincipal = NoPrincipal
  s1 = s1
  s2 = s2
  s3 = s3
  u1 = u1
  u2 = u2
  r1 = r1
  r2 = r2
ACTION_CONSTRAINT
  Bounds
PROPERTIES
  LastLeaseIsDecided
INVARIANTS
  TypeOK
  LeasedIsPresent
\* The sockets of the bounds are used up once each.
CHECK_DEADLOCK FALSE
