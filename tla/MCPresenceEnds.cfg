\* One connection, two reapers and failures; two tabs without failures.
SPECIFICATION Ends
CONSTANTS
  Principal = {u1}
  Socket = {s1, s2}
  Replica = {r1, r2}
  PrincipalOf <- Shared
  ReplicaOf <- Together
  Orphan = {}
  MaxFaults = 3
  NoPrincipal = NoPrincipal
  s1 = s1
  s2 = s2
  u1 = u1
  r1 = r1
  r2 = r2
ACTION_CONSTRAINT
  NoFaults
PROPERTIES
  LeaseEndsWithConnection
  LeaselessIsClosed
  LastLeaseLeavesRoster
\* The sockets of the bounds are used up once each.
CHECK_DEADLOCK FALSE
