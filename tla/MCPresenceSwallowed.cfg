\* Two sockets of one principal, nothing late, nothing failing.
SPECIFICATION Spec
CONSTANTS
  Principal = {u1}
  Socket = {s1, s2}
  Replica = {r1}
  PrincipalOf <- Shared
  ReplicaOf <- Together
  Orphan = {}
  MaxFaults = 0
  NoPrincipal = NoPrincipal
  s1 = s1
  s2 = s2
  u1 = u1
  r1 = r1
  r2 = r2
INVARIANTS
  DepartedIsAbsent
\* The sockets of the bounds are used up once each.
CHECK_DEADLOCK FALSE
