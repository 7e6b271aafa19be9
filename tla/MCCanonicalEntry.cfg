\* The world comes up under two initializers and an operator; one page enters, stays, leaves.
SPECIFICATION SceneSpec
CONSTANTS
  Initializer = {i1, i2}
  Quilt = {q1, q2}
  Geometry = {g1, g2}
  Deployed = g1
  NoQuilt = NoQuilt
  CrashBound = 2
  Socket = {1, 2}
  MaxHandshake = 3
  LossBound = 1
  ReplacementBound = 1
  i1 = i1
  i2 = i2
  q1 = q1
ACTION_CONSTRAINT
  OneMishap
INVARIANTS
  TypeOK
  RefusedForAReason
  ClientReportsOnce
  RefusedOnlyAfterLoss
  LineageInHand
PROPERTIES
  NeverReplaced
  WorldComesUp
  InactiveWorldIsLeft
\* The page and the initializers end.
CHECK_DEADLOCK FALSE
