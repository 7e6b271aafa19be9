\* A message passed over by the history and by the events is passed over by the cursor.
SPECIFICATION SceneSpec
ACTION_CONSTRAINT Away
CONSTANTS
  Client = {c1, c2}
  Principal = {p1, p2}
  PrincipalOf <- Account
  Message = {m1, m2, m3}
  AuthorOf <- Writer
  Call <- Calls
  PageSize = 1
  MaxEvents = 1
  c1 = c1
  c2 = c2
  p1 = p1
  p2 = p2
  m1 = m1
  m2 = m2
  m3 = m3
INVARIANTS
  ReplayIsComplete
\* Every message has been sent.
CHECK_DEADLOCK FALSE
