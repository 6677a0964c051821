SPECIFICATION Spec
CONSTANTS
  j1 = j1
  j2 = j2
  c1 = c1
  u1 = u1
  u2 = u2
  p1 = p1
  p2 = p2
  Queue = Queue
  None = None
  Jobs = {j1, j2}
  Clients = {c1}
  Users = {u1, u2}
  Owner <- MCOwner
  Started <- MCStarted
  SnapshotLimit = 1
  Admins = {u2}
  Pubs = {p1, p2}
  Buffer = 2
  MaxChanges = 2
  MaxDials = 3
SYMMETRY Symmetry
INVARIANTS
  TypeOK
  QuietPageIsTrue
\* Changes and dials are bounded, and nothing has to happen on a quiet page.
CHECK_DEADLOCK FALSE
