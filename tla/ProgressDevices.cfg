SPECIFICATION Spec
CONSTANTS
  d1 = d1
  d2 = d2
  x1 = x1
  s1 = s1
  s2 = s2
  s3 = s3
  None = None
  Devices = {d1, d2}
  Comics = {x1}
  Slots = {s1, s2}
  LastPage = 1
  Positions <- MCPositions
  Skew <- MCSkew
  Epoch = 1
  MaxTime = 2
  MaxTurns = 2
  Faults = {"lost", "close"}
SYMMETRY Symmetry
\* Readers stop turning pages.
CHECK_DEADLOCK FALSE
INVARIANTS
  TypeOK
  NoneFromFuture
  SettlesOnNewest
PROPERTIES
  LateClaimOnlyCompletes
