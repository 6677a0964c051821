SPECIFICATION FairSpec
CONSTANTS
  d1 = d1
  d2 = d2
  x1 = x1
  s1 = s1
  s2 = s2
  s3 = s3
  None = None
  Devices = {d1}
  Comics = {x1}
  Slots = {s1, s2}
  LastPage = 1
  Positions <- MCOnePosition
  Skew <- MCSkew
  Epoch = 1
  MaxTime = 2
  MaxTurns = 2
  Faults = {"lost", "refused", "offline", "close"}
\* Readers stop turning pages.
CHECK_DEADLOCK FALSE
PROPERTIES
  ReplayFinishes
