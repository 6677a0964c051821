SPECIFICATION Spec
CONSTANTS
  j1 = j1
  j2 = j2
  u1 = u1
  f1 = f1
  f2 = f2
  w1 = w1
  c1 = c1
  c2 = c2
  None = None
  NoJob = NoJob
  Jobs = {j1, j2}
  Users = {u1}
  Files = {f1}
  Content <- MCContent
  Workers = {w1}
  Clients = {c1}
  MaxPerUser = 1
  MaxStarts = 1
  MaxSeq = 5
  Calls = {"upload", "library", "cancel", "clear", "reorder"}
  StoreErrors = TRUE
SYMMETRY Symmetry
\* The process may be stopped for good.
CHECK_DEADLOCK FALSE
INVARIANTS
  QueueIsOrdered
  CapHolds
  DoneHasComic
PROPERTIES
  OnlyLateSavesRevive
