SPECIFICATION Spec
CONSTANTS
  u1 = u1
  u2 = u2
  x1 = x1
  x2 = x2
  k1 = k1
  k2 = k2
  t1 = t1
  r1 = r1
  r2 = r2
  None = None
  Gone = Gone
  Users = {u1, u2}
  Admins = {u1}
  Comics = {x1, x2}
  Colls = {k1, k2}
  Tags = {t1}
  Requests = {r1, r2}
  Asks <- MCAsks
  Orders <- MCOrders
  Shelf <- MCShelf
  Held <- MCHeld
  Kept <- MCKept
  MaxPlace = 2
  MaxCalls = 3
SYMMETRY Symmetry
INVARIANTS
  TypeOK
  NothingDangles
  OrderIsClear
  EditsLandWhole
PROPERTIES
  OnlyOwnersExpose
  OnlyOwnersChange
  RetagsKeep
