SPECIFICATION FairSpec
CONSTANTS
  a = a
  b = b
  c = c
  w1 = w1
  Order <- Order2
  Convertible = {b}
  Contents = {h1, h2}
  Unreadable = Unreadable
  Ids = {1, 2, 3, 4, 5}
  Workers = {w1}
  Watcher = Watcher
  Scanner = Scanner
  Filed = Filed
  None = None
  Happenings = {"lost", "unreadable", "restart", "claim", "delete", "upload", "converted"}
  MaxChanges = 2
INVARIANT CalmScanAgrees
INVARIANT WritesDoNotCollide
PROPERTY Converges
