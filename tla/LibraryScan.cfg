SPECIFICATION Spec
CONSTANTS
  a = a
  b = b
  c = c
  w1 = w1
  Order <- Order3
  Convertible = {}
  Contents = {h1}
  Unreadable = Unreadable
  Ids = {1, 2, 3, 4, 5}
  Workers = {w1}
  Watcher = Watcher
  Scanner = Scanner
  Filed = Filed
  None = None
  Happenings = {"claim", "lost"}
  MaxChanges = 2
INVARIANT TypeOK
INVARIANT RenameKeepsRow
