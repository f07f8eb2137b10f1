SPECIFICATION Spec
CONSTANTS
  f1 = f1
  f2 = f2
  b1 = b1
  b2 = b2
  Importers = {i1, i2}
  Files = {f1}
  Isins = {b1, b2}
  Rows <- OneFile
  Unreadable = Unreadable
  Malformed = Malformed
  CutIsins = {x}
  MaxWrites = 1
  MaxFaults = 1
INVARIANTS
  DuplicatesBounded
  MissingHaveFailed
CHECK_DEADLOCK FALSE
