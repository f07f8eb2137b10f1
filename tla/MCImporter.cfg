SPECIFICATION FairSpec
CONSTANTS
  f1 = f1
  f2 = f2
  b1 = b1
  b2 = b2
  Importers = {i1}
  Files = {f1, f2}
  Isins = {b1}
  Rows <- TwoFiles
  Unreadable = Unreadable
  Malformed = Malformed
  CutIsins = {}
  MaxWrites = 3
  MaxFaults = 1
INVARIANTS
  TypeOK
  WaitingIsCurrent
  StoredIsCurrent
PROPERTIES
  ImportedUnlessMissed
CHECK_DEADLOCK FALSE
