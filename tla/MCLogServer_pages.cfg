SPECIFICATION Spec
CONSTANTS
  Requests = {q1}
  Starts <- FirstParameters
  Ends = {0, 2, 3, 5}
  MaxDocuments = 4
INVARIANTS
  TypeOK
  PageIsRight
CHECK_DEADLOCK FALSE
