SPECIFICATION Spec
CONSTANTS
  Instants <- ClockInstants
  Unanswered = Unanswered
  InitialLogs = 3
  TypedNumbers = {0, 1}
  FirstCards = 1
  MoreCards = 1
  MaxLogs = 3
  MaxRequests = 2
INVARIANTS
  ShowsWhatWasAsked
  NothingHidden
  PercentilesAreRight
  ShownIsElapsed
CHECK_DEADLOCK FALSE
