SPECIFICATION FairSpec
CONSTANTS
  Clients = {c1}
  Servers = {s1, s2}
  Cids = {r1, r2}
  NoQueue = NoQueue
  NoRequest = NoRequest
  MaxCrashes = 1
  MaxLosses = 1
INVARIANTS
  TypeOK
  NoRequestLost
  ResponsesExpected
  RepeatsNeedFailures
PROPERTIES
  ImplementsCalcService
  RequestsAreAnswered
  RequestsAreRecorded
CHECK_DEADLOCK FALSE
