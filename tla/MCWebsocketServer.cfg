SPECIFICATION ServerFairSpec
CONSTANTS
  Clients = {c1, c2, c3}
  MaxInt = 3
  NotANumber = NotANumber
  Messages <- SentMessages
  MaxMessages = 2
INVARIANTS
  ConnectionsListed
  AnswersAreRight
PROPERTIES
  StayersAreAnswered
CHECK_DEADLOCK FALSE
