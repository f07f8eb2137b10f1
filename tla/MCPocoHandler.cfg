SPECIFICATION FairSpec
CONSTANTS
  Capacity = 4
  FrameMax = 2
  SocketMax = 3
  MaxIn = 5
  MaxOut = 6
INVARIANTS
  TypeOK
PROPERTIES
  InputIsLossless
  OutputIsLossless
  FrameIsParsed
  AcceptedIsSent
CHECK_DEADLOCK FALSE
