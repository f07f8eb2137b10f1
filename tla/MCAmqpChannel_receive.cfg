SPECIFICATION ChannelFairSpec
CONSTANTS
  Setup <- ReceiveSetup
  Call <- ReceiveCall
  Publisher = "loop"
  MaxMessages = 6
INVARIANTS
  FramesInOrder
  SynchronousAlone
PROPERTIES
  QueuedFrameIsSent
CHECK_DEADLOCK FALSE
