SPECIFICATION ChannelFairSpec
CONSTANTS
  Setup <- SendSetup
  Call <- SendCall
  Publisher = "timer"
  MaxMessages = 2
INVARIANTS
  FramesInOrder
CHECK_DEADLOCK FALSE
