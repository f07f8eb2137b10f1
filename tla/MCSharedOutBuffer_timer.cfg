SPECIFICATION Spec
CONSTANTS
  Capacity = 3
  FrameMax = 3
  MaxOut = 8
  Threads = {"loop", "timer"}
INVARIANTS
  AllSentOrBuffered
CHECK_DEADLOCK FALSE
