SPECIFICATION FairSpec
CONSTANTS
  Products = {1}
  Aggregates <- Posted
  PartitionCount = 2
  MaxAttempts = 3
  MaxCalls = 2
  MaxFaults = 1
INVARIANTS
  StoredIsLastSent
  NoOrphans
PROPERTIES
  QueuesDrain
CHECK_DEADLOCK FALSE
