SPECIFICATION FairSpec
CONSTANTS
  a = a
  b = b
  s1 = s1
  s2 = s2
  s3 = s3
  Sessions = {s1, s2, s3}
  Isins = {a, b}
  IsinOf <- Paths
  Bonds = {a}
  Nobody = Nobody
INVARIANTS
  ListsAreExact
  EndsByCollision
PROPERTIES
  
  OpenIsPriced
CHECK_DEADLOCK FALSE
