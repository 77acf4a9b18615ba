SPECIFICATION FairSpec
CONSTANTS
  MaxBacking = 2
  MaxSize = 3
  MaxPods = 2
  None = None
  Serials = FALSE
  MaxTroubles = 2
INVARIANTS PublishedIsMounted 
 
CHECK_DEADLOCK FALSE
