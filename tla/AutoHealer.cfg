SPECIFICATION FairSpec
CONSTANTS
  Masters = {m1}
  Workers = {w1, w2}
  MaxSick = 2
  MaxFaults = 1
  MaxCrashes = 1
INVARIANTS MissingIsReplaced
PROPERTIES RebootBeforeRebuild 
CHECK_DEADLOCK FALSE
