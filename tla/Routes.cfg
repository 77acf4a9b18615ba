SPECIFICATION FairSpec
CONSTANTS
  Nodes = {n1, n2}
  CIDRs = {c1, c2}
  Modes = {"classical", "atomic"}
  Faults = {"reject", "lostReply", "unwind", "crash"}
  MaxFaults = 1
  MaxChurn = 3
INVARIANTS RoutedMeansPaired
PROPERTIES OnlyOwnRoute Converges 
