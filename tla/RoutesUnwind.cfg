SPECIFICATION Spec
CONSTANTS
  Nodes = {n1, n2}
  CIDRs = {c1, c2}
  Modes = {"classical"}
  Faults = {"reject"}
  MaxFaults = 1
  MaxChurn = 4
SYMMETRY Symmetry
PROPERTIES FailedDeleteKeepsRoute
