SPECIFICATION FairSpec
CONSTANTS
  s1 = s1
  s2 = s2
  s3 = s3
  p1 = p1
  p2 = p2
  p3 = p3
  Services = {s1, s2}
  ExternalLBs = {}
  Ports = {p1, p2}
  Nodes = {n1, n2}
  HTTPChoices = {{}}
  Internal = {}
  SupportTags = TRUE
  CascadeDelete = TRUE
  MaxSharedLB = 3
  Workers = 2
  None = None
  PortChoices <- OwnPort
  LBChoices <- SharedLB
  NodeChoices = {{n1}, {n1, n2}}
  MaxFaults = 0
  MaxEdits = 0
  MaxNodeChanges = 1
PROPERTIES EnsureKeepsOthers Deleted
CHECK_DEADLOCK FALSE
