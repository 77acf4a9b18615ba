SPECIFICATION Spec
CONSTANTS
  s1 = s1
  s2 = s2
  s3 = s3
  p1 = p1
  p2 = p2
  p3 = p3
  Services = {s1, s2, s3}
  ExternalLBs = {ext}
  Ports = {p1, p2}
  Nodes = {n1}
  HTTPChoices = {{}, {s2, s3}}
  Internal = {}
  SupportTags = TRUE
  CascadeDelete = FALSE
  MaxSharedLB = 2
  Workers = 1
  None = None
  PortChoices <- SomePorts
  LBChoices <- SomeLBs
  NodeChoices <- SomeNodes
  MaxFaults = 1
  MaxEdits = 1
  MaxNodeChanges = 0
INVARIANTS LBKept   NothingLeft
CHECK_DEADLOCK FALSE
