SPECIFICATION FairSpec
CONSTANTS
  p1 = p1  p2 = p2  s1 = s1  s2 = s2  n1 = n1  n2 = n2
  None = None
  Paths <- MCPaths
  Services <- MCServices
  Nodes <- MCNodes
  FirstNodes <- MCFirstNodes
  Rules <- MCRules
  MaxWrites = 2
  MaxNodes = 1
  MaxTroubles = 1
  
PROPERTIES NeverUnrouted Settles
CHECK_DEADLOCK FALSE
