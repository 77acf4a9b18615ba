CONSTANTS
  None = None
  h1 = h1
  h2 = h2
  t1 = t1
  t2 = t2
  t3 = t3
  Handlers = {h1, h2}
  Tokens = {t1, t2, t3}
  Roles = {"admin", "member"}
  Assigned <- MCAssigned
  Installed <- MCInstalled
  Leftover <- MCLeftover
  Owner <- MCOwner
  Groups <- MCGroups
  Policies <- MCPolicies
  Syncs <- MCSyncs
  Reviews <- MCReviews
  Names <- MCNames
  Lower <- MCLower
  PolicyFile = None
  SyncFile = None
  MaxTroubles = 1

SPECIFICATION MCSpec
INVARIANTS DecidedByPolicy  BindingsAsCopied
 
CHECK_DEADLOCK FALSE
