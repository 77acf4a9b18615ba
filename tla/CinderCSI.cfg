SPECIFICATION MCSpec
CONSTANTS
  MaxVolumes = 2
  Instances = {i1}
  MaxSize = 2
  None = None
  MaxTroubles = 1
INVARIANTS OnePerName AttachedAsPublished DeletedIsGone ExpandedIsLarge ReadyIsRestorable
PROPERTIES Settles
CHECK_DEADLOCK FALSE
