SPECIFICATION MCSpec
CONSTANTS
  MaxShares = 2
  MaxSize = 3
  MaxTroubles = 3
INVARIANTS OnePerName AnsweredHolds NothingLeft
PROPERTIES Provisioned
CHECK_DEADLOCK FALSE
