CONSTANTS
  NumIds = 2
  Clients = {b1}
  SubBuffer = 1
  MaxVersion = 2
  Removals = TRUE
SPECIFICATION FairSpec
CHECK_DEADLOCK FALSE
INVARIANTS NothingLostSilently
PROPERTIES NeverBackInTime RunsNeverBlocked EventuallyShown
