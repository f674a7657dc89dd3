CONSTANTS
  NumIds = 1
  Cfgs = {c1, c2}
  Absent = Absent
  Runs = {r1}
  Callers = {k1}
  MaxConcurrent = 1
  ForceCap = 1
  MaxSubs = 1
  Polls = TRUE
  Forces = FALSE
  StoreErrors = FALSE
  Pooled = FALSE
  Restarts = TRUE
SPECIFICATION FairSpec
PROPERTIES EventuallyFresh EventuallyQuiet
INVARIANTS InSync CacheIsDurable
