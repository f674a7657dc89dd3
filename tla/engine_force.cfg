CONSTANTS
  NumIds = 1
  Cfgs = {c1}
  Absent = Absent
  Runs = {r1}
  Callers = {k1}
  MaxConcurrent = 1
  ForceCap = 2
  MaxSubs = 1
  Polls = FALSE
  Forces = TRUE
  StoreErrors = FALSE
  Pooled = FALSE
  Restarts = FALSE
SPECIFICATION FairSpec
PROPERTY ForceServed
