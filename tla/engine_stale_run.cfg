CONSTANTS
  NumIds = 1
  Cfgs = {c1, c2}
  Absent = Absent
  Runs = {r1, r2}
  Callers = {k1}
  MaxConcurrent = 1
  ForceCap = 1
  MaxSubs = 1
  Polls = FALSE
  Forces = FALSE
  StoreErrors = FALSE
  Pooled = FALSE
  Restarts = FALSE
SPECIFICATION Spec
INVARIANT NotServedStale
