CONSTANTS
  NumIds = 1
  Cfgs = {c1, c2}
  Absent = Absent
  Runs = {r1, r2}
  Callers = {k1}
  MaxConcurrent = 1
  ForceCap = 1
  MaxSubs = 1
  Polls = FALSE
  Forces = TRUE
  StoreErrors = TRUE
  Pooled = TRUE
  Restarts = TRUE
SPECIFICATION Spec
INVARIANTS SingleFlight SnapshotHasLastRun
SYMMETRY Symmetry
