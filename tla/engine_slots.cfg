CONSTANTS
  NumIds = 2
  Cfgs = {c1}
  Absent = Absent
  Runs = {r1, r2}
  Callers = {}
  MaxConcurrent = 1
  ForceCap = 1
  MaxSubs = 1
  Polls = FALSE
  Forces = FALSE
  StoreErrors = FALSE
  Pooled = FALSE
  Restarts = FALSE
SPECIFICATION FairSpec
INVARIANT SlotsAccountedFor
PROPERTIES ImplementsRunSlots ImplementsFairRunSlots
