CONSTANTS
  Calls = {c1, c2}
  Tokens = {anon, t1}
  Urls = {u1}
  Absent = Absent
  MaxVersion = 1
  MaxTime = 1
  MaxWait = 1
SPECIFICATION Spec
CHECK_DEADLOCK FALSE
INVARIANTS MissUnreachable ViewsNotShared FreshUnlessOvertaken RefusedOnlyWhenTold
SYMMETRY Symmetry
