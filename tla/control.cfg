SPECIFICATION ControlSpec
CONSTANTS
  s1 = s1
  s2 = s2
  tab1 = tab1
  tab2 = tab2
  r1 = r1
  r2 = r2
  None = None
  Files <- MCFiles
  Ids = {"ext", "other", "core"}
  Builtins = {"core"}
  Scanners = {s1, s2}
  Tabs = {tab1, tab2}
  Requests = {r1, r2}
  Tokens = {"t1", "t2"}
  Entries <- MCEntries
  Launches <- MCLaunches
  Orders = {"o1"}
  MaxSaves = 2
  Names <- MCNames
  Handwritten <- MCHandwritten
  MaxId = 3
INVARIANTS
  ControlTypeOK
  RegisterNeverPanics
  FoundUnlessReplaced
  InstallsWhatIsThere
  ExportIsFaithful
  RoundTrips
  SavedIsApplied
PROPERTY KeepsTheRest
SYMMETRY Symmetry
CHECK_DEADLOCK FALSE
