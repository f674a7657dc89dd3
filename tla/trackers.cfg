CONSTANTS
  Keys = {k1}
  NoKey = NoKey
  Names = {n1, n2}
  Blank = Blank
  Cfgs = {c1}
  Absent = Absent
  MaxIds = 2
  Handlers = {h1, h2}
  StoreErrors = TRUE
SPECIFICATION Spec
INVARIANTS TypeOK KeysUnique FollowsDocument
PROPERTY ImplementsTrackerSet
SYMMETRY Symmetry
