SPECIFICATION Spec
CONSTANTS
  MaxPast <- MCMaxPast
  CommentsPage = 2
  DefaultPage = 2
  Logins = {"author", "other", "third"}
  Refs = {"r1", "r2"}
  MaxList = 3
  PerPage = 2
  MaxPages = 2
  maxPoints = 3
  Starts <- MCStarts
  LastDay = 3
  MaxItems = 4
  Tags = {"v1", "1"}
  Arches = {"amd64"}
  Pool <- MCPool
  Versions <- MCVersions
  MaxDeps = 2
  Lines <- MCLines
INVARIANTS
  TypeOK
  AnsweredWasTrue
  CIWasTrue
  ReviewWasTrue
  TotalWasTrue
  SeriesAccountsForAll
  ChecklistWasTrue
  ListsHonest
  VerdictsHonest
  GreenNeedsEvidence
CHECK_DEADLOCK FALSE
