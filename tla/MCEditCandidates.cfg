CONSTANTS
  Projects = {p1}
  Branches = {main, topic}
  Main = main
  topic = topic
  NoBranch = none
  Modules = {m1}
  Contents = {}
  MaxRevs = 4
  Clients = {c1, c2}
  Names = {n1}
  NoName = anonymous
  CallerBases = FALSE
  MaxCandidates = 2
  MaxQualifications = 2
SPECIFICATION CandidatesSpec
SYMMETRY Symmetry
CHECK_DEADLOCK FALSE
INVARIANT EditsInForce
INVARIANT PublishedStays
PROPERTY ClosedForGood
INVARIANT PublishedAsQualified
PROPERTY FastForwards
