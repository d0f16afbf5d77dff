CONSTANTS
  Projects = {p1}
  Branches = {main}
  Main = main
  topic = topic
  NoBranch = none
  Modules = {m1}
  Contents = {}
  MaxRevs = 4
  Clients = {c1, c2}
  Names = {n1}
  NoName = anonymous
  CallerBases = TRUE
  MaxCandidates = 2
  MaxQualifications = 1
SPECIFICATION CandidatesSpec
SYMMETRY Symmetry
CHECK_DEADLOCK FALSE
PROPERTY FastForwards
