CONSTANTS
  first = p1
  Projects = {p1, p2}
  Branches = {main, topic}
  Main = main
  NoBranch = none
  Modules = {m1}
  Contents = {d1}
  MaxRevs = 4
  Clients = {c1, c2}
  NoClient = nobody
  OutputLimit = 2
  MaxWritten = 4
SPECIFICATION CallsSpec
CHECK_DEADLOCK FALSE
INVARIANT ProjectClosed
INVARIANT CallsEndClean
PROPERTY EverybodyReturns
