CONSTANTS
  main = main
  topic = topic
  project = project
  program = program
  check = check
  smoke = smoke
  Projects = {project}
  Branches = {main, topic}
  Main = main
  NoBranch = none
  Modules = {program, check, smoke}
  Contents = {}
  MaxRevs = 7
  Start <- Diverged
  Program = program
  Selections <- SomeSelections
  Agents = {a1}
  Executables = {x1, x2}
  MaxRuns = 3
  MaxQualifications = 1
  MaxMoves = 1
SPECIFICATION MCSpec
SYMMETRY Symmetry
CHECK_DEADLOCK FALSE
INVARIANT AttestedIsTested
INVARIANT EvidenceStaysReadable
INVARIANT CurrentAtCompletion
