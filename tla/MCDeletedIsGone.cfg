CONSTANTS
  Plans = {q1, q2}
  NoPlan = nobody
  Builds = {b1, b2}
  NoBuild = none
  MaxDb = 1
SPECIFICATION Spec
SYMMETRY Symmetry
CHECK_DEADLOCK FALSE
INVARIANT DeletedIsGone
