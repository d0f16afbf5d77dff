CONSTANTS
  Projects = {p1}
  Branches = {main, topic}
  Main = main
  NoBranch = none
  Modules = {m1, m2}
  Contents = {d1}
  MaxRevs = 5
  Clients = {c1, c2}
  NoClient = nobody
  Compilers = {"full", "later", "mixed"}
  NoCompiler = "none"
  Advertised <- SomeRegistries
  Targets = {"arm"}
  Reports <- SomeReports
  MaxReplaced = 2
  MaxStored = 1
SPECIFICATION PartsSpec
SYMMETRY Symmetry
CHECK_DEADLOCK FALSE
INVARIANT TypeOK
INVARIANT NoLostUpdate
INVARIANT SnapshotProvenance
INVARIANT ContextSound
INVARIANT ContractHeld
INVARIANT BuildsExplained
PROPERTY LogSpec
