CONSTANTS
  q1 = q1
  b1 = b1
  n1 = n1
  n2 = n2
  Names = {n1, n2}
  KindMaps <- SomeKinds
  SizeOf <- SomeSizes
  Publishers = {p1, p2}
  NoPublisher = nobody
  MaxBytes = 3
  Entries = {"build", "qualification", "attestation"}
  Families = {1, 2, 3}
  FamilyOf <- SomeFamilies
  AnchorsOf <- SomeAnchors
  ReferencesOf <- SomeReferences
  RestsOn <- SomeReferences
  NeedsDatabase = {"build", "qualification", "attestation"}
  Databases = {{}, {1}, {1, 2}}
  MaxChanges = 3
  MaxSwaps = 2
  Plans = {q1, q2}
  NoPlan = noplan
  Builds = {b1, b2}
  NoBuild = nobuild
  MaxDb = 2
SPECIFICATION RetentionSpec
SYMMETRY Symmetry
CHECK_DEADLOCK FALSE
PROPERTY FailedBuildsReplaced
