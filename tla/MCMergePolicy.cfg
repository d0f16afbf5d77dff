CONSTANTS
  Projects = {p1}
  Branches = {main, topic, feature}
  Main = main
  Topic = topic
  Feature = feature
  NoBranch = none
  Modules = {s1, s2, b1, t1, k1, k2}
  Contents = {c}
  S1 = s1
  S2 = s2
  B1 = b1
  T1 = t1
  K1 = k1
  K2 = k2
  Owner = owner
  Other = other
  Sources = {s1, s2}
  Builds = {b1}
  Tests = {t1}
  Tasks = {k1, k2}
  Agents = {owner, other}
  Foundations <- SomeProjects
  Drafts <- SomeDrafts
  MaxRevs = 5
  MaxGated = 6
  PolicyRevs = 3
  Clients = {c1}
  Policies <- SomePolicies
  CallerBases = FALSE
  MaxNodes = 5
  Graphs <- SmallGraphs
  NodeLimits = {3, 5}
  EdgeLimits = {4, 8}
  Starts <- SomeStarts
  MaxViews = 1
  PageLimits = {1, 2}
  ScanLimits = {1, 2, 3}
  MaxScan = 3
  MaxWalks = 1
SPECIFICATION PartsSpec
CHECK_DEADLOCK FALSE
INVARIANT ReviewedMergesObeyPolicy
INVARIANT ReviewedMergesAreExact
INVARIANT MergeBasesExact
INVARIANT ViewsHold
INVARIANT HistoryToldTruly
INVARIANT MetadataHolds
INVARIANT ImpactComplete
PROPERTY PolicyAuthority
