CONSTANTS
  Tasks = {"merge"}
  Documents <- SmallDocuments
  Values = {"y", "z"}
  Aliases = {"a"}
  NoAlias = "none"
  MaxEdits = 3
  MaxPerLine = 2
  Openers = {p1, p2}
  Files <- SomeFiles
  Names = {"a", "b"}
  Texts <- SomeTexts
  Size <- SomeSizes
  Packed <- SomeEncodings
  SizeLimit = 2
  PackedLimit = 2
  RevisionLimit = 3
  ModuleLimit = 2
  MaxRevisions = 2
  NodeIds <- SomeIds
  Programs <- SomePrograms
  Symbols <- SomeSymbols
  Strings <- SomeStrings
  Sources <- SomeSources
  Digits = {"7"}
  Wide = {"m"}
  LineWidth = 12
  MaxChanges = 2
  Threads = {t1, t2}
  Containers = {"p", "q", "a"}
  NoContainer = "none"
  Applications = {"a"}
  Services = {"workspace", "bridge", "builds"}
  Root = "workspace"
  Declared <- SomeDeclared
  Uses <- SomeUses
  MaxValues = 3
SPECIFICATION PartsSpec
CHECK_DEADLOCK FALSE
INVARIANT DraftsValid
INVARIANT CleanMergeComplete
INVARIANT OrdersKept
INVARIANT DirectionsAgree
INVARIANT DataOutlastsOpening
INVARIANT TextsReadBack
INVARIANT DiagnosticsLocate
INVARIANT ServicesBelongTogether
