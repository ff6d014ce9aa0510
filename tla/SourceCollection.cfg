CONSTANTS
  Root = "root"
  Directories = {"root", "sub", "venv", "inner"}
  Sources = {"a", "b", "t", "d", "e"}
  Stubs = {"c"}
  Parent <- SmallParent
  Nested = {"inner"}
  Defaults = {"venv"}
  Matched = {"t"}
  Initially <- AnyStart
  MaxChanges = 2
SPECIFICATION Spec
CHECK_DEADLOCK FALSE
INVARIANTS
  TypeOK
  AnalyzedMeansRead
  CompleteScanReadsEverything
  ListedIsReadOrReported
PROPERTY EndsOrHangs
