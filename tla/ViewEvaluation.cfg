CONSTANTS
  Evaluations <- AllEvaluations
  Identifiers = {"p", "q", "s", "n", "t", "m"}
  CustomGraphs <- LayerGraphs
  CustomFindings <- ExtensionFindings
SPECIFICATION Spec
CHECK_DEADLOCK FALSE
INVARIANTS
  PackagePairsAreQuotient
  CyclesSurviveGrouping
  FilteringFindsNothingNew
  CertaintySurvivesGrouping
  OnlyExtensionsFail
  FindingsMatchView
