CONSTANTS
  Roots <- ThreeRoots
  Disks <- AllDisks
  Imports <- OneImport
  OwnedPrefixes = {}
  Stdlib = {"sys"}
SPECIFICATION ProjectSpec
CHECK_DEADLOCK FALSE
INVARIANTS
  DependenciesFollowPython
  RequestedSourcesAreDependencies
