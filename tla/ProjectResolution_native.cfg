CONSTANTS
  Roots <- ThreeRoots
  Disks <- NativeDisks
  Imports <- OneImport
  OwnedPrefixes = {}
  Stdlib = {"sys"}
SPECIFICATION ProjectSpec
CHECK_DEADLOCK FALSE
INVARIANTS
  DependenciesAreImported
