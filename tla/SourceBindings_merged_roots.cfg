CONSTANTS
  Roots <- NestedRoots
  Disks <- NestedDisks
SPECIFICATION Spec
CHECK_DEADLOCK FALSE
INVARIANT PackagesDoNotMergeRoots
