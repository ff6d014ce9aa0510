CONSTANTS
  Roots <- ThreeRoots
  Disks <- ThreeRootDisks
SPECIFICATION Spec
CHECK_DEADLOCK FALSE
INVARIANTS
  TypeOK
  BoundIsWhatPythonFinds
  OrderConflictIsReported
  EveryFileIsOneModule
  BindingsCompatible
