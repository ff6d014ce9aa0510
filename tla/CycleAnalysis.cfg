CONSTANTS
  Nodes <- ThreeNodes
  Graphs <- AllGraphs
SPECIFICATION Spec
CHECK_DEADLOCK FALSE
INVARIANTS
  TypeOK
  WitnessIsCycle
  CertaintyIsWitnessed
  EveryCycleReported
  SearchFindsCycle

PROPERTY Terminates
