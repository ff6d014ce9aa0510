CONSTANTS
  Projects <- MisplacedProjects
  Stdlib = {"sys"}
SPECIFICATION Spec
CHECK_DEADLOCK FALSE
INVARIANT MismatchIsReal
