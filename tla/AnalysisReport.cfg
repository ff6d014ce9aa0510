CONSTANTS
  Projects <- AllProjects
  Stdlib = {"sys"}
SPECIFICATION Spec
CHECK_DEADLOCK FALSE
INVARIANTS
  ExitCodesCanBeTrusted
  AcceptedOnPurpose
  AcknowledgementsAccountedFor
  SourcesAreNotSuppressed
  AcceptedTargetsFit
  MissedRootsAreReported
