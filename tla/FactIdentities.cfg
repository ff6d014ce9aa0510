CONSTANTS
  Drafts <- UpToFourDrafts
  MinLength = 2
SPECIFICATION IdsSpec
CHECK_DEADLOCK FALSE
INVARIANTS
  IdsDiffer
  NeighboursSuffice
