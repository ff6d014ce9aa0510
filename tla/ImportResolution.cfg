CONSTANTS
  Catalogs <- SmallCatalogs
  Stdlib = {"sys"}
SPECIFICATION Spec
CHECK_DEADLOCK FALSE
INVARIANTS
  TypeOK
  NoFactLost
  ContestedNeverResolved
  AcceptedBoundaryCoversStrongest
PROPERTY
  ImplementsAtOnce
