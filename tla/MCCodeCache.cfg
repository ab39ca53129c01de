CONSTANTS
  Cap = 6
  Builds <- MCBuilds
  Faults = {"overflow", "nomem"}
  Reserves <- MCReserves
SPECIFICATION Spec
INVARIANTS
  TypeOK
  FreeListTiles
  FreeListCoalesced
  NeverStarved
  BumpBelowMark
PROPERTIES
  AllocEnds
  ImplementsArena
