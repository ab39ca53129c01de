SPECIFICATION Spec
CONSTANTS
  Size = 14
  Vector = 10
  ByteSize = 4
  Clock = 8
  StackMax = 2
  MaxOps = 3
  SpinMax = 3
  HaltStep = 3
  RunMax = 8
  Batches = {0, 2}
  Programs <- Conforming
INVARIANTS TypeOK BoundedLatency ReadsFreshUnbatched Conforms
PROPERTY ImplementsSm83
