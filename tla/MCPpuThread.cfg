SPECIFICATION Spec
CONSTANTS
  CycleMod = 7
  CountMod = 7
  LineCycles = 1
  Lines = 2
  Height = 1
  MaxStep = 1
  MaxLag = 1
  Tasks = {"t1"}
  Builds <- AllBuilds
INVARIANTS TypeOK NoLostRequest CountedOnceAlone
PROPERTY RequestWakes
