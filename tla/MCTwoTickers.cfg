SPECIFICATION Spec
CONSTANTS
  CycleMod = 9
  CountMod = 9
  LineCycles = 2
  Lines = 2
  Height = 1
  MaxStep = 1
  MaxLag = 1
  Tasks = {"t1", "t2"}
  Builds <- JustAsync
INVARIANT CountedOnce
