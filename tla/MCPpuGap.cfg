SPECIFICATION Spec
CONSTANTS
  LineCycles = 5
  OamCycles = 2
  TransferCycles = 1
  ScrollValues <- MCScroll
  OnCount = 1
  Height = 2
  Lines = 4
  LyMod = 8
  CountMod = 16
  CycleMod = 53
  MaxGap = 6
  LycValues = {0}
  StatValues = {{}}
  StatModes = {0, 3}
  LiveWrites = {}
INVARIANT
  LyInFrame
