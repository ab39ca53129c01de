SPECIFICATION Spec
CONSTANTS
  LineCycles = 5
  OamCycles = 2
  TransferCycles = 1
  ScrollValues <- MCScroll
  OnCount = 1
  Height = 2
  Lines = 4
  LyMod = 8
  CountMod = 16
  CycleMod = 51
  MaxGap = 5
  LycValues <- MCLyc
  StatValues <- MCStat
  StatModes = {0, 3}
  LiveWrites = {}
INVARIANTS
  TypeOK
  OnTime
  InterruptsOnTime
  FramesOnTime
PROPERTY
  PublishedWhole
