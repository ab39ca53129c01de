CONSTANTS
  NIL = NIL
  Cap = 3
  PageSize = 2
  PageCount = 5
  WayCount = 2
  Id = {i1, i2, i3}
  Canon <- MCCanon
  BankPages = {1}
  RamPages = {2, 4}
  InlinePages = {}
  LoopPages = {}
  Site = {0, 1, 4, 6, 8}
  EndOf <- MCEndOf
  Succ <- MCSucc
  Goto <- MCGoto
  SelfLoops <- MCLoops
  Vector = 0
  Need <- MCNeed
  Keep <- MCKeep
  Options <- MCOptions
SPECIFICATION Spec
INVARIANTS
  TypeOK
  NoDangling
  NoLeak
  Registered
  OneBlockPerPc
  ChainCoherent
  StaleIsFlagged
  NoStaleEntry
  EntersAtPc
  CodeDisjoint
PROPERTIES
  HotSurvives
  CompileEnds
