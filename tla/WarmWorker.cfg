SPECIFICATION WSpec
CONSTANTS
  Descendants = {d1, d2}
INVARIANTS
  ReapedOnReturn
  NoGroupSurvivors
  HandedOverWhole
PROPERTIES
  SettledWhileOpen
  WarmupEnds
  DestroyEnds
