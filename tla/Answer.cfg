CONSTANTS
  m1 = m1
  m2 = m2
  k1 = k1
  k2 = k2
  NoId = NoId
  Scripts <- AllScripts
  Messages <- AllMessages
  MaxRetries = 2
  Lag = 2
  MaxPieces = 2
  MaxReads = 2
SPECIFICATION ASpec
INVARIANTS FinalTurnText ErrorReported ExitTells StripTakesEscapes
