CONSTANTS
  m1 = m1
  m2 = m2
  k1 = k1
  k2 = k2
  NoId = NoId
  Scripts <- ToolTurn
  Messages <- AllMessages
  MaxRetries = 2
  Lag = 1
  MaxPieces = 1
  MaxReads = 1
SPECIFICATION ASpec
INVARIANT StripKeepsUtf8
