CONSTANTS
  d1 = d1
  d2 = d2
  n1 = n1
  n2 = n2
  n3 = n3
  Daemons <- TwoDaemons
  Nodes <- ThreeNodes
  NoNode = NoNode
  MaxLives = 3
SPECIFICATION SSpec
PROPERTIES StartServes CleanupRemovesOwn
