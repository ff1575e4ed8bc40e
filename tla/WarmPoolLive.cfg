SPECIFICATION Spec
CONSTANTS
  w1 = w1
  w2 = w2
  w3 = w3
  c1 = c1
  c2 = c2
  NoWorker = NoWorker
  Workers <- ThreeWorkers
  Clients <- OneClient
  TargetSize = 1
  MaxFd = 2
  MaxSpawnFailures = 1
PROPERTIES
  SlotsResolve
  TopsUp
  SignalEnds
