SPECIFICATION Spec
CONSTANTS
  w1 = w1
  w2 = w2
  w3 = w3
  c1 = c1
  c2 = c2
  NoWorker = NoWorker
  Workers <- ThreeWorkers
  Clients <- TwoClients
  TargetSize = 2
  MaxFd = 3
  MaxSpawnFailures = 1
SYMMETRY Interchangeable
INVARIANTS
  OneRequestPerMember
  PoolCleanup
  RawDescriptorIsOwn
PROPERTIES
  OrphanContainment
  ImplementsContract
