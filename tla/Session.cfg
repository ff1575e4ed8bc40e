SPECIFICATION Spec
CONSTANT Drives <- AllDrives
INVARIANTS
  VerdictNamesCause
  NothingLeftRunning
  NoUnsatisfiableDeadline
  PooledWorkerReturned
PROPERTY
  DeadlineOrSignalEnds
