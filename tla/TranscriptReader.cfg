SPECIFICATION Spec
CONSTANTS
  Files = {"own", "sibling", "old"}
  Own = "own"
  StopFile = "own"
  Old = {"old"}
  MaxLines = 2
INVARIANTS
  ForwardedOnce
  DrainedWhole
PROPERTY
  JoinReturns
