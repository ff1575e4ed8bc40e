SPECIFICATION DSpec
CONSTANTS
  Frames = {"assigned", "legacy", "garbage"}
  Congested = TRUE
  Limit = 1
  Settings = {"model", "max_turns"}
INVARIANTS
  HoldsWhatItDrives
  DrivenAsChecked
  LeavesNothing
PROPERTY
  InvocationEnds
