SPECIFICATION Spec
CONSTANTS
  r1 = r1
  r2 = r2
  r3 = r3
  Run = {r1, r2, r3}
  Pid = {p1, p2, p3}
  NoPid = NoPid
  NoRun = NoRun
  Casts <- Meetings
  MaxErrors = 1
INVARIANTS
  ExitRemoves
PROPERTIES
  SweepSparesLive
  TrustMerged
  OrphansReclaimed
CHECK_DEADLOCK FALSE
