--------------------------- MODULE MCSessionDrive ---------------------------
(* Small instances of SessionDrive for TLC: the worst drives of each kind, *)
(* and the drives that an overall deadline or a signal must end.           *)
EXTENDS SessionDrive

Worst(pooled, enabled) ==
  [Pooled |-> pooled, Enabled |-> enabled, StreamJson |-> TRUE,
   Stubborn |-> TRUE, Detaches |-> TRUE, LargePrompt |-> TRUE, DupFails |-> TRUE]

WorstDrives ==
  {Worst(FALSE, {"StreamJsonFirstOutput", "OverallTimeout"}),
   Worst(TRUE, {"StreamJsonFirstOutput", "StopHookTimeout"})}

(* The child honours SIGTERM and keeps its tty while it lives, the prompt  *)
(* fits, and the self-pipe was duplicated.                                 *)
TameDrive(pooled, enabled) ==
  [Pooled |-> pooled, Enabled |-> enabled, StreamJson |-> FALSE,
   Stubborn |-> FALSE, Detaches |-> FALSE, LargePrompt |-> FALSE, DupFails |-> FALSE]

TameDrives ==
  {TameDrive(FALSE, {"OverallTimeout"}), TameDrive(FALSE, {"PtyFirstOutput"}),
   TameDrive(TRUE, {"OverallTimeout"})}

AllDrives == WorstDrives \cup TameDrives
=============================================================================
