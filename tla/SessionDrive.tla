---------------------------- MODULE SessionDrive ----------------------------
(***************************************************************************)
(* One drive of a `claude` process: Session::run_inner and                 *)
(* Session::run_pooled_inner (src/src/session.rs), the poll loop they run  *)
(* (src/src/event_loop.rs), the detached watchdog thread                   *)
(* (src/src/watchdog.rs), the signal handlers, the startup phases, and the *)
(* child with its tty and its Stop hook, which owe the session nothing.    *)
(*                                                                         *)
(* The main thread, the watchdog thread and the child take turns: every    *)
(* store of the watchdog is a step of its own, and a pass of the poll loop *)
(* is the poll, the chunk callback and the tick callback.  kill_child is   *)
(* part of the step that calls it: it returns with the child reaped.       *)
(***************************************************************************)
EXTENDS Integers

CONSTANT Drives  (* the drives there are: see DriveType                    *)

DeadlineTypes == {"PtyFirstOutput", "StreamJsonFirstOutput",
                  "OverallTimeout", "StopHookTimeout"}

(***************************************************************************)
(* Pooled       run_pooled_inner: the child belongs to a daemon            *)
(* Enabled      the deadlines WatchdogConfig::new arms                     *)
(* StreamJson   --output-format stream-json: a reader is spawned           *)
(* Stubborn     the child may survive SIGTERM                              *)
(* Detaches     the child may close its tty and go on running              *)
(* LargePrompt  the prompt does not fit in the PTY's buffer                *)
(* DupFails     the watchdog may fail to duplicate the self-pipe           *)
(***************************************************************************)
DriveType ==
  {d \in [Pooled : BOOLEAN, Enabled : SUBSET DeadlineTypes, StreamJson : BOOLEAN,
          Stubborn : BOOLEAN, Detaches : BOOLEAN, LargePrompt : BOOLEAN,
          DupFails : BOOLEAN] :
     "StreamJsonFirstOutput" \in d.Enabled => d.StreamJson}

ASSUME SessionDriveAssumption == Drives \subseteq DriveType

VARIABLES
  drive,         (* which drive this is                                    *)
  pc,            (* where the main thread is                               *)
  exit_reason,   (* of EventLoop::run                                      *)
  startup,       (* StartupSeq.phase                                       *)
  startup_refusal,
  result,        (* what the session returned                              *)
  reader,        (* the stream-json reader thread                          *)
  released,      (* AcquiredWorker.released                                *)
  releases,      (* release requests sent                                  *)
  self_pipe,     (* a byte is waiting                                      *)
  signaled,      (* SIGINT or SIGTERM reached claude-print                 *)
  watchdog,      (* where the watchdog thread is                           *)
  chosen,        (* the deadline it is acting on                           *)
  expired,       (* deadlines whose time has come                          *)
  timeout_fired,
  timeout_type,
  dup_ok,        (* the watchdog owns a write end of the self-pipe         *)
  pty_output_received,
  stream_json_output_received,
  child,         (* the claude process                                     *)
  tty,           (* somebody holds the slave side open                     *)
  output,        (* bytes wait on the master                               *)
  terminated,    (* SIGTERM was delivered to the child                     *)
  fifo           (* what the Stop FIFO holds                               *)

loopVars  == <<pc, exit_reason, startup, startup_refusal, result>>
ownedVars == <<drive, reader, released, releases>>
pipeVars  == <<self_pipe, signaled>>
dogVars   == <<watchdog, chosen, expired, timeout_fired, timeout_type, dup_ok>>
seenVars  == <<pty_output_received, stream_json_output_received>>
childVars == <<child, tty, output, terminated, fifo>>
vars == <<loopVars, ownedVars, pipeVars, dogVars, seenVars, childVars>>

prompt_injected == startup = "PromptInjected"
Live == pc # "returned"

(* Hooks, self-pipe, handlers, PTY, watchdog and FIFO are in place; the    *)
(* FIFO may have failed to open, which is only warned about.               *)
Init ==
  /\ drive \in Drives
  /\ pc = "polling"
  /\ exit_reason = "none"
  /\ startup = IF drive.Pooled THEN "TrustDismissed" ELSE "Waiting"
  /\ startup_refusal = FALSE
  /\ result = "none"
  /\ reader = "none"
  /\ released = FALSE
  /\ releases = 0
  /\ self_pipe = FALSE
  /\ signaled = FALSE
  /\ watchdog = "watching"
  /\ chosen = "none"
  /\ expired = {}
  /\ timeout_fired = FALSE
  /\ timeout_type = "none"
  /\ dup_ok \in IF drive.DupFails THEN BOOLEAN ELSE {TRUE}
  /\ pty_output_received = FALSE
  /\ stream_json_output_received = FALSE
  /\ child = "running"
  /\ tty = "open"
  /\ output = FALSE
  /\ terminated = FALSE
  /\ fifo \in {"unopened", "empty"}

(***************************************************************************)
(* EventLoop::run.  poll(2) reports what is ready; the self-pipe comes     *)
(* first, then the FIFO, then the master.                                  *)
(***************************************************************************)
LeaveLoop(reason) ==
  /\ pc' = "left"
  /\ exit_reason' = reason
  /\ UNCHANGED <<startup, startup_refusal, result, ownedVars, pipeVars,
                 dogVars, seenVars, childVars>>

PollSelfPipe ==
  /\ pc = "polling"
  /\ self_pipe
  /\ LeaveLoop("Interrupted")

PollFifo ==                    \* whatever is there until EAGAIN is the payload
  /\ pc = "polling"
  /\ ~self_pipe
  /\ \/ fifo = "whole" /\ LeaveLoop("FifoPayload")
     \/ fifo = "part" /\ LeaveLoop("FifoTruncated")

NothingFirst == pc = "polling" /\ ~self_pipe /\ fifo \notin {"part", "whole"}

PollGone ==                    \* EIO or a hang-up with nothing left to read
  /\ NothingFirst
  /\ ~output
  /\ tty = "closed"
  /\ LeaveLoop("ChildExited")

PollTick ==
  /\ NothingFirst
  /\ ~output
  /\ tty = "open"
  /\ pc' = "tick"
  /\ UNCHANGED <<exit_reason, startup, startup_refusal, result, ownedVars,
                 pipeVars, dogVars, seenVars, childVars>>

PollFails ==                   \* the `?` after event_loop.run
  /\ pc = "polling"
  /\ pc' = "loop_failed"
  /\ UNCHANGED <<exit_reason, startup, startup_refusal, result, ownedVars,
                 pipeVars, dogVars, seenVars, childVars>>

(* Refuse: kill_child here and now when the child is ours, or a byte for   *)
(* the loop when it is not (the pooled sequencer never refuses).           *)
Refuse ==
  /\ startup = "Waiting"
  /\ startup_refusal' = TRUE
  /\ child' = "reaped"
  /\ tty' = IF child = "running" THEN "closed" ELSE tty
  /\ UNCHANGED startup

NoDecision ==                  \* StartupAction::HardTimeout too: nothing is done
  UNCHANGED <<startup, startup_refusal, child, tty>>

(* A chunk: the watchdog is told, StartupSeq::feed decides; it never       *)
(* changes the phase, because the chunk restarts every quiet window.       *)
PollOutput ==
  /\ NothingFirst
  /\ output
  /\ output' = FALSE
  /\ pty_output_received' = TRUE
  /\ pc' = "chunk"
  /\ NoDecision \/ Refuse
  /\ UNCHANGED <<exit_reason, result, ownedVars, pipeVars, dogVars,
                 stream_json_output_received, terminated, fifo>>

(***************************************************************************)
(* The rest of the callback: StartupSeq::poll_timers and what follows from *)
(* it.  It runs after a chunk and again for the tick of the same pass.     *)
(***************************************************************************)
AfterTimers == IF pc = "chunk" THEN "tick" ELSE "polling"

Dismiss ==                     \* the keys, or a bare CR
  /\ startup = "Waiting"
  /\ startup' = "TrustDismissed"
  /\ UNCHANGED <<startup_refusal, child, tty>>

TimersIdle ==
  /\ pc \in {"chunk", "tick"}
  /\ pc' = AfterTimers
  /\ NoDecision \/ Dismiss \/ Refuse
  /\ UNCHANGED <<exit_reason, result, ownedVars, pipeVars, dogVars, seenVars,
                 output, terminated, fifo>>

(* The quiet window elapsed: the watchdog is told, the reader is spawned   *)
(* (or, if there is no projects directory, its deadline is credited), then *)
(* the prompt goes out in one write, which blocks while the child does not *)
(* read and the prompt does not fit.                                       *)
InjectUncredited ==            \* mutant: no reader and no credit
  /\ pc \in {"chunk", "tick"}
  /\ startup = "TrustDismissed"
  /\ startup' = "PromptInjected"
  /\ reader' \in IF drive.StreamJson THEN {"none", "tailing"} ELSE {"none"}
  /\ pc' = AfterTimers
  /\ UNCHANGED <<drive, exit_reason, startup_refusal, result, released, releases,
                 pipeVars, dogVars, seenVars, childVars>>

Inject ==
  /\ pc \in {"chunk", "tick"}
  /\ startup = "TrustDismissed"
  /\ startup' = "PromptInjected"
  /\ \/ /\ drive.StreamJson
        /\ reader' = "tailing"
        /\ UNCHANGED stream_json_output_received
     \/ /\ drive.StreamJson
        /\ stream_json_output_received' = TRUE
        /\ UNCHANGED reader
     \/ /\ ~drive.StreamJson
        /\ UNCHANGED <<reader, stream_json_output_received>>
  /\ pc' \in {AfterTimers} \cup IF drive.LargePrompt THEN {"writing"} ELSE {}
  /\ UNCHANGED <<drive, exit_reason, startup_refusal, result, released, releases,
                 pipeVars, dogVars, pty_output_received, childVars>>

PromptWritten ==               \* somebody read on, or the tty is gone: EIO
  /\ pc = "writing"
  /\ pc' \in {"tick", "polling"}
  /\ UNCHANGED <<exit_reason, startup, startup_refusal, result, ownedVars,
                 pipeVars, dogVars, seenVars, childVars>>

(***************************************************************************)
(* After the loop.                                                         *)
(***************************************************************************)
(* Returning drops what is left: the reader's handle disconnects and joins *)
(* it, the pooled worker is released unless it was already.                *)
DropOwned ==
  /\ reader' = CASE reader = "tailing" -> "joined"
                 [] reader = "draining" -> "joined_drained"
                 [] OTHER -> reader
  /\ released' = drive.Pooled
  /\ releases' = releases + (IF drive.Pooled /\ ~released THEN 1 ELSE 0)
  /\ UNCHANGED drive

Return(r) ==
  /\ pc' = "returned"
  /\ result' = r
  /\ DropOwned
  /\ UNCHANGED <<exit_reason, startup, startup_refusal, pipeVars,
                 dogVars, seenVars, output, terminated, fifo>>

LeaveChild == UNCHANGED <<child, tty>>

kill_child ==
  IF drive.Pooled THEN LeaveChild
  ELSE /\ child' = "reaped"
       /\ tty' = IF child = "running" THEN "closed" ELSE tty

LoopFailed ==
  /\ pc = "loop_failed"
  /\ LeaveChild
  /\ Return("Internal")

Refused ==
  /\ pc = "left"
  /\ startup_refusal
  /\ LeaveChild
  /\ Return("TrustDialogUnresolved")

NotRefused == pc = "left" /\ ~startup_refusal

TimedOut ==                    \* get_timeout_type().unwrap_or(OverallTimeout)
  /\ NotRefused
  /\ timeout_fired
  /\ kill_child
  /\ Return(IF timeout_type = "none" THEN "OverallTimeout" ELSE timeout_type)

Arm(reasons) == NotRefused /\ ~timeout_fired /\ exit_reason \in reasons

StopTooEarly ==                \* EC-7
  /\ Arm({"FifoPayload", "FifoTruncated"})
  /\ ~prompt_injected
  /\ kill_child
  /\ Return("Internal")

(* read_transcript_after_stop; a truncated payload does not parse, and     *)
(* every error is returned from here.                                      *)
StopTail ==
  /\ Arm({"FifoPayload", "FifoTruncated"})
  /\ prompt_injected
  /\ pc' = "stop_tail"
  /\ UNCHANGED <<exit_reason, startup, startup_refusal, result, ownedVars,
                 pipeVars, dogVars, seenVars, childVars>>

TailFails ==
  /\ pc = "stop_tail"
  /\ LeaveChild
  /\ \/ Return("Internal")
     \/ exit_reason = "FifoPayload" /\ Return("AssistantError")

TailReadsUndrained ==          \* mutant: the drain is never signalled
  /\ pc = "stop_tail"
  /\ exit_reason = "FifoPayload"
  /\ kill_child
  /\ released' = drive.Pooled
  /\ releases' = releases + (IF drive.Pooled /\ ~released THEN 1 ELSE 0)
  /\ pc' = "draining"
  /\ UNCHANGED <<drive, reader, exit_reason, startup, startup_refusal, result, pipeVars,
                 dogVars, seenVars, output, terminated, fifo>>

TailReadsReleasable ==         \* mutant: release() forgets that it ran
  /\ pc = "stop_tail"
  /\ exit_reason = "FifoPayload"
  /\ kill_child
  /\ releases' = releases + (IF drive.Pooled /\ ~released THEN 1 ELSE 0)
  /\ reader' = IF reader = "tailing" THEN "draining" ELSE reader
  /\ pc' = "draining"
  /\ UNCHANGED <<drive, released, exit_reason, startup, startup_refusal, result, pipeVars,
                 dogVars, seenVars, output, terminated, fifo>>

TailReads ==                   \* kill_child or release, then retarget and drain
  /\ pc = "stop_tail"
  /\ exit_reason = "FifoPayload"
  /\ kill_child
  /\ released' = drive.Pooled
  /\ releases' = releases + (IF drive.Pooled /\ ~released THEN 1 ELSE 0)
  /\ reader' = IF reader = "tailing" THEN "draining" ELSE reader
  /\ pc' = "draining"
  /\ UNCHANGED <<drive, exit_reason, startup, startup_refusal, result, pipeVars,
                 dogVars, seenVars, output, terminated, fifo>>

Drained ==                     \* the handle is dropped, the reader joined
  /\ pc = "draining"
  /\ LeaveChild
  /\ Return("Ok")

(* The arm is chosen before waitpid(child, None), which blocks until the   *)
(* child exits and looks at no deadline.                                   *)
WaitGone ==
  /\ Arm({"ChildExited"})
  /\ pc' = "reaping"
  /\ UNCHANGED <<exit_reason, startup, startup_refusal, result, ownedVars,
                 pipeVars, dogVars, seenVars, childVars>>

ChildGone ==
  /\ pc = "reaping"
  /\ drive.Pooled \/ child # "running"
  /\ child' = IF drive.Pooled THEN child ELSE "reaped"
  /\ UNCHANGED tty
  /\ Return("Internal")

Interrupted ==
  /\ Arm({"Interrupted"})
  /\ kill_child
  /\ Return("Interrupted")

(***************************************************************************)
(* The watchdog thread.  Its elapsed times become true on their own.       *)
(***************************************************************************)
Expire(d) ==
  /\ Live
  /\ d \in drive.Enabled \ expired
  /\ d = "StopHookTimeout" => prompt_injected
  /\ expired' = expired \cup {d}
  /\ UNCHANGED <<loopVars, ownedVars, pipeVars, watchdog, chosen, timeout_fired,
                 timeout_type, dup_ok, seenVars, childVars>>

Due(d) ==
  /\ d \in expired
  /\ d = "PtyFirstOutput" => ~pty_output_received
  /\ d = "StreamJsonFirstOutput" => ~stream_json_output_received

Before(d) ==                   \* the phases checked before phase d
  CASE d = "PtyFirstOutput" -> {}
    [] d = "StreamJsonFirstOutput" -> {"PtyFirstOutput"}
    [] d = "OverallTimeout" -> {"PtyFirstOutput", "StreamJsonFirstOutput"}
    [] d = "StopHookTimeout" -> DeadlineTypes \ {"StopHookTimeout"}

Fire(d) ==
  /\ Live
  /\ watchdog = "watching"
  /\ Due(d)
  /\ \A e \in Before(d) : ~Due(e)
  /\ chosen' = d
  /\ watchdog' = "terminating"
  /\ UNCHANGED <<loopVars, ownedVars, pipeVars, expired, timeout_fired, timeout_type,
                 dup_ok, seenVars, childVars>>

TerminateWaking ==             \* mutant: the loop is woken first
  /\ Live
  /\ watchdog = "terminating"
  /\ watchdog' = "storing"
  /\ terminated' = (terminated \/ (~drive.Pooled /\ child = "running"))
  /\ self_pipe' = (self_pipe \/ dup_ok)
  /\ UNCHANGED <<loopVars, ownedVars, signaled, chosen, expired, timeout_fired,
                 timeout_type, dup_ok, seenVars, child, tty, output, fifo>>

TerminateChild ==              \* suppressed on the pool path
  /\ Live
  /\ watchdog = "terminating"
  /\ watchdog' = "storing"
  /\ terminated' = (terminated \/ (~drive.Pooled /\ child = "running"))
  /\ UNCHANGED <<loopVars, ownedVars, pipeVars, chosen, expired, timeout_fired,
                 timeout_type, dup_ok, seenVars, child, tty, output, fifo>>

StoreFired ==
  /\ Live
  /\ watchdog = "storing"
  /\ watchdog' = "typing"
  /\ timeout_fired' = TRUE
  /\ UNCHANGED <<loopVars, ownedVars, pipeVars, chosen, expired, timeout_type, dup_ok,
                 seenVars, childVars>>

StoreType ==
  /\ Live
  /\ watchdog = "typing"
  /\ watchdog' = "waking"
  /\ timeout_type' = chosen
  /\ UNCHANGED <<loopVars, ownedVars, pipeVars, chosen, expired, timeout_fired, dup_ok,
                 seenVars, childVars>>

WakeNobody ==                  \* mutant: no byte is written
  /\ Live
  /\ watchdog = "waking"
  /\ watchdog' = "done"
  /\ self_pipe' = self_pipe
  /\ UNCHANGED <<loopVars, ownedVars, signaled, chosen, expired, timeout_fired,
                 timeout_type, dup_ok, seenVars, childVars>>

WakeLoop ==
  /\ Live
  /\ watchdog = "waking"
  /\ watchdog' = "done"
  /\ self_pipe' = (self_pipe \/ dup_ok)
  /\ UNCHANGED <<loopVars, ownedVars, signaled, chosen, expired, timeout_fired,
                 timeout_type, dup_ok, seenVars, childVars>>

(***************************************************************************)
(* The rest of the world.                                                  *)
(***************************************************************************)
Signal ==                      \* sigint_handler, sigterm_handler
  /\ Live
  /\ ~signaled
  /\ signaled' = TRUE
  /\ self_pipe' = TRUE
  /\ UNCHANGED <<loopVars, ownedVars, dogVars, seenVars, childVars>>

ForwardLine ==                 \* the reader's first line credits its deadline
  /\ Live
  /\ reader = "tailing"
  /\ ~stream_json_output_received
  /\ stream_json_output_received' = TRUE
  /\ UNCHANGED <<loopVars, ownedVars, pipeVars, dogVars, pty_output_received, childVars>>

Emit ==
  /\ Live
  /\ tty = "open"
  /\ ~output
  /\ output' = TRUE
  /\ UNCHANGED <<loopVars, ownedVars, pipeVars, dogVars, seenVars, child, tty,
                 terminated, fifo>>

StopHook ==                    \* cat > stop.fifo, whole or in two pieces
  /\ Live
  /\ \/ fifo = "empty" /\ child = "running" /\ fifo' \in {"part", "whole"}
     \/ fifo = "part" /\ fifo' = "whole"
  /\ UNCHANGED <<loopVars, ownedVars, pipeVars, dogVars, seenVars, child, tty, output,
                 terminated>>

Exit ==                        \* a descendant may keep the tty
  /\ Live
  /\ child = "running"
  /\ child' = "exited"
  /\ tty' \in {tty, "closed"}
  /\ UNCHANGED <<loopVars, ownedVars, pipeVars, dogVars, seenVars, output, terminated,
                 fifo>>

ObeySigterm ==                 \* what a child that is not stubborn owes
  /\ terminated
  /\ ~drive.Stubborn
  /\ Exit

CloseTty ==
  /\ Live
  /\ tty = "open"
  /\ drive.Detaches \/ child # "running"
  /\ tty' = "closed"
  /\ UNCHANGED <<loopVars, ownedVars, pipeVars, dogVars, seenVars, child, output,
                 terminated, fifo>>

Returned == pc = "returned" /\ UNCHANGED vars

EventLoopStep ==
  \/ PollSelfPipe \/ PollFifo \/ PollGone \/ PollTick \/ PollOutput
  \/ TimersIdle \/ Inject
Tail ==
  \/ LoopFailed \/ Refused \/ TimedOut \/ StopTooEarly \/ StopTail
  \/ TailFails \/ TailReads \/ Drained \/ WaitGone \/ ChildGone \/ Interrupted
Main == EventLoopStep \/ Tail
Dog == \/ \E d \in DeadlineTypes : Fire(d)
       \/ TerminateChild \/ StoreFired \/ StoreType \/ WakeLoop
World ==
  \/ Signal \/ ForwardLine \/ Emit \/ StopHook \/ Exit \/ CloseTty
  \/ \E d \in DeadlineTypes : Expire(d)

Next == Main \/ PollFails \/ PromptWritten \/ Dog \/ World \/ Returned

(* The main thread and the watchdog run; time passes; a child that got     *)
(* SIGTERM and does not survive it exits.  Nothing else is owed.           *)
Fairness ==
  /\ WF_vars(Main)
  /\ WF_vars(tty = "closed" /\ PromptWritten)
  /\ WF_vars(Dog)
  /\ WF_vars(ObeySigterm)
  /\ WF_vars(Expire("OverallTimeout"))

Spec == Init /\ [][Next]_vars /\ Fairness
-----------------------------------------------------------------------------
(***************************************************************************)
(* Properties.                                                             *)
(***************************************************************************)
(* The verdict names its cause.  A watchdog wake and a signal use the same *)
(* self-pipe: a session reports Interrupted (exit 130) only when a signal  *)
(* arrived, because the watchdog records the timeout before it wakes the   *)
(* loop.  Refusing the trust dialog is what the session reports, not the   *)
(* child's exit, a timeout or an interrupt it caused.                      *)
VerdictNamesCause ==
  /\ result = "Interrupted" => signaled
  /\ startup_refusal /\ pc = "returned" =>
       result = "TrustDialogUnresolved" \/ exit_reason = "none"

(* INV-8: no session returns while its reader runs, whichever way it ends, *)
(* a successful one has drained it and no failed one has; and the verdicts *)
(* the session reaches by itself find its child reaped.                    *)
NothingLeftRunning ==
  pc = "returned" =>
    /\ reader \in {"none", "joined", "joined_drained"}
    /\ reader = "joined" => result # "Ok"
    /\ reader = "joined_drained" => result = "Ok"
    /\ result \in {"Ok", "Interrupted", "TrustDialogUnresolved"} \cup DeadlineTypes =>
         drive.Pooled \/ child = "reaped"

(* A pooled worker is given back exactly once, on every way out of the     *)
(* drive, and is never signalled or reaped behind the daemon's back; a     *)
(* stateless session gives nothing back.                                   *)
PooledWorkerReturned ==
  /\ pc = "returned" => releases = (IF drive.Pooled THEN 1 ELSE 0)
  /\ drive.Pooled => ~terminated /\ child # "reaped"

(* Once the prompt is in, a session whose stream nobody can observe is not *)
(* subject to the stream-json deadline any more.                           *)
NoUnsatisfiableDeadline ==
  prompt_injected /\ reader = "none" => ~Due("StreamJsonFirstOutput")

(* A drive whose child honours SIGTERM and keeps its tty while it lives,   *)
(* whose prompt fits, and whose watchdog owns a self-pipe.                 *)
Tame ==
  ~drive.Stubborn /\ ~drive.Detaches /\ ~drive.LargePrompt /\ ~drive.DupFails

(* --timeout and a signal end such a session, pooled or not, wherever they *)
(* reach it.                                                               *)
DeadlineOrSignalEnds ==
  (Tame /\ ("OverallTimeout" \in expired \/ signaled)) ~> pc = "returned"
=============================================================================
