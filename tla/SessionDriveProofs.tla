------------------------- MODULE SessionDriveProofs -------------------------
(***************************************************************************)
(* What a drive leaves when it returns, for every set of drives: a verdict *)
(* that names its cause, no reader and, where the child is the session's,  *)
(* no child; a pooled worker given back once; and no deadline that nothing *)
(* can satisfy.                                                            *)
(***************************************************************************)
EXTENDS SessionDrive, TLAPS

InLoop == {"polling", "chunk", "tick", "writing", "loop_failed"}

(* The watchdog records the timeout before it wakes the loop, so a byte in *)
(* the self-pipe is a signal's or that of a timeout that is on record.     *)
DogInv ==
  /\ expired \subseteq drive.Enabled
  /\ watchdog \in {"watching", "terminating", "storing", "typing", "waking", "done"}
  /\ watchdog # "watching" => chosen \in DeadlineTypes
  /\ watchdog \in {"typing", "waking", "done"} => timeout_fired
  /\ timeout_type \in DeadlineTypes \cup {"none"}
  /\ self_pipe => signaled \/ timeout_fired

(* The main thread decides once, by what it left the loop with.            *)
LoopInv ==
  /\ pc \in InLoop => exit_reason = "none"
  /\ exit_reason = "Interrupted" => signaled \/ timeout_fired
  /\ pc \in {"stop_tail", "draining", "reaping"} => ~startup_refusal
  /\ startup_refusal => child = "reaped"
  /\ pc # "returned" => result = "none"
  /\ result = "Interrupted" => signaled
  /\ startup_refusal /\ pc = "returned" =>
       result = "TrustDialogUnresolved" \/ exit_reason = "none"

(* The reader tails until the drain, and drains only a successful answer.  *)
ReaderInv ==
  /\ pc # "returned" => reader \in {"none", "tailing", "draining"}
  /\ reader = "draining" => pc = "draining"
  /\ pc = "draining" => reader # "tailing" /\ (drive.Pooled \/ child = "reaped")
  /\ NothingLeftRunning

(* A pooled child is never this session's to end.                          *)
PoolInv ==
  /\ drive.Pooled => startup # "Waiting" /\ ~terminated /\ child # "reaped"
  /\ \/ released /\ releases = 1 /\ drive.Pooled
     \/ ~released /\ releases = 0
  /\ pc = "returned" /\ drive.Pooled => released

(* From the injection on there is a reader, or its deadline is credited.   *)
CreditInv ==
  startup = "PromptInjected" /\ reader = "none" =>
    stream_json_output_received \/ ~drive.StreamJson

IInv == drive \in Drives /\ DogInv /\ LoopInv /\ ReaderInv /\ PoolInv /\ CreditInv

LEMMA DriveFields ==
  ASSUME drive \in Drives
  PROVE  /\ drive.Enabled \subseteq DeadlineTypes
         /\ "StreamJsonFirstOutput" \in drive.Enabled => drive.StreamJson
BY SessionDriveAssumption, Zenon DEF DriveType

LEMMA InitIInv == Init => IInv
<1> SUFFICES ASSUME Init PROVE IInv
  OBVIOUS
<1>1. drive \in Drives /\ startup = IF drive.Pooled THEN "TrustDismissed" ELSE "Waiting"
  BY Zenon DEF Init
<1>2. DogInv /\ LoopInv /\ ReaderInv
  BY DEF Init, DogInv, LoopInv, ReaderInv, NothingLeftRunning, InLoop
<1>3. PoolInv /\ CreditInv
  BY <1>1 DEF Init, PoolInv, CreditInv
<1>4. QED
  BY <1>1, <1>2, <1>3 DEF IInv

-----------------------------------------------------------------------------
(***************************************************************************)
(* The ways out: what a verdict must be for Return to keep the invariant.  *)
(***************************************************************************)
Reaping == {"Ok", "Interrupted", "TrustDialogUnresolved"} \cup DeadlineTypes

LEMMA ReturnKeeps ==
  ASSUME IInv, NEW r, Return(r), pc # "returned",
         r = "Interrupted" => signaled,
         startup_refusal => r = "TrustDialogUnresolved" \/ exit_reason = "none",
         reader = "tailing" => r # "Ok",
         reader = "draining" => r = "Ok",
         r \in Reaping => drive.Pooled \/ child' = "reaped",
         drive.Pooled => child' # "reaped",
         startup_refusal => child' = "reaped"
  PROVE  IInv'
<1> USE DEF Return, DropOwned
<1>1. UNCHANGED <<drive, exit_reason, startup, startup_refusal, pipeVars, dogVars,
                  seenVars, terminated>>
  OBVIOUS
<1>2. DogInv'
  BY <1>1 DEF IInv, DogInv, pipeVars, dogVars
<1>3. LoopInv'
  BY <1>1 DEF IInv, LoopInv, InLoop, pipeVars, dogVars
<1>4. reader' \in {"none", "joined", "joined_drained"}
      /\ (reader' = "joined" => reader = "tailing")
      /\ (reader' = "joined_drained" => reader = "draining")
      /\ (reader' = "none" => reader = "none")
  BY DEF IInv, ReaderInv
<1>5. ReaderInv'
  BY <1>1, <1>4 DEF IInv, ReaderInv, NothingLeftRunning, Reaping
<1>6. PoolInv'
  BY <1>1 DEF IInv, PoolInv
<1>7. CreditInv'
  BY <1>1, <1>4 DEF IInv, CreditInv, seenVars
<1>8. QED
  BY <1>1, <1>2, <1>3, <1>5, <1>6, <1>7 DEF IInv

LEMMA KillChild ==
  ASSUME IInv, kill_child, pc # "returned"
  PROVE  /\ drive.Pooled \/ child' = "reaped"
         /\ drive.Pooled => child' # "reaped"
         /\ startup_refusal => child' = "reaped"
BY DEF IInv, kill_child, LeaveChild, PoolInv, LoopInv

LEMMA LeftAlone ==
  ASSUME IInv, child' = child
  PROVE  /\ drive.Pooled => child' # "reaped"
         /\ startup_refusal => child' = "reaped"
BY DEF IInv, PoolInv, LoopInv

LEMMA TailReturns ==
  ASSUME IInv,
         LoopFailed \/ Refused \/ TimedOut \/ StopTooEarly \/ TailFails \/ Drained
         \/ ChildGone \/ Interrupted
  PROVE  IInv'
<1> USE DEF Reaping
<1>1. CASE LoopFailed
  <2>1. pc = "loop_failed" /\ child' = child /\ Return("Internal")
    BY <1>1 DEF LoopFailed, LeaveChild
  <2>2. exit_reason = "none" /\ reader # "draining"
    BY <2>1 DEF IInv, LoopInv, ReaderInv, InLoop
  <2>3. QED
    BY <2>1, <2>2, LeftAlone, ReturnKeeps DEF DeadlineTypes
<1>2. CASE Refused
  <2>1. pc = "left" /\ startup_refusal /\ child' = child /\ Return("TrustDialogUnresolved")
    BY <1>2 DEF Refused, LeaveChild
  <2>2. reader # "draining"
    BY <2>1 DEF IInv, ReaderInv
  <2>3. QED
    BY <2>1, <2>2, LeftAlone, ReturnKeeps DEF DeadlineTypes
<1>3. CASE TimedOut
  <2> DEFINE r == IF timeout_type = "none" THEN "OverallTimeout" ELSE timeout_type
  <2>1. pc = "left" /\ ~startup_refusal /\ kill_child /\ Return(r)
    BY <1>3 DEF TimedOut, NotRefused
  <2>2. r \in DeadlineTypes /\ reader # "draining"
    BY <2>1 DEF IInv, DogInv, ReaderInv, DeadlineTypes
  <2> HIDE DEF r
  <2>3. r \notin {"Ok", "Interrupted"}
    BY <2>2 DEF DeadlineTypes
  <2>4. QED
    BY <2>1, <2>2, <2>3, KillChild, ReturnKeeps
<1>4. CASE StopTooEarly
  <2>1. pc = "left" /\ ~startup_refusal /\ kill_child /\ Return("Internal")
    BY <1>4 DEF StopTooEarly, Arm, NotRefused
  <2>2. reader # "draining"
    BY <2>1 DEF IInv, ReaderInv
  <2>3. QED
    BY <2>1, <2>2, KillChild, ReturnKeeps
<1>5. CASE TailFails
  <2>1. /\ pc = "stop_tail" /\ child' = child
        /\ \E r \in {"Internal", "AssistantError"} : Return(r)
    BY <1>5, Zenon DEF TailFails, LeaveChild
  <2>2. reader # "draining" /\ ~startup_refusal
    BY <2>1 DEF IInv, ReaderInv, LoopInv
  <2>3. PICK r \in {"Internal", "AssistantError"} : Return(r)
    BY <2>1
  <2>4. r \notin Reaping
    BY DEF DeadlineTypes
  <2>5. QED
    BY <2>1, <2>2, <2>3, <2>4, LeftAlone, ReturnKeeps
<1>6. CASE Drained
  <2>1. pc = "draining" /\ child' = child /\ Return("Ok")
    BY <1>6 DEF Drained, LeaveChild
  <2>2. ~startup_refusal /\ reader # "tailing" /\ (drive.Pooled \/ child = "reaped")
    BY <2>1 DEF IInv, LoopInv, ReaderInv
  <2>3. QED
    BY <2>1, <2>2, LeftAlone, ReturnKeeps
<1>7. CASE ChildGone
  <2>1. /\ pc = "reaping" /\ Return("Internal")
        /\ child' = IF drive.Pooled THEN child ELSE "reaped"
    BY <1>7, Zenon DEF ChildGone
  <2>2. ~startup_refusal /\ reader # "draining"
    BY <2>1 DEF IInv, LoopInv, ReaderInv
  <2>3. drive.Pooled => child' # "reaped"
    BY <2>1 DEF IInv, PoolInv
  <2>4. "Internal" \notin Reaping
    BY DEF DeadlineTypes
  <2>5. QED
    BY <2>1, <2>2, <2>3, <2>4, ReturnKeeps
<1>8. CASE Interrupted
  <2>1. /\ pc = "left" /\ ~startup_refusal /\ kill_child /\ Return("Interrupted")
        /\ exit_reason = "Interrupted" /\ ~timeout_fired
    BY <1>8 DEF Interrupted, Arm, NotRefused
  <2>2. signaled /\ reader # "draining"
    BY <2>1 DEF IInv, LoopInv, ReaderInv
  <2>3. QED
    BY <2>1, <2>2, KillChild, ReturnKeeps
<1>9. QED
  BY <1>1, <1>2, <1>3, <1>4, <1>5, <1>6, <1>7, <1>8

-----------------------------------------------------------------------------
(***************************************************************************)
(* The loop.                                                               *)
(***************************************************************************)
LEMMA Leaves ==
  ASSUME IInv, pc = "polling", NEW reason, LeaveLoop(reason),
         reason = "Interrupted" => self_pipe
  PROVE  IInv'
<1> USE DEF LeaveLoop, ownedVars, pipeVars, dogVars, seenVars, childVars
<1>1. DogInv' /\ CreditInv'
  BY DEF IInv, DogInv, CreditInv
<1>2. LoopInv'
  BY DEF IInv, LoopInv, DogInv, InLoop
<1>3. ReaderInv' /\ PoolInv'
  BY DEF IInv, ReaderInv, PoolInv, NothingLeftRunning
<1>4. QED
  BY <1>1, <1>2, <1>3 DEF IInv

(* A place in the loop follows another, or a place after it, with nothing  *)
(* decided.                                                                *)
LEMMA Moves ==
  ASSUME IInv, UNCHANGED <<exit_reason, startup, startup_refusal, result, ownedVars,
                           pipeVars, dogVars, seenVars, childVars>>,
         pc # "returned", pc' # "returned", pc # "draining", pc' # "draining",
         pc' \in InLoop => pc \in InLoop,
         pc' \in {"stop_tail", "reaping"} => ~startup_refusal
  PROVE  IInv'
<1> USE DEF ownedVars, pipeVars, dogVars, seenVars, childVars
<1>1. DogInv' /\ CreditInv'
  BY DEF IInv, DogInv, CreditInv
<1>2. LoopInv'
  BY DEF IInv, LoopInv
<1>3. ReaderInv' /\ PoolInv'
  BY DEF IInv, ReaderInv, PoolInv, NothingLeftRunning
<1>4. QED
  BY <1>1, <1>2, <1>3 DEF IInv

(* The startup decides within the loop; a pooled one never refuses.        *)
LEMMA Decides ==
  ASSUME IInv, NoDecision \/ Dismiss \/ Refuse, pc \in InLoop, pc' \in InLoop,
         UNCHANGED <<exit_reason, result, ownedVars, pipeVars, dogVars,
                     stream_json_output_received, terminated>>
  PROVE  IInv'
<1> USE DEF NoDecision, Dismiss, Refuse, ownedVars, pipeVars, dogVars
<1>1. DogInv' /\ CreditInv'
  BY DEF IInv, DogInv, CreditInv
<1>2. pc # "returned" /\ pc # "draining" /\ pc' # "returned" /\ pc' # "draining"
  BY DEF InLoop
<1>3. LoopInv'
  BY <1>2 DEF IInv, LoopInv, InLoop
<1>4. ReaderInv'
  BY <1>2 DEF IInv, ReaderInv, NothingLeftRunning
<1>5. PoolInv'
  BY <1>2 DEF IInv, PoolInv
<1>6. QED
  BY <1>1, <1>3, <1>4, <1>5 DEF IInv

LEMMA InjectKeeps == ASSUME IInv, Inject PROVE IInv'
<1> USE DEF Inject, pipeVars, dogVars, childVars
<1>1. /\ UNCHANGED <<drive, exit_reason, startup_refusal, result, released, releases,
                     pipeVars, dogVars, childVars>>
      /\ startup = "TrustDismissed" /\ startup' = "PromptInjected"
  BY Zenon
<1>2. pc \in {"chunk", "tick"} /\ pc' \in {"tick", "polling", "writing"}
  BY DEF AfterTimers
<1>3. \/ reader' = "tailing"
      \/ reader' = reader /\ (stream_json_output_received' \/ ~drive.StreamJson)
  BY Zenon
<1>4. DogInv'
  BY <1>1 DEF IInv, DogInv
<1>5. LoopInv'
  BY <1>1, <1>2 DEF IInv, LoopInv, InLoop
<1>6. ReaderInv'
  BY <1>1, <1>2, <1>3 DEF IInv, ReaderInv, NothingLeftRunning
<1>7. PoolInv'
  BY <1>1, <1>2 DEF IInv, PoolInv
<1>8. CreditInv'
  BY <1>1, <1>3 DEF IInv, CreditInv
<1>9. QED
  BY <1>1, <1>4, <1>5, <1>6, <1>7, <1>8 DEF IInv

LEMMA LoopKeeps ==
  ASSUME IInv, EventLoopStep \/ PollFails \/ PromptWritten
  PROVE  IInv'
<1>1. CASE PollSelfPipe \/ PollFifo \/ PollGone
  BY <1>1, Leaves DEF PollSelfPipe, PollFifo, PollGone, NothingFirst
<1>2. CASE PollTick \/ PollFails \/ PromptWritten
  BY <1>2, Moves DEF PollTick, PollFails, PromptWritten, NothingFirst, InLoop
<1>3. CASE PollOutput
  BY <1>3, Decides DEF PollOutput, NothingFirst, InLoop
<1>4. CASE TimersIdle
  BY <1>4, Decides DEF TimersIdle, AfterTimers, InLoop, seenVars
<1>5. CASE Inject
  BY <1>5, InjectKeeps
<1>6. QED
  BY <1>1, <1>2, <1>3, <1>4, <1>5 DEF EventLoopStep

LEMMA TailKeeps == ASSUME IInv, Tail PROVE IInv'
<1>1. CASE StopTail \/ WaitGone
  BY <1>1, Moves DEF StopTail, WaitGone, Arm, NotRefused, InLoop
<1>2. CASE TailReads
  <2> USE <1>2 DEF TailReads, pipeVars, dogVars, seenVars
  <2>1. /\ pc = "stop_tail" /\ pc' = "draining" /\ kill_child
        /\ reader' = IF reader = "tailing" THEN "draining" ELSE reader
        /\ UNCHANGED <<drive, exit_reason, startup, startup_refusal, result, pipeVars,
                       dogVars, seenVars, terminated>>
    OBVIOUS
  <2>2. DogInv'
    BY <2>1 DEF IInv, DogInv
  <2>3. LoopInv'
    BY <2>1, KillChild DEF IInv, LoopInv, InLoop
  <2>4. ReaderInv'
    BY <2>1, KillChild DEF IInv, ReaderInv, NothingLeftRunning
  <2>5. PoolInv'
    BY <2>1, KillChild DEF IInv, PoolInv
  <2>6. CreditInv'
    BY <2>1 DEF IInv, CreditInv
  <2>7. QED
    BY <2>1, <2>2, <2>3, <2>4, <2>5, <2>6 DEF IInv
<1>3. CASE LoopFailed \/ Refused \/ TimedOut \/ StopTooEarly \/ TailFails \/ Drained
           \/ ChildGone \/ Interrupted
  BY <1>3, TailReturns
<1>4. QED
  BY <1>1, <1>2, <1>3 DEF Tail

-----------------------------------------------------------------------------
(***************************************************************************)
(* The watchdog and the world leave the main thread's variables alone.     *)
(***************************************************************************)
LEMMA DogKeeps == ASSUME IInv, Dog PROVE IInv'
<1> USE DEF loopVars, ownedVars, pipeVars, seenVars, childVars
<1>1. UNCHANGED <<loopVars, ownedVars, signaled, seenVars, child, expired>>
      /\ (timeout_fired => timeout_fired')
  BY DEF Dog, Fire, TerminateChild, StoreFired, StoreType, WakeLoop
<1>2. drive.Pooled => ~terminated'
  BY DEF Dog, Fire, TerminateChild, StoreFired, StoreType, WakeLoop, IInv, PoolInv
<1>3. DogInv'
  <2>1. CASE \E d \in DeadlineTypes : Fire(d)
    BY <2>1 DEF Fire, IInv, DogInv
  <2>2. CASE TerminateChild \/ StoreFired
    BY <2>2 DEF TerminateChild, StoreFired, IInv, DogInv
  <2>3. CASE StoreType \/ WakeLoop
    BY <2>3 DEF StoreType, WakeLoop, IInv, DogInv
  <2>4. QED
    BY <2>1, <2>2, <2>3 DEF Dog
<1>4. LoopInv' /\ CreditInv'
  BY <1>1 DEF IInv, LoopInv, CreditInv
<1>5. ReaderInv' /\ PoolInv'
  BY <1>1, <1>2 DEF IInv, ReaderInv, PoolInv, NothingLeftRunning
<1>6. QED
  BY <1>1, <1>3, <1>4, <1>5 DEF IInv

LEMMA WorldKeeps == ASSUME IInv, World PROVE IInv'
<1> USE DEF loopVars, ownedVars, pipeVars, dogVars, seenVars, childVars
<1>1. /\ UNCHANGED <<loopVars, ownedVars, watchdog, chosen, timeout_fired, timeout_type,
                     terminated>>
      /\ signaled => signaled'
      /\ stream_json_output_received => stream_json_output_received'
  BY DEF World, Signal, ForwardLine, Emit, StopHook, Exit, CloseTty, Expire
<1>2. child' = child \/ (child = "running" /\ child' = "exited")
  BY Zenon DEF World, Signal, ForwardLine, Emit, StopHook, Exit, CloseTty, Expire
<1>3. self_pipe' => signaled' \/ self_pipe
  BY Zenon DEF World, Signal, ForwardLine, Emit, StopHook, Exit, CloseTty, Expire
<1>4. expired' \subseteq drive.Enabled
  BY DEF World, Signal, ForwardLine, Emit, StopHook, Exit, CloseTty, Expire, IInv, DogInv
<1>5. DogInv'
  BY <1>1, <1>3, <1>4 DEF IInv, DogInv
<1>6. LoopInv' /\ CreditInv'
  BY <1>1, <1>2 DEF IInv, LoopInv, CreditInv
<1>7. ReaderInv' /\ PoolInv'
  BY <1>1, <1>2 DEF IInv, ReaderInv, PoolInv, NothingLeftRunning
<1>8. QED
  BY <1>1, <1>5, <1>6, <1>7 DEF IInv

THEOREM Invariance == Spec => []IInv
<1>1. IInv /\ [Next]_vars => IInv'
  <2> SUFFICES ASSUME IInv, [Next]_vars PROVE IInv'
    OBVIOUS
  <2>1. CASE Returned \/ UNCHANGED vars
    BY <2>1
    DEF Returned, vars, loopVars, ownedVars, pipeVars, dogVars, seenVars, childVars,
        IInv, DogInv, LoopInv, ReaderInv, PoolInv, CreditInv, NothingLeftRunning
  <2>2. QED
    BY <2>1, LoopKeeps, TailKeeps, DogKeeps, WorldKeeps DEF Next, Main
<1>2. QED
  BY <1>1, InitIInv, PTL DEF Spec

(* Interrupted is reported only of a signal, and a refused dialog as one.  *)
THEOREM VerdictTheorem == Spec => []VerdictNamesCause
<1>1. IInv => VerdictNamesCause
  BY DEF IInv, LoopInv, VerdictNamesCause
<1>2. QED
  BY <1>1, Invariance, PTL

(* A drive that returned left no reader, and no child it had to end.       *)
THEOREM NothingLeftTheorem == Spec => []NothingLeftRunning
<1>1. IInv => NothingLeftRunning
  BY DEF IInv, ReaderInv
<1>2. QED
  BY <1>1, Invariance, PTL

(* A pooled worker is given back once, alive; nothing else is.             *)
THEOREM WorkerReturnedTheorem == Spec => []PooledWorkerReturned
<1>1. IInv => PooledWorkerReturned
  BY DEF IInv, PoolInv, PooledWorkerReturned
<1>2. QED
  BY <1>1, Invariance, PTL

(* Where no reader can credit the stream-json deadline, it is not due.     *)
THEOREM NoUnsatisfiableTheorem == Spec => []NoUnsatisfiableDeadline
<1>1. IInv => NoUnsatisfiableDeadline
  <2> SUFFICES ASSUME IInv, prompt_injected, reader = "none", Due("StreamJsonFirstOutput")
               PROVE FALSE
    BY DEF NoUnsatisfiableDeadline
  <2>1. "StreamJsonFirstOutput" \in drive.Enabled /\ ~stream_json_output_received
    BY DEF IInv, DogInv, Due
  <2>2. drive.StreamJson
    BY <2>1, DriveFields DEF IInv
  <2>3. QED
    BY <2>1, <2>2 DEF IInv, CreditInv, prompt_injected
<1>2. QED
  BY <1>1, Invariance, PTL
=============================================================================
