-------------------------- MODULE WarmWorkerProofs --------------------------
(***************************************************************************)
(* The life of one worker, for any set of descendants: what is proved of   *)
(* destroy_worker (WorkerTeardown) holds of a worker that is destroyed at  *)
(* any moment of its warm-up and its use, because a step of WarmWorker is  *)
(* a step of WorkerTeardown or leaves its variables alone; and that it is  *)
(* handed out whole follows from what the thread has done by the time its  *)
(* notification is sent.                                                   *)
(***************************************************************************)
EXTENDS WarmWorker, TLAPS

(***************************************************************************)
(* destroy_worker.  None of its safety properties is inductive alone: what *)
(* holds at its end follows from what each of its ways to the end has      *)
(* done.                                                                   *)
(***************************************************************************)
BeforeTheReap == {"idle", "term", "term_pid", "waiting", "kill", "kill_pid", "reap"}
AfterTheReap == {"probe", "kill_rest", "done"}

(* Which side of the reap each step of destroy_worker is on; a group that  *)
(* was killed has no member left to refill it, and one whose probe failed  *)
(* had none.                                                               *)
IInv ==
  /\ TypeOK
  /\ pc \in BeforeTheReap => Unreaped
  /\ pc \in AfterTheReap => child = "reaped"
  /\ in_grace /\ pc = "kill" => child # "forked"
  /\ in_grace => pc # "kill_pid"
  /\ in_grace /\ pc = "reap" => child = "zombie" /\ Group = {}
  /\ in_grace /\ pc = "done" => Group = {}

LEMMA InitIInv == Init => IInv
BY DEF Init, IInv, TypeOK, BeforeTheReap, AfterTheReap, Unreaped, Group

(* KillGroup leaves no member.                                             *)
LEMMA KillGroupEmpties ==
  ASSUME TypeOK, KillGroup
  PROVE  /\ Group' = {}
         /\ kin' \in [Descendants -> {"none", "group", "session", "away"}]
         /\ child' = IF child = "reaped" THEN child ELSE "zombie"
BY DEF TypeOK, KillGroup, Group, Die

(* Every step of destroy_worker preserves the invariant.                   *)
LEMMA TeardownIInv == IInv /\ Teardown => IInv'
<1> SUFFICES ASSUME IInv, Teardown PROVE IInv'
  OBVIOUS
<1> USE DEF IInv, TypeOK, BeforeTheReap, AfterTheReap, Unreaped, Group, GoTo
<1>1. CASE CloseMaster
  BY <1>1 DEF CloseMaster
<1>2. CASE TermGroup
  BY <1>2 DEF TermGroup
<1>3. CASE TermPid
  BY <1>3 DEF TermPid
<1>4. CASE Observe
  BY <1>4 DEF Observe
<1>5. CASE GraceOver
  BY <1>5 DEF GraceOver
<1>6. CASE KillWorker
  <2>1. CASE GroupExists /\ pc' = "reap" /\ KillGroup
    BY <1>6, <2>1, KillGroupEmpties DEF KillWorker
  <2>2. CASE ~GroupExists /\ pc' = "kill_pid" /\ UNCHANGED <<child, kin>>
    BY <1>6, <2>2 DEF KillWorker, GroupExists
  <2>3. QED
    BY <1>6, <2>1, <2>2 DEF KillWorker
<1>7. CASE KillPid
  BY <1>7 DEF KillPid, Die
<1>8. CASE Reap
  BY <1>8 DEF Reap
<1>9. CASE WaitInterrupted
  BY <1>9 DEF WaitInterrupted
<1>10. CASE Probe
  BY <1>10 DEF Probe, GroupExists
<1>11. CASE KillRest
  BY <1>11, KillGroupEmpties DEF KillRest
<1>12. QED
  BY <1>1, <1>2, <1>3, <1>4, <1>5, <1>6, <1>7, <1>8, <1>9, <1>10, <1>11
  DEF Teardown

(* So does every step of the processes: a group without a member and       *)
(* without its leader gets no new one.                                     *)
LEMMA ProcessesIInv == IInv /\ Processes => IInv'
<1> SUFFICES ASSUME IInv, Processes PROVE IInv'
  OBVIOUS
<1> USE DEF IInv, TypeOK, BeforeTheReap, AfterTheReap, Unreaped, Group
<1>1. CASE LoginTty
  BY <1>1 DEF LoginTty
<1>2. CASE ChildExits
  BY <1>2 DEF ChildExits
<1>3. CASE StrangerStarts
  BY <1>3 DEF StrangerStarts
<1>4. ASSUME NEW d \in Descendants, Spawn(d) PROVE IInv'
  BY <1>4 DEF Spawn
<1>5. ASSUME NEW d \in Descendants, Leave(d) PROVE IInv'
  BY <1>5 DEF Leave
<1>6. ASSUME NEW d \in Descendants, DescendantExits(d) PROVE IInv'
  BY <1>6 DEF DescendantExits, Lives
<1>7. QED
  BY <1>1, <1>2, <1>3, <1>4, <1>5, <1>6 DEF Processes

THEOREM Invariance == Safely => []IInv
<1>1. IInv /\ [Next]_vars => IInv'
  <2>1. IInv /\ UNCHANGED vars => IInv'
    BY DEF IInv, TypeOK, BeforeTheReap, AfterTheReap, Unreaped, Group, vars
  <2>2. QED
    BY <2>1, TeardownIInv, ProcessesIInv DEF Next, Over
<1>2. QED
  BY <1>1, InitIInv, PTL DEF Safely

(* Every variable keeps its type.                                          *)
THEOREM TypeCorrect == Safely => []TypeOK
<1>1. IInv => TypeOK
  BY DEF IInv
<1>2. QED
  BY <1>1, Invariance, PTL

(* destroy_worker never returns before the child has been reaped.          *)
THEOREM ReapedOnReturnTheorem == Safely => []ReapedOnReturn
<1>1. IInv => ReapedOnReturn
  BY DEF IInv, ReapedOnReturn, AfterTheReap
<1>2. QED
  BY <1>1, Invariance, PTL

(* kill(pid) is reached only while the child is unreaped.                  *)
THEOREM BarePidPinnedTheorem == Safely => []BarePidPinned
<1>1. IInv => BarePidPinned
  BY DEF IInv, BarePidPinned, BeforeTheReap
<1>2. QED
  BY <1>1, Invariance, PTL

(* If the child became a group leader within the grace, nothing of its     *)
(* group outlives destroy_worker.                                          *)
THEOREM NoGroupSurvivorsTheorem == Safely => []NoGroupSurvivors
<1>1. IInv => NoGroupSurvivors
  BY DEF IInv, NoGroupSurvivors
<1>2. QED
  BY <1>1, Invariance, PTL

-----------------------------------------------------------------------------
(***************************************************************************)
(* The worker.                                                             *)
(***************************************************************************)
LEMMA StepTearsDown == [WNext]_wvars => [Next]_vars
<1> SUFFICES ASSUME [WNext]_wvars PROVE [Next]_vars
  OBVIOUS
<1>1. CASE Thread
  <2>1. UNCHANGED vars
    BY <1>1, Zenon DEF Thread, Begin, PollWoken, PollGone, PollOutput, PollTick,
                       Settles, Refused, Timers
  <2>2. QED
    BY <2>1
<1>2. CASE World
  <2>1. UNCHANGED vars \/ Processes
    BY <1>2, Zenon DEF World, Quiet, Late, Emit, CloseSlave, Live
  <2>2. QED
    BY <2>1 DEF Next
<1>3. CASE Daemon
  <2>1. UNCHANGED vars \/ Teardown
    BY <1>3, Zenon DEF Daemon, Receive, Acquire, Release, Shutdown, ShutdownAll, Destroy
  <2>2. QED
    BY <2>1 DEF Next
<1>4. CASE WOver \/ UNCHANGED wvars
  BY <1>4 DEF WOver, wvars
<1>5. QED
  BY <1>1, <1>2, <1>3, <1>4 DEF WNext

THEOREM WarmWorkerTearsDown == WSpec => Safely
<1>1. WInit => Init
  BY DEF WInit
<1>2. QED
  BY <1>1, StepTearsDown, PTL DEF WSpec, Safely

(* destroy_worker returns only with the child reaped.                      *)
THEOREM ReapedTheorem == WSpec => []ReapedOnReturn
BY WarmWorkerTearsDown, ReapedOnReturnTheorem, PTL

(* The bare process number is used only while the child holds it.          *)
THEOREM PinnedTheorem == WSpec => []BarePidPinned
BY WarmWorkerTearsDown, BarePidPinnedTheorem, PTL

(* Nothing of the worker's group outlives destroy_worker, if it led one by *)
(* the end of the grace.                                                   *)
THEOREM GroupTheorem == WSpec => []NoGroupSurvivors
BY WarmWorkerTearsDown, NoGroupSurvivorsTheorem, PTL

(***************************************************************************)
(* The hand-over.  Ready is reached through the keys, and reported by a    *)
(* thread that does nothing any more.                                      *)
(***************************************************************************)
HandInv ==
  /\ startup_seq \in {"Waiting", "TrustDismissed", "PromptInjected"}
  /\ startup_seq # "Waiting" => typed = "keys"
  /\ warmup_phase = "Ready" => startup_seq = "PromptInjected"
  /\ thread # "ended" => sent = 0 /\ warmup_rx = "none"
  /\ thread = "ended" => sent = 1
  /\ warmup_rx = "Ready" => thread = "ended" /\ typed = "keys"
  /\ state \in {"Ready", "InUse"} => thread = "ended" /\ typed = "keys"

LEMMA ThreadKeeps == HandInv /\ Thread => HandInv'
<1> SUFFICES ASSUME HandInv, Thread PROVE HandInv'
  OBVIOUS
<1>0. UNCHANGED state
  BY Zenon DEF Thread, Begin, PollWoken, PollGone, PollOutput, PollTick, Settles,
               Refused, Timers, poolVars
<1>1. CASE Begin
  <2>1. /\ thread = "starting" /\ UNCHANGED <<startup_seq, typed, warmup_phase>>
        /\ \/ thread' = "polling" /\ warmup_rx' = warmup_rx /\ sent' = sent
           \/ thread' = "ended" /\ warmup_rx' = "Failed" /\ sent' = sent + 1
    BY <1>1, Zenon DEF Begin, Send, rxVars
  <2>2. QED
    BY <1>0, <2>1 DEF HandInv
<1>2. CASE PollWoken
  <2>1. /\ thread = "polling" /\ UNCHANGED <<startup_seq, typed, warmup_phase>>
        /\ thread' = "ended" /\ warmup_rx' = warmup_phase /\ sent' = sent + 1
    BY <1>2, Zenon DEF PollWoken, Send
  <2>2. QED
    BY <1>0, <2>1 DEF HandInv
<1>3. CASE PollGone
  <2>1. /\ thread = "polling" /\ UNCHANGED <<startup_seq, typed, warmup_phase>>
        /\ thread' = "ended" /\ warmup_rx' = "Failed" /\ sent' = sent + 1
    BY <1>3, Zenon DEF PollGone, Send
  <2>2. QED
    BY <1>0, <2>1 DEF HandInv
<1>4. CASE PollOutput \/ PollTick
  <2>1. /\ thread = "polling" /\ thread' \in {"chunk", "tick"}
        /\ UNCHANGED <<startup_seq, typed, warmup_rx, sent>>
        /\ warmup_phase' \in {warmup_phase, "Failed"}
    BY <1>4, Zenon DEF PollOutput, PollTick, Fail, rxVars
  <2>2. QED
    BY <1>0, <2>1 DEF HandInv
<1>5. CASE Settles
  <2>1. /\ thread \in {"chunk", "tick"} /\ thread' \in {"polling", "tick"}
        /\ startup_seq = "TrustDismissed" /\ startup_seq' = "PromptInjected"
        /\ UNCHANGED <<typed, warmup_rx, sent>>
    BY <1>5, Zenon DEF Settles, Returns, rxVars
  <2>2. QED
    BY <1>0, <2>1 DEF HandInv
<1>6. CASE Refused
  <2>1. /\ thread \in {"chunk", "tick"} /\ thread' \in {"polling", "tick"}
        /\ UNCHANGED <<startup_seq, typed, warmup_rx, sent>>
        /\ warmup_phase' = "Failed"
    BY <1>6, Zenon DEF Refused, Returns, Fail, rxVars
  <2>2. QED
    BY <1>0, <2>1 DEF HandInv
<1>7. CASE Timers
  <2>1. /\ thread \in {"chunk", "tick"} /\ thread' \in {"polling", "tick"}
        /\ UNCHANGED <<warmup_rx, sent>>
        /\ warmup_phase' \in {warmup_phase, "Settling", "Failed"}
        /\ \/ startup_seq = "Waiting" /\ startup_seq' = "TrustDismissed" /\ typed' = "keys"
           \/ UNCHANGED <<startup_seq, typed>>
    BY <1>7, Zenon DEF Timers, Returns, Dismiss, NoAction, Fail, rxVars
  <2>2. QED
    BY <1>0, <2>1 DEF HandInv
<1>8. QED
  BY <1>1, <1>2, <1>3, <1>4, <1>5, <1>6, <1>7 DEF Thread

LEMMA RestKeeps == HandInv /\ (World \/ Daemon \/ WOver \/ UNCHANGED wvars) => HandInv'
<1> SUFFICES ASSUME HandInv, World \/ Daemon \/ WOver \/ UNCHANGED wvars PROVE HandInv'
  OBVIOUS
<1>1. UNCHANGED <<thread, startup_seq, typed, warmup_phase, sent>>
  <2>1. CASE World
    BY <2>1, Zenon DEF World, Quiet, Late, Emit, CloseSlave, Live, threadVars, rxVars
  <2>2. CASE Daemon
    BY <2>2, Zenon DEF Daemon, Receive, Acquire, Release, Shutdown, ShutdownAll, Destroy,
                       threadVars, rxVars
  <2>3. CASE WOver \/ UNCHANGED wvars
    BY <2>3 DEF WOver, wvars, threadVars, rxVars
  <2>4. QED
    BY <2>1, <2>2, <2>3
<1>2. /\ warmup_rx' \in {warmup_rx, "none"}
      /\ \/ state' \in {state, "Replacing"}
         \/ state' = "Ready" /\ warmup_rx = "Ready"
         \/ state' = "InUse" /\ state = "Ready"
  <2>1. CASE World
    BY <2>1, Zenon DEF World, Quiet, Late, Emit, CloseSlave, Live, poolVars, rxVars
  <2>2. CASE Receive
    BY <2>2 DEF Receive
  <2>3. CASE Acquire \/ Release \/ Shutdown \/ ShutdownAll \/ Destroy
    BY <2>3, Zenon DEF Acquire, Release, Shutdown, ShutdownAll, Destroy, rxVars
  <2>4. CASE WOver \/ UNCHANGED wvars
    BY <2>4 DEF WOver, wvars, poolVars, rxVars
  <2>5. QED
    BY <2>1, <2>2, <2>3, <2>4 DEF Daemon
<1>3. QED
  BY <1>1, <1>2 DEF HandInv

(* A worker is handed out with its dialog answered, no prompt typed, and   *)
(* its warm-up thread returned.                                            *)
THEOREM HandedOverWholeTheorem == WSpec => []HandedOverWhole
<1>1. WInit => HandInv
  BY DEF WInit, HandInv
<1>2. HandInv /\ [WNext]_wvars => HandInv'
  BY ThreadKeeps, RestKeeps DEF WNext
<1>3. HandInv => HandedOverWhole
  BY DEF HandInv, HandedOverWhole
<1>4. QED
  BY <1>1, <1>2, <1>3, PTL DEF WSpec

-----------------------------------------------------------------------------
(***************************************************************************)
(* A worker that hung up.  The window is over only while the thread polls, *)
(* and the poll that finds output of a worker that hung up starts it anew: *)
(* in the callbacks behind it nothing is settled.                          *)
(***************************************************************************)
HungInv == thread \in {"chunk", "tick"} /\ hung => ~quiet

LEMMA HungThread == HungInv /\ Thread => HungInv'
<1> SUFFICES ASSUME HungInv, Thread PROVE HungInv'
  OBVIOUS
<1>1. CASE Begin \/ PollWoken \/ PollGone
  <2>1. thread' \in {"polling", "ended"}
    BY <1>1, Zenon DEF Begin, PollWoken, PollGone, Send
  <2>2. QED
    BY <2>1 DEF HungInv
<1>2. CASE PollOutput
  <2>1. quiet' = FALSE
    BY <1>2, Zenon DEF PollOutput
  <2>2. QED
    BY <2>1 DEF HungInv
<1>3. CASE PollTick
  <2>1. hung' = FALSE
    BY <1>3, Zenon DEF PollTick
  <2>2. QED
    BY <2>1 DEF HungInv
<1>4. CASE Settles \/ Refused \/ Timers
  <2>1. /\ thread \in {"chunk", "tick"} /\ hung' = hung
        /\ quiet' = quiet \/ quiet' = FALSE
    BY <1>4, Zenon DEF Settles, Refused, Timers, Dismiss, NoAction
  <2>2. QED
    BY <2>1, Zenon DEF HungInv
<1>5. QED
  BY <1>1, <1>2, <1>3, <1>4 DEF Thread

LEMMA HungRest == HungInv /\ (World \/ Daemon \/ WOver \/ UNCHANGED wvars) => HungInv'
<1> SUFFICES ASSUME HungInv, World \/ Daemon \/ WOver \/ UNCHANGED wvars PROVE HungInv'
  OBVIOUS
<1>1. CASE Quiet
  <2>1. thread' = "polling"
    BY <1>1 DEF Quiet
  <2>2. QED
    BY <2>1 DEF HungInv
<1>2. CASE Late \/ Emit \/ CloseSlave \/ Live \/ Daemon \/ WOver \/ UNCHANGED wvars
  <2>1. thread' = thread /\ hung' = hung /\ quiet' = quiet
    <3>1. CASE Late \/ Emit \/ CloseSlave \/ Live
      BY <3>1, Zenon DEF Late, Emit, CloseSlave, Live, threadVars
    <3>2. CASE Daemon
      BY <3>2, Zenon DEF Daemon, Receive, Acquire, Release, Shutdown, ShutdownAll,
                         Destroy, threadVars
    <3>3. CASE WOver \/ UNCHANGED wvars
      BY <3>3, Zenon DEF WOver, wvars, threadVars
    <3>4. QED
      BY <1>2, <3>1, <3>2, <3>3
  <2>2. QED
    BY <2>1, Zenon DEF HungInv
<1>3. QED
  BY <1>1, <1>2 DEF World

(* Only what settles the worker makes it Ready. *)
LEMMA SettlesOnly ==
  ASSUME [WNext]_wvars, warmup_phase' = "Ready"
  PROVE  warmup_phase = "Ready" \/ (Settles /\ thread \in {"chunk", "tick"} /\ quiet)
<1>1. CASE Begin \/ PollWoken \/ PollGone \/ PollTick
  BY <1>1, Zenon DEF Begin, PollWoken, PollGone, PollTick
<1>2. CASE PollOutput \/ Refused \/ Timers
  <2>1. warmup_phase' \in {warmup_phase, "Settling", "Failed"}
    BY <1>2, Zenon DEF PollOutput, Refused, Timers, Fail
  <2>2. QED
    BY <2>1
<1>3. CASE Settles
  BY <1>3, Zenon DEF Settles
<1>4. CASE World \/ Daemon \/ WOver \/ UNCHANGED wvars
  <2>1. warmup_phase' = warmup_phase
    <3>1. CASE World
      BY <3>1, Zenon DEF World, Quiet, Late, Emit, CloseSlave, Live, threadVars
    <3>2. CASE Daemon
      BY <3>2, Zenon DEF Daemon, Receive, Acquire, Release, Shutdown, ShutdownAll,
                         Destroy, threadVars
    <3>3. CASE WOver \/ UNCHANGED wvars
      BY <3>3, Zenon DEF WOver, wvars, threadVars
    <3>4. QED
      BY <1>4, <3>1, <3>2, <3>3
  <2>2. QED
    BY <2>1
<1>5. QED
  BY <1>1, <1>2, <1>3, <1>4 DEF WNext, Thread

(* A worker that hung up is never found settled, whatever it left to read. *)
THEOREM SettledWhileOpenTheorem == WSpec => SettledWhileOpen
<1>1. WInit => HungInv
  BY DEF WInit, HungInv
<1>2. HungInv /\ [WNext]_wvars => HungInv'
  BY HungThread, HungRest DEF WNext
<1>3. HungInv /\ [WNext]_wvars =>
        [warmup_phase' = "Ready" => warmup_phase = "Ready" \/ ~hung]_wvars
  BY SettlesOnly, Zenon DEF HungInv
<1>4. QED
  BY <1>1, <1>2, <1>3, PTL DEF WSpec, SettledWhileOpen
=============================================================================
