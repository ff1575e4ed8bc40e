----------------------------- MODULE WarmWorker -----------------------------
(***************************************************************************)
(* One worker from its fork to its teardown (src/src/pool.rs): the warm-up *)
(* thread, which polls the worker's PTY through a raw copy of its master   *)
(* (warm_worker_to_outcome, over EventLoop::run and StartupSeq), and the   *)
(* daemon, which receives the thread's one notification, hands the worker  *)
(* out, takes it back and destroys it (WorkerTeardown) at any time.        *)
(***************************************************************************)
EXTENDS WorkerTeardown, Naturals

VARIABLES
  thread,        (* "starting", "polling", "chunk" or "tick" (the two
                    callbacks of a pass), or "ended"                       *)
  warmup_phase,  (* WarmupPhase                                            *)
  startup_seq,   (* StartupPhase                                           *)
  quiet,         (* the quiet window startup_seq waits for is over         *)
  late,          (* WARMUP_TIMEOUT_SECS are over                           *)
  woken,         (* a byte waits in the thread's self-pipe                 *)
  typed,         (* the last the thread wrote, answers to probes aside     *)
  hung,          (* the PTY was hung up at the last poll                   *)
  slave,         (* whoever lives of the worker holds the slave side open  *)
  output,        (* bytes wait on the master                               *)
  master,        (* the daemon's descriptor: "open" or "closed"            *)
  state,         (* the WorkerState, "Replacing" once it left the map      *)
  shutdown,      (* PoolManager.shutdown                                   *)
  warmup_rx,     (* the notification not received yet                      *)
  sent           (* notifications sent                                     *)

threadVars == <<thread, warmup_phase, startup_seq, quiet, late, woken, typed, hung>>
ptyVars == <<slave, output>>
poolVars == <<master, state, shutdown>>
rxVars == <<warmup_rx, sent>>
wvars == <<vars, threadVars, ptyVars, poolVars, rxVars>>

PtyOpen ==
  slave /\ (child \in {"forked", "leader"} \/ \E d \in Descendants : Lives(d))

WInit ==                       \* create_worker returned, the thread is spawned
  /\ Init
  /\ thread = "starting"
  /\ warmup_phase = "Starting"
  /\ startup_seq = "Waiting"
  /\ quiet = FALSE
  /\ late = FALSE
  /\ woken = FALSE
  /\ typed = "nothing"
  /\ hung = FALSE
  /\ slave = TRUE
  /\ output = FALSE
  /\ master = "open"
  /\ state = "Warming"
  /\ shutdown = FALSE
  /\ warmup_rx = "none"
  /\ sent = 0

(***************************************************************************)
(* The thread.                                                             *)
(***************************************************************************)
Send(outcome) ==               \* warm_worker_background: returns, and sends
  /\ thread' = "ended"
  /\ warmup_rx' = outcome
  /\ sent' = sent + 1

Begin ==
  /\ thread = "starting"
  /\ \/ ~shutdown /\ thread' = "polling" /\ UNCHANGED rxVars
     \/ Send("Failed")                       \* shutdown, or pipe(2) fails
  /\ UNCHANGED <<vars, warmup_phase, startup_seq, quiet, late, woken, typed, hung,
                 ptyVars, poolVars>>

PollWoken ==                   \* the self-pipe comes first
  /\ thread = "polling" /\ woken
  /\ Send(warmup_phase)
  /\ UNCHANGED <<vars, warmup_phase, startup_seq, quiet, late, woken, typed, hung,
                 ptyVars, poolVars>>

PollGone ==                    \* POLLHUP and nothing to read, or POLLNVAL
  /\ thread = "polling" /\ ~woken
  /\ master = "closed" \/ (~PtyOpen /\ ~output)
  /\ Send("Failed")
  /\ UNCHANGED <<vars, warmup_phase, startup_seq, quiet, late, woken, typed, hung,
                 ptyVars, poolVars>>

Fail == warmup_phase' = "Failed" /\ woken' = TRUE

PollOutput ==                  \* feed: nothing, or a refusal or a timeout
  /\ thread = "polling" /\ ~woken
  /\ master = "open" /\ output
  /\ output' = FALSE
  /\ quiet' = FALSE
  /\ hung' = ~PtyOpen
  /\ \/ thread' = "chunk" /\ UNCHANGED <<warmup_phase, woken>>
     \/ thread' = "tick" /\ startup_seq = "Waiting" /\ Fail
  /\ UNCHANGED <<vars, startup_seq, late, typed, slave, poolVars, rxVars>>

PollTickHungUp ==              \* mutant: POLLHUP ends the loop on data only
  /\ thread = "polling" /\ ~woken
  /\ master = "open" /\ ~output
  /\ thread' = "tick"
  /\ hung' = ~PtyOpen
  /\ UNCHANGED <<vars, warmup_phase, startup_seq, quiet, late, woken, typed,
                 ptyVars, poolVars, rxVars>>

PollTick ==
  /\ thread = "polling" /\ ~woken
  /\ master = "open" /\ ~output /\ PtyOpen
  /\ thread' = "tick"
  /\ hung' = FALSE
  /\ UNCHANGED <<vars, warmup_phase, startup_seq, quiet, late, woken, typed,
                 ptyVars, poolVars, rxVars>>

Returns == thread' = IF thread = "chunk" THEN "tick" ELSE "polling"

SettlesAloud ==                \* mutant: notifies from within the callback
  /\ thread \in {"chunk", "tick"} /\ Returns
  /\ startup_seq = "TrustDismissed" /\ quiet
  /\ startup_seq' = "PromptInjected"
  /\ warmup_phase' = "Ready"
  /\ woken' = TRUE
  /\ sent' = sent + 1 /\ warmup_rx' = "Ready"
  /\ UNCHANGED <<vars, quiet, late, typed, hung, ptyVars, poolVars>>

(* The payload of the settled sequencer is an empty prompt: never written. *)
Settles ==
  /\ thread \in {"chunk", "tick"} /\ Returns
  /\ startup_seq = "TrustDismissed" /\ quiet
  /\ startup_seq' = "PromptInjected"
  /\ warmup_phase' = "Ready"
  /\ woken' = TRUE
  /\ UNCHANGED <<vars, quiet, late, typed, hung, ptyVars, poolVars, rxVars>>

Refused ==                     \* StartupAction::Refuse or HardTimeout
  /\ thread \in {"chunk", "tick"} /\ Returns
  /\ startup_seq = "Waiting"
  /\ Fail
  /\ UNCHANGED <<vars, startup_seq, quiet, late, typed, hung, ptyVars, poolVars, rxVars>>

Dismiss ==                     \* the keys, then the window starts again
  /\ startup_seq = "Waiting" /\ quiet
  /\ startup_seq' = "TrustDismissed"
  /\ quiet' = FALSE
  /\ typed' = "keys"

NoAction ==
  /\ ~(startup_seq = "TrustDismissed" /\ quiet)
  /\ UNCHANGED <<startup_seq, quiet, typed>>

TimersUnwoken ==               \* mutant: the deadline does not wake the loop
  /\ thread \in {"chunk", "tick"} /\ Returns
  /\ Dismiss \/ NoAction
  /\ warmup_phase' = IF late \/ shutdown THEN "Failed" ELSE warmup_phase
  /\ woken' = woken
  /\ UNCHANGED <<vars, late, hung, ptyVars, poolVars, rxVars>>

Timers ==                      \* then the deadline, the shutdown, the phases
  /\ thread \in {"chunk", "tick"} /\ Returns
  /\ Dismiss \/ NoAction
  /\ \/ (late \/ shutdown) /\ Fail
     \/ /\ ~late /\ ~shutdown
        /\ warmup_phase' = IF warmup_phase = "Starting" /\ startup_seq' = "TrustDismissed"
                           THEN "Settling" ELSE warmup_phase
        /\ UNCHANGED woken
  /\ UNCHANGED <<vars, late, hung, ptyVars, poolVars, rxVars>>

(* A quiet window ends while the thread polls: a pass is short against it. *)
Quiet ==
  /\ thread = "polling" /\ ~quiet
  /\ quiet' = TRUE
  /\ UNCHANGED <<vars, thread, warmup_phase, startup_seq, late, woken, typed, hung,
                 ptyVars, poolVars, rxVars>>

Late ==
  /\ thread \notin {"starting", "ended"} /\ ~late
  /\ late' = TRUE
  /\ UNCHANGED <<vars, thread, warmup_phase, startup_seq, quiet, woken, typed, hung,
                 ptyVars, poolVars, rxVars>>

(***************************************************************************)
(* The PTY.                                                                *)
(***************************************************************************)
Emit ==
  /\ PtyOpen /\ ~output /\ thread # "ended"
  /\ output' = TRUE
  /\ UNCHANGED <<vars, threadVars, slave, poolVars, rxVars>>

CloseSlave ==                  \* by all who hold it, with or without exiting
  /\ slave
  /\ slave' = FALSE
  /\ UNCHANGED <<vars, threadVars, output, poolVars, rxVars>>

(***************************************************************************)
(* The daemon.                                                             *)
(***************************************************************************)
Receive ==                     \* maintain: process_warmup_completions
  /\ warmup_rx # "none" /\ ~shutdown
  /\ warmup_rx' = "none"
  /\ state' = CASE state = "Warming" /\ warmup_rx = "Ready" -> "Ready"
                [] state = "Warming" /\ warmup_rx # "Ready" -> "Replacing"
                [] OTHER -> state
  /\ UNCHANGED <<vars, threadVars, ptyVars, master, shutdown, sent>>

Acquire ==
  /\ state = "Ready" /\ ~shutdown
  /\ state' = "InUse"
  /\ UNCHANGED <<vars, threadVars, ptyVars, master, shutdown, rxVars>>

Release ==
  /\ state = "InUse"
  /\ state' = "Replacing"
  /\ UNCHANGED <<vars, threadVars, ptyVars, master, shutdown, rxVars>>

Shutdown ==
  /\ ~shutdown
  /\ shutdown' = TRUE
  /\ UNCHANGED <<vars, threadVars, ptyVars, master, state, rxVars>>

ShutdownAll ==
  /\ shutdown /\ state # "Replacing"
  /\ state' = "Replacing"
  /\ UNCHANGED <<vars, threadVars, ptyVars, master, shutdown, rxVars>>

Destroy ==                     \* destroy_worker; the close is its first step
  /\ state = "Replacing"
  /\ Teardown
  /\ master' = "closed"
  /\ UNCHANGED <<threadVars, ptyVars, state, shutdown, rxVars>>

Live ==
  /\ Processes
  /\ UNCHANGED <<threadVars, ptyVars, poolVars, rxVars>>

WOver == pc = "done" /\ thread = "ended" /\ UNCHANGED wvars

Thread ==
  \/ Begin \/ PollWoken \/ PollGone \/ PollOutput \/ PollTick
  \/ Settles \/ Refused \/ Timers
World == Quiet \/ Late \/ Emit \/ CloseSlave \/ Live
Daemon == Receive \/ Acquire \/ Release \/ Shutdown \/ ShutdownAll \/ Destroy

WNext == Thread \/ World \/ Daemon \/ WOver

(* The thread runs and its deadline comes; the daemon ticks, and runs a    *)
(* teardown it began; who forks reaches login_tty.                         *)
WSpec ==
  /\ WInit /\ [][WNext]_wvars
  /\ WF_wvars(Thread) /\ WF_wvars(Late) /\ WF_wvars(Receive)
  /\ WF_wvars(Destroy /\ (CloseMaster \/ TermGroup \/ TermPid \/ Observe \/ KillWorker))
  /\ WF_wvars(Destroy /\ (KillPid \/ Probe \/ KillRest))
  /\ WF_wvars(Destroy /\ Reap) /\ WF_wvars(Destroy /\ GraceOver)
  /\ WF_wvars(Live /\ LoginTty)
-----------------------------------------------------------------------------
(***************************************************************************)
(* Properties.                                                             *)
(***************************************************************************)
(* ADR-005: a worker is handed out past its dialog and before any prompt,  *)
(* and nobody else reads or writes its PTY: its warm-up thread, which      *)
(* keeps a raw copy of the descriptor, has returned.                       *)
HandedOverWhole ==
  state \in {"Ready", "InUse"} => thread = "ended" /\ typed = "keys" /\ sent = 1

(* A worker that hung up is not found settled, however quiet it has become *)
(* and whatever is still to be read from it: its warm-up fails.  Only one  *)
(* that dies afterwards is handed out dead.                                *)
SettledWhileOpen ==
  [][warmup_phase' = "Ready" => warmup_phase = "Ready" \/ ~hung]_wvars

(* A warm-up ends, with its one notification, whatever the worker does (it *)
(* paints without a pause, it dies and a descendant keeps its PTY) and     *)
(* when its descriptor is closed under it.                                 *)
WarmupEnds == <>[](thread = "ended" /\ sent = 1)

(* A worker that ignores SIGTERM does not hold its teardown up.            *)
DestroyEnds == state = "Replacing" ~> pc = "done"
=============================================================================
