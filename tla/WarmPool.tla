------------------------------ MODULE WarmPool ------------------------------
(***************************************************************************)
(* The daemon of `claude-print serve` (src/src/pool.rs, run_serve in       *)
(* src/src/main.rs): the accept loop on the main thread, one warm-up       *)
(* thread per worker, one handler thread per connection, the manager they  *)
(* share behind a mutex, and the clients that acquire and release workers. *)
(*                                                                         *)
(* A critical section of the mutex is one action.  Whatever a thread does  *)
(* after it dropped the lock is an action of its own, so that the other    *)
(* threads may run in between: an acquire is AcquireWorker, GetWorker and  *)
(* SendAssignment, as in handle_acquire.  destroy_worker runs under the    *)
(* lock and returns only when the child is reaped: it is part of the       *)
(* action that calls it (its own steps are in WorkerTeardown).             *)
(***************************************************************************)
EXTENDS Integers, FiniteSets

CONSTANTS
  Workers,           (* the UUIDs spawn_worker will draw, each used once   *)
  Clients,           (* invocations with --pool-socket: one acquire each   *)
  TargetSize,        (* --pool-size                                        *)
  MaxFd,             (* descriptor numbers are 1..MaxFd                    *)
  MaxSpawnFailures,  (* bound on failed spawns in a behaviour              *)
  NoWorker           (* neither a worker nor a client                      *)

MAX_POOL_SIZE == 256

validate_pool_size(size) == size \in 1..MAX_POOL_SIZE

ASSUME WarmPoolAssumption ==
  /\ validate_pool_size(TargetSize)
  /\ IsFiniteSet(Workers)
  /\ NoWorker \notin Workers \cup Clients
  /\ MaxFd \in Nat \ {0}
  /\ MaxSpawnFailures \in Nat

VARIABLES
  state,       (* the workers map: a WorkerState, or outside of the map    *)
  child,       (* the claude process of every worker                       *)
  master_fd,   (* the descriptor number create_worker stored; kept after   *)
               (* destroy_worker closed it, as the stale copies are        *)
  warmup,      (* the warm-up thread of every worker                       *)
  warmup_rx,   (* the notification of a worker not yet received: a thread  *)
               (* sends one, so the channel holds at most one per worker   *)
  shutdown,    (* PoolManager.shutdown                                     *)
  signaled,    (* SERVE_SIGNALED                                           *)
  daemon,      (* where the main thread is, or how the process ended       *)
  conn,        (* the connection of a client and its handler thread        *)
  request,     (* what that connection asked for                           *)
  assigned,    (* worker_id in the acquire handler, then at the client     *)
  client,      (* the client's side                                        *)
  failures     (* spawns that failed so far                                *)

mapVars    == <<state, child, master_fd>>
warmVars   == <<warmup, warmup_rx>>
daemonVars == <<shutdown, signaled, daemon, failures>>
connVars   == <<conn, request, assigned, client>>
vars == <<mapVars, warmVars, daemonVars, connVars>>

WorkerState == {"Warming", "Ready", "InUse"}
Ended == {"exit_0", "exit_2", "aborted"}

InMap(w) == state[w] \in WorkerState
Held == {w \in Workers : InMap(w)}
count_state(s) == {w \in Workers : state[w] = s}
Unborn == count_state("Unborn")
Running == daemon \notin Ended

MinOf(a, b) == IF a < b THEN a ELSE b

(***************************************************************************)
(* The start of accept_loop: bound, no worker yet, no client yet.          *)
(***************************************************************************)
Init ==
  /\ state = [w \in Workers |-> "Unborn"]
  /\ child = [w \in Workers |-> "none"]
  /\ master_fd = [w \in Workers |-> 0]
  /\ warmup = [w \in Workers |-> "none"]
  /\ warmup_rx = [w \in Workers |-> "none"]
  /\ shutdown = FALSE
  /\ signaled = FALSE
  /\ daemon = "accept_loop"
  /\ failures = 0
  /\ conn = [c \in Clients |-> "none"]
  /\ request = [c \in Clients |-> "acquire"]
  /\ assigned = [c \in Clients |-> NoWorker]
  /\ client = [c \in Clients |-> "idle"]

(***************************************************************************)
(* The main thread.                                                        *)
(***************************************************************************)
Signal ==                      \* SIGINT or SIGTERM: serve_signal_handler
  /\ Running
  /\ ~signaled
  /\ signaled' = TRUE
  /\ UNCHANGED <<mapVars, warmVars, connVars, shutdown, daemon, failures>>

LeaveLoopUnrelayed ==          \* mutant: SERVE_SIGNALED is never relayed
  /\ daemon = "accept_loop"
  /\ shutdown
  /\ daemon' = "loop_left"
  /\ UNCHANGED <<mapVars, warmVars, connVars, shutdown, signaled, failures>>

LeaveLoop ==                   \* the tick relays the signal and breaks
  /\ daemon = "accept_loop"
  /\ signaled \/ shutdown
  /\ shutdown' = TRUE
  /\ daemon' = "loop_left"
  /\ UNCHANGED <<mapVars, warmVars, connVars, signaled, failures>>

(* Mutants of the sets below: an abandoned worker is reclaimed early;      *)
(* warming workers are not counted; workers in use are counted.            *)
RetiredWithOrphans ==
  {w \in Held : \/ warmup_rx[w] = "Failed"
                \/ state[w] = "InUse" /\ \A c \in Clients : assigned[c] = w => client[c] = "gone"}
ActiveReadyOnly == count_state("Ready")
ActiveHeld == Held

(* process_warmup_completions *)
Promoted == {w \in Held : warmup_rx[w] = "Ready"}
Retired  == {w \in Held : warmup_rx[w] = "Failed"}

(* warming_count + ready_count once the notifications are processed *)
Active == {w \in Held \ Retired :
             w \in Promoted \/ state[w] \in {"Warming", "Ready"}}

FreeFdsOfIdle ==               \* mutant: the master is closed at hand-out
  (1..MaxFd) \ {master_fd[w] : w \in Active}

FreeFds == (1..MaxFd) \ {master_fd[w] : w \in Held \ Retired}

(* How many of the to_spawn attempts can succeed here: identifiers and     *)
(* descriptors are bounded.                                                *)
to_spawn == IF Cardinality(Active) < TargetSize
            THEN MinOf(TargetSize - Cardinality(Active),
                       MinOf(Cardinality(Unborn), Cardinality(FreeFds)))
            ELSE 0

(* One maintain tick: drain the notifications, retire what failed, then    *)
(* top up; an attempt to spawn may fail and is only logged.                *)
Maintain ==
  /\ daemon = "accept_loop"
  /\ ~signaled
  /\ ~shutdown
  /\ \E spawned \in SUBSET Unborn :
       /\ Cardinality(spawned) <= to_spawn
       /\ failures' = failures + (to_spawn - Cardinality(spawned))
       /\ failures' <= MaxSpawnFailures
       /\ \E fds \in [spawned -> FreeFds] :
            /\ \A v, w \in spawned : v # w => fds[v] # fds[w]
            /\ master_fd' = [w \in Workers |->
                               IF w \in spawned THEN fds[w] ELSE master_fd[w]]
       /\ state' = [w \in Workers |->
            IF w \in spawned THEN "Warming"
            ELSE IF w \in Promoted THEN "Ready"
            ELSE IF w \in Retired THEN "Removed" ELSE state[w]]
       /\ child' = [w \in Workers |->
            IF w \in spawned THEN "running"
            ELSE IF w \in Retired THEN "reaped" ELSE child[w]]
       /\ warmup' = [w \in Workers |->
            IF w \in spawned THEN "running" ELSE warmup[w]]
  /\ warmup_rx' = [w \in Workers |-> "none"]
  /\ UNCHANGED <<connVars, shutdown, signaled, daemon>>

Accept(c) ==                   \* accept, then a handler thread
  /\ daemon = "accept_loop"
  /\ conn[c] = "queued"
  /\ conn' = [conn EXCEPT ![c] = "accepted"]
  /\ UNCHANGED <<mapVars, warmVars, daemonVars, request, assigned, client>>

AcceptError(c) ==              \* the loop breaks and run returns Ok
  /\ daemon = "accept_loop"
  /\ conn[c] = "queued"
  /\ daemon' = "loop_left"
  /\ UNCHANGED <<mapVars, warmVars, connVars, shutdown, signaled, failures>>

PollError ==                   \* run returns Err
  /\ daemon = "accept_loop"
  /\ daemon' = "loop_failed"
  /\ UNCHANGED <<mapVars, warmVars, connVars, shutdown, signaled, failures>>

FailServe ==                   \* run_serve: cleanup, exit 2
  /\ daemon = "loop_failed"
  /\ daemon' = "exit_2"
  /\ UNCHANGED <<mapVars, warmVars, connVars, shutdown, signaled, failures>>

ShutdownIdle ==                \* mutant: workers in use are left alone
  /\ daemon = "loop_left"
  /\ state' = [w \in Workers |->
       IF state[w] \in {"Warming", "Ready"} THEN "Removed" ELSE state[w]]
  /\ child' = [w \in Workers |->
       IF state[w] \in {"Warming", "Ready"} THEN "reaped" ELSE child[w]]
  /\ daemon' = "drained"
  /\ UNCHANGED <<warmVars, connVars, master_fd, shutdown, signaled, failures>>

ShutdownAll ==                 \* drains the map, destroys every worker
  /\ daemon = "loop_left"
  /\ state' = [w \in Workers |-> IF InMap(w) THEN "Removed" ELSE state[w]]
  /\ child' = [w \in Workers |-> IF InMap(w) THEN "reaped" ELSE child[w]]
  /\ daemon' = "drained"
  /\ UNCHANGED <<warmVars, connVars, master_fd, shutdown, signaled, failures>>

Cleanup ==                     \* removes the socket, exit 0
  /\ daemon = "drained"
  /\ daemon' = "exit_0"
  /\ UNCHANGED <<mapVars, warmVars, connVars, shutdown, signaled, failures>>

(***************************************************************************)
(* A warm-up thread: warm_worker_to_outcome, then the one send.  It works  *)
(* on a raw copy of master_fd; a worker destroyed under it shows up as     *)
(* POLLNVAL, a failure.                                                    *)
(***************************************************************************)
WarmSettledAgain(w) ==         \* mutant: the thread notifies more than once
  /\ Running
  /\ warmup[w] \in {"running", "settled"}
  /\ InMap(w)
  /\ warmup' = [warmup EXCEPT ![w] = "settled"]
  /\ warmup_rx' = [warmup_rx EXCEPT ![w] = "Ready"]
  /\ UNCHANGED <<mapVars, daemonVars, connVars>>

WarmSettled(w) ==
  /\ Running
  /\ warmup[w] = "running"
  /\ InMap(w)
  /\ warmup' = [warmup EXCEPT ![w] = "settled"]
  /\ warmup_rx' = [warmup_rx EXCEPT ![w] = "Ready"]
  /\ UNCHANGED <<mapVars, daemonVars, connVars>>

WarmFailed(w) ==               \* refusal, timeout, shutdown, child exit, POLLNVAL
  /\ Running
  /\ warmup[w] = "running"
  /\ warmup' = [warmup EXCEPT ![w] = "failed"]
  /\ warmup_rx' = [warmup_rx EXCEPT ![w] = "Failed"]
  /\ UNCHANGED <<mapVars, daemonVars, connVars>>

(***************************************************************************)
(* A handler thread.                                                       *)
(***************************************************************************)
AcquireWorker(c) ==            \* first critical section of handle_acquire
  /\ Running
  /\ conn[c] = "accepted"
  /\ request[c] = "acquire"
  /\ \/ /\ ~shutdown
        /\ \E w \in count_state("Ready") :
             /\ state' = [state EXCEPT ![w] = "InUse"]
             /\ assigned' = [assigned EXCEPT ![c] = w]
        /\ conn' = [conn EXCEPT ![c] = "assigned"]
     \/ /\ shutdown \/ count_state("Ready") = {}
        /\ conn' = [conn EXCEPT ![c] = "refused"]
        /\ UNCHANGED <<state, assigned>>
  /\ UNCHANGED <<child, master_fd, warmVars, daemonVars, request, client>>

GetWorker(c) ==                \* second critical section: get_worker(&id).unwrap()
  /\ Running
  /\ conn[c] = "assigned"
  /\ \/ /\ InMap(assigned[c])
        /\ conn' = [conn EXCEPT ![c] = "sending"]
        /\ UNCHANGED daemon
     \/ /\ ~InMap(assigned[c])     \* the unwrap panics, panic = "abort"
        /\ daemon' = "aborted"
        /\ UNCHANGED conn
  /\ UNCHANGED <<mapVars, warmVars, shutdown, signaled, failures,
                 request, assigned, client>>

SendAssignment(c) ==           \* no lock: the frame, then send_fd(master_fd)
  /\ Running
  /\ conn[c] = "sending"
  /\ conn' = [conn EXCEPT ![c] =
       IF client[c] # "acquiring" THEN "closed"              \* EPIPE
       ELSE IF InMap(assigned[c]) THEN "delivered"
       ELSE "broken"]                                        \* EBADF
  /\ UNCHANGED <<mapVars, warmVars, daemonVars, request, assigned, client>>

ReleaseReused(c) ==            \* mutant: a released worker is Ready again
  /\ Running
  /\ conn[c] = "accepted"
  /\ request[c] = "release"
  /\ InMap(assigned[c])
  /\ state' = [state EXCEPT ![assigned[c]] = "Ready"]
  /\ conn' = [conn EXCEPT ![c] = "released"]
  /\ UNCHANGED <<child, master_fd, warmVars, daemonVars, request, assigned, client>>

ReleaseIfAwaited(c) ==         \* mutant: dropped once the client stopped waiting
  /\ Running
  /\ conn[c] = "accepted"
  /\ request[c] = "release"
  /\ client[c] = "releasing"
  /\ InMap(assigned[c])
  /\ state' = [state EXCEPT ![assigned[c]] = "Removed"]
  /\ child' = [child EXCEPT ![assigned[c]] = "reaped"]
  /\ conn' = [conn EXCEPT ![c] = "released"]
  /\ UNCHANGED <<master_fd, warmVars, daemonVars, request, assigned, client>>

ReleaseWorker(c) ==            \* handle_release, destroy_worker included
  /\ Running
  /\ conn[c] = "accepted"
  /\ request[c] = "release"
  /\ \/ /\ InMap(assigned[c])
        /\ state' = [state EXCEPT ![assigned[c]] = "Removed"]
        /\ child' = [child EXCEPT ![assigned[c]] = "reaped"]
        /\ conn' = [conn EXCEPT ![c] = "released"]
     \/ /\ ~InMap(assigned[c])                               \* InvalidWorkerId
        /\ conn' = [conn EXCEPT ![c] = "invalid_worker_id"]
        /\ UNCHANGED <<state, child>>
  /\ UNCHANGED <<master_fd, warmVars, daemonVars, request, assigned, client>>

PeerClosed(c) ==               \* read_frame: EOF before a whole request
  /\ Running
  /\ request[c] = "acquire"
  /\ conn[c] = "accepted"
  /\ client[c] = "gone"
  /\ conn' = [conn EXCEPT ![c] = "closed"]
  /\ UNCHANGED <<mapVars, warmVars, daemonVars, request, assigned, client>>

(***************************************************************************)
(* A client: PoolClient::acquire, the session, AcquiredWorker::release.    *)
(***************************************************************************)
Connect(c) ==
  /\ client[c] = "idle"
  /\ \/ /\ daemon = "accept_loop"
        /\ client' = [client EXCEPT ![c] = "acquiring"]
        /\ conn' = [conn EXCEPT ![c] = "queued"]
     \/ /\ daemon # "accept_loop"                            \* Unreachable
        /\ client' = [client EXCEPT ![c] = "gone"]
        /\ UNCHANGED conn
  /\ UNCHANGED <<mapVars, warmVars, daemonVars, request, assigned>>

ReadReply(c) ==
  /\ client[c] = "acquiring"
  /\ \/ /\ conn[c] = "refused"                               \* PoolUnavailable
        /\ client' = [client EXCEPT ![c] = "gone"]
     \/ /\ conn[c] = "delivered"
        /\ client' = [client EXCEPT ![c] = "driving"]
  /\ conn' = [conn EXCEPT ![c] = "closed"]
  /\ UNCHANGED <<mapVars, warmVars, daemonVars, request, assigned>>

(* An acquire that fails once connected (deadline, EOF, broken transfer)   *)
(* or a client killed while it acquires, drives or releases.               *)
ClientFails(c) ==
  /\ client[c] \in {"acquiring", "driving"}
  /\ client' = [client EXCEPT ![c] = "gone"]
  /\ UNCHANGED <<mapVars, warmVars, daemonVars, conn, request, assigned>>

Release(c) ==                  \* best effort: nobody listening is ignored
  /\ client[c] = "driving"
  /\ \/ /\ daemon = "accept_loop"
        /\ request' = [request EXCEPT ![c] = "release"]
        /\ conn' = [conn EXCEPT ![c] = "queued"]
        /\ client' = [client EXCEPT ![c] = "releasing"]
     \/ /\ daemon # "accept_loop"
        /\ client' = [client EXCEPT ![c] = "gone"]
        /\ UNCHANGED <<request, conn>>
  /\ UNCHANGED <<mapVars, warmVars, daemonVars, assigned>>

ReleaseEnds(c) ==              \* the reply, or RELEASE_TIMEOUT_SECS
  /\ client[c] = "releasing"
  /\ client' = [client EXCEPT ![c] = "gone"]
  /\ UNCHANGED <<mapVars, warmVars, daemonVars, conn, request, assigned>>

(* Nothing is left to happen. *)
Terminated ==
  /\ ~Running
  /\ \A c \in Clients : client[c] = "gone"
  /\ UNCHANGED vars

MainThread == LeaveLoop \/ Maintain \/ PollError \/ FailServe \/ ShutdownAll \/ Cleanup
WarmThread(w) == WarmSettled(w) \/ WarmFailed(w)
Handler(c) == AcquireWorker(c) \/ GetWorker(c) \/ SendAssignment(c)
                \/ ReleaseWorker(c) \/ PeerClosed(c)
Client(c) == Connect(c) \/ ReadReply(c) \/ ClientFails(c) \/ Release(c) \/ ReleaseEnds(c)

Next ==
  \/ MainThread
  \/ Signal
  \/ \E w \in Workers : WarmThread(w)
  \/ \E c \in Clients : Accept(c) \/ AcceptError(c) \/ Handler(c) \/ Client(c)
  \/ Terminated

(* The main loop ticks every ACCEPT_POLL_TIMEOUT_MS, a warm-up thread has  *)
(* its own 120 s deadline checked every 50 ms, a handler never waits for   *)
(* anything but the mutex and its own bounded read.  Children, signals,    *)
(* accept errors and clients owe nothing.                                  *)
Fairness ==
  /\ WF_vars(LeaveLoop) /\ WF_vars(Maintain)
  /\ WF_vars(FailServe) /\ WF_vars(ShutdownAll) /\ WF_vars(Cleanup)
  /\ \A w \in Workers : WF_vars(WarmThread(w))
  /\ \A c \in Clients : WF_vars(Accept(c)) /\ WF_vars(Handler(c))

Spec == Init /\ [][Next]_vars /\ Fairness
-----------------------------------------------------------------------------
(***************************************************************************)
(* Properties.                                                             *)
(***************************************************************************)
TypeOK ==
  /\ state \in [Workers -> WorkerState \cup {"Unborn", "Removed"}]
  /\ child \in [Workers -> {"none", "running", "reaped"}]
  /\ master_fd \in [Workers -> 0..MaxFd]
  /\ warmup \in [Workers -> {"none", "running", "settled", "failed"}]
  /\ warmup_rx \in [Workers -> {"none", "Ready", "Failed"}]
  /\ shutdown \in BOOLEAN
  /\ signaled \in BOOLEAN
  /\ daemon \in {"accept_loop", "loop_left", "loop_failed", "drained"} \cup Ended
  /\ conn \in [Clients -> {"none", "queued", "accepted", "assigned", "sending",
                           "delivered", "broken", "refused", "released",
                           "invalid_worker_id", "closed"}]
  /\ request \in [Clients -> {"acquire", "release"}]
  /\ assigned \in [Clients -> Workers \cup {NoWorker}]
  /\ client \in [Clients -> {"idle", "acquiring", "driving", "releasing", "gone"}]
  /\ failures \in 0..MaxSpawnFailures

(* INV-9, INV-11: a worker is handed to at most one client in its life,    *)
(* however warm-up notifications, releases, abandoned acquires and         *)
(* top-ups interleave with acquire_worker.                                 *)
OneRequestPerMember ==
  \A c, d \in Clients : c # d /\ assigned[c] # NoWorker => assigned[c] # assigned[d]

(* README "Operating behavior": a worker that failed its warm-up is never  *)
(* handed out half-warmed.  Only a thread that settled makes one Ready,    *)
(* and nothing still in the channel can change a worker in use.            *)
NeverHalfWarmed ==
  \A w \in Workers : state[w] \in {"Ready", "InUse"} =>
    warmup[w] = "settled" /\ warmup_rx[w] = "none"

(* INV-14: a worker leaves the map only with its child reaped, so that the *)
(* shutdown, which drains the map, exits 0 with no process left behind.    *)
PoolCleanup ==
  /\ \A w \in Workers : state[w] = "Removed" => child[w] = "reaped"
  /\ daemon \in {"drained", "exit_0"} => Held = {}

(* handle_acquire and the warm-up threads keep a raw descriptor number     *)
(* after the lock is dropped, and destroy_worker may close it meanwhile:   *)
(* the number must never name the PTY of another worker when it is used,   *)
(* or a client would drive somebody else's session (INV-11).               *)
RawDescriptorIsOwn ==
  \A v \in Held :
    /\ \A c \in Clients : conn[c] \in {"assigned", "sending"} /\ assigned[c] # v =>
         master_fd[v] # master_fd[assigned[c]]
    /\ \A w \in Workers : warmup[w] = "running" /\ w # v =>
         master_fd[v] # master_fd[w]

(* INV-13: whatever became of its client, a worker in use stays in use     *)
(* until that client's own release or the shutdown: never reassigned,      *)
(* never made Ready again, never destroyed early.                          *)
OrphanContainment ==
  [][\A w \in Workers : state[w] = "InUse" /\ state'[w] # "InUse" =>
       /\ state'[w] = "Removed"
       /\ \/ daemon' = "drained"
          \/ \E c \in Clients : assigned[c] = w /\ request[c] = "release"]_vars

Kept == count_state("Warming") \cup count_state("Ready")

(* INV-13, README: the pool warms replacements around workers in use or    *)
(* abandoned.  It never keeps more than --pool-size for future clients,    *)
(* whatever present ones hold or abandoned, and while it serves it always  *)
(* comes back to as many, failed warm-ups and (finitely many) failed       *)
(* spawns notwithstanding.                                                 *)
TopsUp ==
  /\ [](Cardinality(Kept) <= TargetSize)
  /\ []<>(daemon # "accept_loop" \/ Cardinality(Kept) = TargetSize \/ Unborn = {})

(* "A warmup that terminates silently would pin its slot as Warming        *)
(* forever": every slot is promoted, retired or torn down, unless the      *)
(* daemon ends without tearing down; and a release the daemon accepted     *)
(* destroys the worker, also when its client no longer waits for a reply.  *)
SlotsResolve ==
  \A w \in Workers :
    /\ state[w] = "Warming" ~> (state[w] # "Warming" \/ daemon \in Ended)
    /\ \A c \in Clients :
         (conn[c] = "accepted" /\ request[c] = "release" /\ assigned[c] = w)
           ~> (state[w] = "Removed" \/ ~Running)

(* A signal ends the daemon, whatever the threads are doing. *)
SignalEnds == signaled ~> ~Running

(***************************************************************************)
(* What the documents say and the daemon does not do.                      *)
(***************************************************************************)
(* run_serve, main.rs: a signal-driven shutdown tears down every worker,   *)
(* removes the socket file and exits 0.  A handler between its two         *)
(* critical sections finds its worker gone and the unwrap aborts.          *)
SignalExitsZero == shutdown /\ ~Running => daemon = "exit_0"

(***************************************************************************)
(* The contract.                                                           *)
(***************************************************************************)
Phase(w) ==
  CASE state[w] = "Unborn"  -> "absent"
    [] state[w] = "Warming" -> "warming"
    [] state[w] = "Ready"   -> "ready"
    [] state[w] = "InUse"   -> "held"
    [] OTHER                -> "retired"

phase == [w \in Workers |-> Phase(w)]
holder == [w \in Workers |->
             IF \E c \in Clients : assigned[c] = w
             THEN CHOOSE c \in Clients : assigned[c] = w ELSE NoWorker]
closed == daemon \in {"drained", "exit_0", "aborted"}

Contract == INSTANCE PoolContract WITH Nobody <- NoWorker

(* Every step of the daemon is a step of PoolContract or changes nothing   *)
(* the contract speaks of.                                                 *)
ImplementsContract == Contract!Promise
=============================================================================
