--------------------------- MODULE WarmPoolProofs ---------------------------
(***************************************************************************)
(* The safety of the pool daemon: of the warm pool it manages, for any     *)
(* number of workers and clients and any pool size, an inductive invariant *)
(* and what follows from it; and, last, of the path of its socket.         *)
(***************************************************************************)
EXTENDS WarmPool, PoolSocket, FiniteSetTheorems, TLAPS

TornDown == daemon \in {"drained", "exit_0", "aborted"}

(* A worker outside of the map has no warm-up yet; a notification agrees   *)
(* with the thread that sent it and finds its worker still Warming, or     *)
(* removed by the shutdown.                                                *)
WarmupInv ==
  \A w \in Workers :
    /\ state[w] = "Unborn" => warmup[w] = "none"
    /\ warmup_rx[w] = "Ready" => warmup[w] = "settled"
    /\ warmup_rx[w] = "Failed" => warmup[w] = "failed"
    /\ warmup_rx[w] # "none" => state[w] \in {"Warming", "Removed"}
    /\ state[w] \in {"Ready", "InUse"} => warmup[w] = "settled"
    /\ warmup[w] = "running" /\ state[w] = "Removed" => TornDown

(* A worker that was handed out never leaves InUse but by removal, and a   *)
(* handler between its critical sections loses it only to the shutdown.    *)
AssignInv ==
  \A c \in Clients :
    /\ assigned[c] # NoWorker => state[assigned[c]] \in {"InUse", "Removed"}
    /\ conn[c] \in {"assigned", "sending"} =>
         /\ assigned[c] # NoWorker
         /\ request[c] = "acquire"
         /\ state[assigned[c]] = "Removed" => TornDown

(* Workers in the map have descriptors of their own. *)
DescriptorInv ==
  \A v, w \in Workers : InMap(v) /\ InMap(w) /\ v # w => master_fd[v] # master_fd[w]

RemovalInv ==
  /\ \A w \in Workers : state[w] = "Removed" => child[w] = "reaped"
  /\ TornDown => Held = {}

IInv ==
  /\ TypeOK
  /\ WarmupInv
  /\ OneRequestPerMember
  /\ AssignInv
  /\ DescriptorInv
  /\ RemovalInv
-----------------------------------------------------------------------------
(* How many spawns a tick may attempt is a number, whatever the pool holds. *)
LEMMA SpawnCount ==
  /\ to_spawn \in Int
  /\ \A S \in SUBSET Unborn : Cardinality(S) \in Nat
  <1> DEFINE kept == {master_fd[w] : w \in Held \ Retired}
  <1>1. \A S \in SUBSET Workers : Cardinality(S) \in Nat
    BY WarmPoolAssumption, FS_Subset, FS_CardinalityType
  <1>2. Active \in SUBSET Workers /\ Unborn \in SUBSET Workers
    BY DEF Active, Held, Unborn, count_state
  <1>3. Cardinality(FreeFds) \in Nat
    <2>1. IsFiniteSet(1..MaxFd)
      BY WarmPoolAssumption, FS_Interval
    <2>2. FreeFds \in SUBSET (1..MaxFd)
      BY DEF FreeFds
    <2> QED
      BY <2>1, <2>2, FS_Subset, FS_CardinalityType
  <1>4. TargetSize \in Nat
    BY WarmPoolAssumption DEF validate_pool_size, MAX_POOL_SIZE
  <1>5. to_spawn \in Int
    <2>1. Cardinality(Active) \in Nat /\ Cardinality(Unborn) \in Nat
      BY <1>1, <1>2
    <2>2. ASSUME NEW a \in Int, NEW b \in Int
          PROVE  MinOf(a, b) \in Int
      BY DEF MinOf
    <2>3. MinOf(Cardinality(Unborn), Cardinality(FreeFds)) \in Int
      BY <1>3, <2>1, <2>2
    <2>4. TargetSize - Cardinality(Active) \in Int
      BY <1>4, <2>1
    <2>5. MinOf(TargetSize - Cardinality(Active),
                MinOf(Cardinality(Unborn), Cardinality(FreeFds))) \in Int
      BY <2>2, <2>3, <2>4
    <2> QED
      BY <2>5 DEF to_spawn
  <1> QED
    BY <1>1, <1>2, <1>5

(* The initial state satisfies every part of the invariant. *)
LEMMA InitInv == Init => IInv
  <1> SUFFICES ASSUME Init PROVE IInv
    OBVIOUS
  <1>1. TypeOK
    <2>1. master_fd \in [Workers -> 0..MaxFd] /\ failures \in 0..MaxSpawnFailures
      <3>1. 0 \in 0..MaxFd /\ 0 \in 0..MaxSpawnFailures
        BY WarmPoolAssumption
      <3> QED
        BY <3>1 DEF Init
    <2>2. shutdown \in BOOLEAN /\ signaled \in BOOLEAN
      BY Zenon DEF Init
    <2> QED
      BY <2>1, <2>2 DEF Init, TypeOK
  <1>2. WarmupInv
    BY DEF Init, WarmupInv
  <1>3. OneRequestPerMember /\ AssignInv
    BY DEF Init, OneRequestPerMember, AssignInv
  <1>4. DescriptorInv /\ RemovalInv
    BY DEF Init, DescriptorInv, RemovalInv, InMap, WorkerState, TornDown
  <1> QED
    BY <1>1, <1>2, <1>3, <1>4 DEF IInv

(* The descriptors a maintain tick leaves in the map: new ones are free,   *)
(* and free of each other.                                                 *)
LEMMA MaintainInv ==
  ASSUME IInv, Maintain
  PROVE  IInv'
  <1> USE DEF IInv
  <1>1. PICK spawned \in SUBSET Unborn :
          /\ Cardinality(spawned) <= to_spawn
          /\ failures' = failures + (to_spawn - Cardinality(spawned))
          /\ failures' <= MaxSpawnFailures
          /\ \E fds \in [spawned -> FreeFds] :
               /\ \A v, w \in spawned : v # w => fds[v] # fds[w]
               /\ master_fd' = [w \in Workers |->
                                  IF w \in spawned THEN fds[w] ELSE master_fd[w]]
          /\ state' = [w \in Workers |->
               IF w \in spawned THEN "Warming"
               ELSE IF w \in Promoted THEN "Ready"
               ELSE IF w \in Retired THEN "Removed" ELSE state[w]]
          /\ child' = [w \in Workers |->
               IF w \in spawned THEN "running"
               ELSE IF w \in Retired THEN "reaped" ELSE child[w]]
          /\ warmup' = [w \in Workers |->
               IF w \in spawned THEN "running" ELSE warmup[w]]
    BY DEF Maintain
  <1>2. PICK fds \in [spawned -> FreeFds] :
          /\ \A v, w \in spawned : v # w => fds[v] # fds[w]
          /\ master_fd' = [w \in Workers |->
                             IF w \in spawned THEN fds[w] ELSE master_fd[w]]
    BY <1>1
  <1>3. /\ warmup_rx' = [w \in Workers |-> "none"]
        /\ UNCHANGED <<connVars, shutdown, signaled, daemon>>
        /\ daemon = "accept_loop"
    BY DEF Maintain
  <1>4. /\ \A w \in spawned : w \in Workers /\ state[w] = "Unborn"
        /\ \A w \in Promoted : w \in Workers /\ state[w] = "Warming" /\ warmup[w] = "settled"
        /\ \A w \in Retired : w \in Workers /\ state[w] = "Warming" /\ warmup[w] = "failed"
    BY DEF Unborn, count_state, Promoted, Retired, Held, InMap, WorkerState, WarmupInv
  <1>5. TypeOK'
    <2>1. failures' \in 0..MaxSpawnFailures
      <3>1. to_spawn - Cardinality(spawned) \in Nat
        BY <1>1, SpawnCount
      <3> QED
        BY <1>1, <3>1, WarmPoolAssumption DEF TypeOK
    <2>2. master_fd' \in [Workers -> 0..MaxFd]
      <3>1. \A w \in spawned : fds[w] \in 1..MaxFd
        BY <1>2 DEF FreeFds
      <3> QED
        BY <1>2, <3>1, WarmPoolAssumption DEF TypeOK
    <2>3. /\ state' \in [Workers -> WorkerState \cup {"Unborn", "Removed"}]
          /\ child' \in [Workers -> {"none", "running", "reaped"}]
          /\ warmup' \in [Workers -> {"none", "running", "settled", "failed"}]
          /\ warmup_rx' \in [Workers -> {"none", "Ready", "Failed"}]
      BY <1>1, <1>3 DEF TypeOK, WorkerState
    <2> QED
      BY <1>3, <2>1, <2>2, <2>3 DEF TypeOK, connVars
  <1>6. WarmupInv'
    BY <1>1, <1>3, <1>4 DEF WarmupInv, TypeOK, TornDown
  <1>7. OneRequestPerMember' /\ AssignInv'
    <2>1. \A w \in Workers : state[w] \in {"InUse", "Removed"} => state'[w] = state[w]
      BY <1>1, <1>4
    <2> QED
      BY <1>3, <2>1 DEF OneRequestPerMember, AssignInv, connVars, TypeOK, TornDown
  <1>8. DescriptorInv'
    <2>1. \A w \in Workers : InMap(w)' => w \in spawned \/ w \in Held \ Retired
      BY <1>1, <1>4 DEF InMap, Held, WorkerState
    <2>2. \A w \in Held \ Retired : w \notin spawned /\ master_fd'[w] = master_fd[w]
      BY <1>2, <1>4 DEF Held, InMap, WorkerState
    <2>3. \A v \in spawned, w \in Held \ Retired : master_fd'[v] # master_fd'[w]
      BY <1>2, <1>4, <2>2 DEF FreeFds
    <2>4. \A v, w \in spawned : v # w => master_fd'[v] # master_fd'[w]
      BY <1>2, <1>4
    <2>5. \A v, w \in Held \ Retired : v # w => master_fd'[v] # master_fd'[w]
      BY <2>2 DEF DescriptorInv, Held
    <2> QED
      BY <2>1, <2>3, <2>4, <2>5 DEF DescriptorInv
  <1>9. RemovalInv'
    BY <1>1, <1>3, <1>4 DEF RemovalInv, TornDown
  <1> QED
    BY <1>5, <1>6, <1>7, <1>8, <1>9

(* A step of the main thread other than the tick.                          *)
LEMMA MainInv ==
  ASSUME IInv, MainThread \/ Signal
  PROVE  IInv'
  <1> USE DEF IInv
  <1>1. CASE Signal
    BY <1>1 DEF Signal, TypeOK, WarmupInv, OneRequestPerMember, AssignInv, DescriptorInv,
       RemovalInv, TornDown, Held, InMap, mapVars, warmVars, connVars, daemonVars, Ended
  <1>2. CASE LeaveLoop
    BY <1>2 DEF LeaveLoop, TypeOK, WarmupInv, OneRequestPerMember, AssignInv, DescriptorInv,
       RemovalInv, TornDown, Held, InMap, mapVars, warmVars, connVars, daemonVars, Ended
  <1>3. CASE PollError
    BY <1>3 DEF PollError, TypeOK, WarmupInv, OneRequestPerMember, AssignInv, DescriptorInv,
       RemovalInv, TornDown, Held, InMap, mapVars, warmVars, connVars, daemonVars, Ended
  <1>4. CASE FailServe
    BY <1>4 DEF FailServe, TypeOK, WarmupInv, OneRequestPerMember, AssignInv, DescriptorInv,
       RemovalInv, TornDown, Held, InMap, mapVars, warmVars, connVars, daemonVars, Ended
  <1>5. CASE ShutdownAll
    <2>1. /\ \A w \in Workers : state'[w] = IF InMap(w) THEN "Removed" ELSE state[w]
          /\ \A w \in Workers : child'[w] = IF InMap(w) THEN "reaped" ELSE child[w]
          /\ daemon' = "drained"
          /\ UNCHANGED <<warmVars, connVars, master_fd, shutdown, signaled, failures>>
      BY <1>5 DEF ShutdownAll
    <2>2. TypeOK'
      BY <1>5, <2>1 DEF ShutdownAll, TypeOK, warmVars, connVars, WorkerState
    <2>3. \A w \in Workers : ~InMap(w)'
      BY <2>1, <2>2 DEF InMap, TypeOK, WorkerState
    <2>4. WarmupInv'
      BY <2>1 DEF WarmupInv, TornDown, warmVars, TypeOK, InMap, WorkerState
    <2>5. OneRequestPerMember' /\ AssignInv'
      BY <2>1 DEF OneRequestPerMember, AssignInv, TornDown, connVars, TypeOK, InMap, WorkerState
    <2>6. DescriptorInv' /\ RemovalInv'
      BY <2>1, <2>3 DEF DescriptorInv, RemovalInv, Held
    <2> QED
      BY <2>2, <2>4, <2>5, <2>6
  <1>6. CASE Cleanup
    BY <1>6 DEF Cleanup, TypeOK, WarmupInv, OneRequestPerMember, AssignInv, DescriptorInv,
       RemovalInv, TornDown, Held, InMap, mapVars, warmVars, connVars, daemonVars, Ended
  <1>7. CASE Maintain
    BY <1>7, MaintainInv
  <1> QED
    BY <1>1, <1>2, <1>3, <1>4, <1>5, <1>6, <1>7 DEF MainThread

(* A step of a warm-up thread.                                             *)
LEMMA WarmInv ==
  ASSUME IInv, NEW w \in Workers, WarmThread(w)
  PROVE  IInv'
  <1> USE DEF IInv
  <1>1. CASE WarmSettled(w)
    <2>1. /\ warmup[w] = "running"
          /\ warmup' = [warmup EXCEPT ![w] = "settled"]
          /\ warmup_rx' = [warmup_rx EXCEPT ![w] = "Ready"]
          /\ UNCHANGED <<mapVars, daemonVars, connVars>>
      BY <1>1 DEF WarmSettled
    <2>2. state[w] \in {"Warming", "Removed"}
      BY <2>1 DEF WarmupInv, TypeOK, WorkerState
    <2>3. TypeOK'
      BY <2>1 DEF TypeOK, mapVars, daemonVars, connVars
    <2>4. WarmupInv'
      BY <2>1, <2>2 DEF WarmupInv, TypeOK, TornDown, mapVars, daemonVars
    <2>5. OneRequestPerMember' /\ AssignInv' /\ DescriptorInv' /\ RemovalInv'
      BY <2>1 DEF OneRequestPerMember, AssignInv, DescriptorInv, RemovalInv, TornDown, Held,
                  InMap, mapVars, daemonVars, connVars
    <2> QED
      BY <2>3, <2>4, <2>5
  <1>2. CASE WarmFailed(w)
    <2>1. /\ warmup[w] = "running"
          /\ warmup' = [warmup EXCEPT ![w] = "failed"]
          /\ warmup_rx' = [warmup_rx EXCEPT ![w] = "Failed"]
          /\ UNCHANGED <<mapVars, daemonVars, connVars>>
      BY <1>2 DEF WarmFailed
    <2>2. state[w] \in {"Warming", "Removed"}
      BY <2>1 DEF WarmupInv, TypeOK, WorkerState
    <2>3. TypeOK'
      BY <2>1 DEF TypeOK, mapVars, daemonVars, connVars
    <2>4. WarmupInv'
      BY <2>1, <2>2 DEF WarmupInv, TypeOK, TornDown, mapVars, daemonVars
    <2>5. OneRequestPerMember' /\ AssignInv' /\ DescriptorInv' /\ RemovalInv'
      BY <2>1 DEF OneRequestPerMember, AssignInv, DescriptorInv, RemovalInv, TornDown, Held,
                  InMap, mapVars, daemonVars, connVars
    <2> QED
      BY <2>3, <2>4, <2>5
  <1> QED
    BY <1>1, <1>2 DEF WarmThread

(* A step of a handler thread, or of the loop that starts it.              *)
LEMMA HandlerInv ==
  ASSUME IInv, NEW c \in Clients, Accept(c) \/ AcceptError(c) \/ Handler(c)
  PROVE  IInv'
  <1> USE DEF IInv
  <1>1. CASE Accept(c)
    BY <1>1 DEF Accept, TypeOK, WarmupInv, OneRequestPerMember, AssignInv, DescriptorInv,
       RemovalInv, TornDown, Held, InMap, mapVars, warmVars, connVars, daemonVars, Ended
  <1>2. CASE AcceptError(c)
    BY <1>2 DEF AcceptError, TypeOK, WarmupInv, OneRequestPerMember, AssignInv, DescriptorInv,
       RemovalInv, TornDown, Held, InMap, mapVars, warmVars, connVars, daemonVars, Ended
  <1>3. CASE AcquireWorker(c)
    <2>1. /\ UNCHANGED <<child, master_fd, warmVars, daemonVars, request, client>>
          /\ conn[c] = "accepted"
          /\ request[c] = "acquire"
      BY <1>3 DEF AcquireWorker
    <2>2. CASE UNCHANGED <<state, assigned>> /\ conn' = [conn EXCEPT ![c] = "refused"]
      BY <2>1, <2>2 DEF TypeOK, WarmupInv, OneRequestPerMember, AssignInv, DescriptorInv,
         RemovalInv, TornDown, Held, InMap, warmVars, daemonVars
    <2>3. ASSUME NEW w \in count_state("Ready"),
                 state' = [state EXCEPT ![w] = "InUse"],
                 assigned' = [assigned EXCEPT ![c] = w],
                 conn' = [conn EXCEPT ![c] = "assigned"]
          PROVE  IInv'
      <3>1. w \in Workers /\ state[w] = "Ready" /\ w # NoWorker
        BY WarmPoolAssumption DEF count_state
      <3>2. \A v \in Workers : InMap(v)' <=> InMap(v)
        BY <2>3, <3>1 DEF InMap, WorkerState, TypeOK
      <3>3. \A d \in Clients : assigned[d] # w
        BY <3>1 DEF AssignInv
      <3>4. TypeOK'
        BY <2>1, <2>3, <3>1 DEF TypeOK, warmVars, daemonVars, WorkerState
      <3>5. WarmupInv'
        BY <2>1, <2>3, <3>1 DEF WarmupInv, TypeOK, TornDown, warmVars, daemonVars
      <3>6. OneRequestPerMember'
        BY <2>3, <3>1, <3>3 DEF OneRequestPerMember, TypeOK
      <3>7. AssignInv'
        BY <2>1, <2>3, <3>1, <3>3 DEF AssignInv, TypeOK, TornDown, daemonVars
      <3>8. DescriptorInv' /\ RemovalInv'
        BY <2>1, <2>3, <3>1, <3>2 DEF DescriptorInv, RemovalInv, Held, TornDown, daemonVars, TypeOK
      <3> QED
        BY <3>4, <3>5, <3>6, <3>7, <3>8
    <2> QED
      BY <1>3, <2>2, <2>3 DEF AcquireWorker
  <1>4. CASE GetWorker(c)
    BY <1>4 DEF GetWorker, TypeOK, WarmupInv, OneRequestPerMember, AssignInv, DescriptorInv,
       RemovalInv, TornDown, Held, InMap, mapVars, warmVars, connVars, daemonVars, Ended
  <1>5. CASE SendAssignment(c)
    BY <1>5 DEF SendAssignment, TypeOK, WarmupInv, OneRequestPerMember, AssignInv, DescriptorInv,
       RemovalInv, TornDown, Held, InMap, mapVars, warmVars, connVars, daemonVars, Ended
  <1>6. CASE ReleaseWorker(c)
    <2>1. /\ UNCHANGED <<master_fd, warmVars, daemonVars, request, assigned, client>>
          /\ conn[c] = "accepted"
          /\ request[c] = "release"
      BY <1>6 DEF ReleaseWorker
    <2>2. CASE UNCHANGED <<state, child>> /\ conn' = [conn EXCEPT ![c] = "invalid_worker_id"]
      BY <2>1, <2>2 DEF TypeOK, WarmupInv, OneRequestPerMember, AssignInv, DescriptorInv,
         RemovalInv, TornDown, Held, InMap, warmVars, daemonVars
    <2>3. CASE /\ InMap(assigned[c])
               /\ state' = [state EXCEPT ![assigned[c]] = "Removed"]
               /\ child' = [child EXCEPT ![assigned[c]] = "reaped"]
               /\ conn' = [conn EXCEPT ![c] = "released"]
      <3>1. TypeOK'
        BY <2>1, <2>3 DEF TypeOK, warmVars, daemonVars, WorkerState
      <3>2. \A v \in Workers : InMap(v)' => InMap(v)
        BY <2>3 DEF InMap, WorkerState, TypeOK
      <3>3. assigned[c] \in Workers => warmup[assigned[c]] = "settled"
        BY <2>3, WarmPoolAssumption DEF AssignInv, WarmupInv, InMap, WorkerState, TypeOK
      <3>4. WarmupInv'
        BY <2>1, <2>3, <3>3 DEF WarmupInv, TypeOK, TornDown, warmVars, daemonVars
      <3>5. \A d \in Clients : d # c /\ assigned[d] # NoWorker => assigned[d] # assigned[c]
        BY DEF OneRequestPerMember
      <3>6. AssignInv'
        BY <2>1, <2>3, <3>5 DEF AssignInv, TypeOK, TornDown, daemonVars
      <3>7. OneRequestPerMember' /\ DescriptorInv' /\ RemovalInv'
        BY <2>1, <2>3, <3>2 DEF OneRequestPerMember, DescriptorInv, RemovalInv, Held, TornDown,
           daemonVars, TypeOK
      <3> QED
        BY <3>1, <3>4, <3>6, <3>7
    <2> QED
      BY <1>6, <2>2, <2>3 DEF ReleaseWorker
  <1>7. CASE PeerClosed(c)
    BY <1>7 DEF PeerClosed, TypeOK, WarmupInv, OneRequestPerMember, AssignInv, DescriptorInv,
       RemovalInv, TornDown, Held, InMap, mapVars, warmVars, connVars, daemonVars, Ended
  <1> QED
    BY <1>1, <1>2, <1>3, <1>4, <1>5, <1>6, <1>7 DEF Handler

(* A step of a client.                                                     *)
LEMMA ClientInv ==
  ASSUME IInv, NEW c \in Clients, Client(c)
  PROVE  IInv'
  <1> USE DEF IInv
  <1>1. CASE Connect(c)
    BY <1>1 DEF Connect, TypeOK, WarmupInv, OneRequestPerMember, AssignInv, DescriptorInv,
       RemovalInv, TornDown, Held, InMap, mapVars, warmVars, connVars, daemonVars, Ended
  <1>2. CASE ReadReply(c)
    BY <1>2 DEF ReadReply, TypeOK, WarmupInv, OneRequestPerMember, AssignInv, DescriptorInv,
       RemovalInv, TornDown, Held, InMap, mapVars, warmVars, connVars, daemonVars, Ended
  <1>3. CASE ClientFails(c)
    BY <1>3 DEF ClientFails, TypeOK, WarmupInv, OneRequestPerMember, AssignInv, DescriptorInv,
       RemovalInv, TornDown, Held, InMap, mapVars, warmVars, connVars, daemonVars, Ended
  <1>4. CASE Release(c)
    BY <1>4 DEF Release, TypeOK, WarmupInv, OneRequestPerMember, AssignInv, DescriptorInv,
       RemovalInv, TornDown, Held, InMap, mapVars, warmVars, connVars, daemonVars, Ended
  <1>5. CASE ReleaseEnds(c)
    BY <1>5 DEF ReleaseEnds, TypeOK, WarmupInv, OneRequestPerMember, AssignInv, DescriptorInv,
       RemovalInv, TornDown, Held, InMap, mapVars, warmVars, connVars, daemonVars, Ended
  <1> QED
    BY <1>1, <1>2, <1>3, <1>4, <1>5 DEF Client

(* The invariant is inductive.                                             *)
LEMMA StepInv ==
  ASSUME IInv, [Next]_vars
  PROVE  IInv'
  <1>1. CASE UNCHANGED vars \/ Terminated
    BY <1>1 DEF vars, Terminated, IInv, TypeOK, WarmupInv, OneRequestPerMember, AssignInv,
       DescriptorInv, RemovalInv, TornDown, Held, InMap, mapVars, warmVars, connVars, daemonVars
  <1> QED
    BY <1>1, MainInv, WarmInv, HandlerInv, ClientInv DEF Next
-----------------------------------------------------------------------------
(* The invariant holds of every reachable state, for any set of clients,   *)
(* any finite set of workers and any valid --pool-size.                    *)
THEOREM Inductive == Spec => []IInv
  <1>1. Init => IInv
    BY InitInv
  <1>2. IInv /\ [Next]_vars => IInv'
    BY StepInv
  <1> QED
    BY <1>1, <1>2, PTL DEF Spec

(* Every variable keeps its type.                                          *)
THEOREM TypeCorrect == Spec => []TypeOK
  BY Inductive, PTL DEF IInv

(* INV-9 and INV-11: acquire_worker never hands the same worker to two     *)
(* clients.                                                                *)
THEOREM OneRequest == Spec => []OneRequestPerMember
  BY Inductive, PTL DEF IInv

(* Only a worker whose warm-up thread settled is Ready or in use, and no   *)
(* notification is left that could change it.                              *)
THEOREM NeverHalfWarmedHolds == Spec => []NeverHalfWarmed
  <1>1. IInv => NeverHalfWarmed
    BY DEF IInv, WarmupInv, NeverHalfWarmed, TypeOK
  <1> QED
    BY <1>1, Inductive, PTL

(* INV-14: removed means reaped, and the torn-down pool is empty.          *)
THEOREM PoolCleanupHolds == Spec => []PoolCleanup
  <1>1. IInv => PoolCleanup
    BY DEF IInv, RemovalInv, PoolCleanup, TornDown
  <1> QED
    BY <1>1, Inductive, PTL

(* A raw descriptor number used without the lock never names the PTY of    *)
(* another worker.                                                         *)
THEOREM RawDescriptor == Spec => []RawDescriptorIsOwn
  <1>1. IInv => RawDescriptorIsOwn
    <2> SUFFICES ASSUME IInv, NEW v \in Held
                 PROVE  /\ \A c \in Clients : conn[c] \in {"assigned", "sending"} /\ assigned[c] # v =>
                             master_fd[v] # master_fd[assigned[c]]
                        /\ \A w \in Workers : warmup[w] = "running" /\ w # v =>
                             master_fd[v] # master_fd[w]
      BY DEF RawDescriptorIsOwn
    <2>1. v \in Workers /\ InMap(v) /\ ~TornDown
      BY DEF IInv, RemovalInv, Held
    <2>2. ASSUME NEW c \in Clients, conn[c] \in {"assigned", "sending"}, assigned[c] # v
          PROVE  master_fd[v] # master_fd[assigned[c]]
      <3>1. assigned[c] \in Workers /\ state[assigned[c]] = "InUse"
        BY <2>1, <2>2 DEF IInv, AssignInv, TypeOK
      <3> QED
        BY <2>1, <2>2, <3>1 DEF IInv, DescriptorInv, InMap, WorkerState
    <2>3. ASSUME NEW w \in Workers, warmup[w] = "running", w # v
          PROVE  master_fd[v] # master_fd[w]
      <3>1. InMap(w)
        BY <2>1, <2>3 DEF IInv, WarmupInv, TypeOK, InMap, WorkerState
      <3> QED
        BY <2>1, <2>3, <3>1 DEF IInv, DescriptorInv
    <2> QED
      BY <2>2, <2>3
  <1> QED
    BY <1>1, Inductive, PTL

(* INV-13: a worker in use, abandoned or not, leaves that state only by    *)
(* the release of the client it was assigned to or by the shutdown.        *)
THEOREM Orphans == Spec => OrphanContainment
  <1>1. ASSUME IInv, [Next]_vars, NEW w \in Workers, state[w] = "InUse", state'[w] # "InUse"
        PROVE  /\ state'[w] = "Removed"
               /\ \/ daemon' = "drained"
                  \/ \E c \in Clients : assigned[c] = w /\ request[c] = "release"
    <2>1. CASE Maintain
      <3>1. w \notin Unborn /\ w \notin Promoted /\ w \notin Retired
        BY <1>1 DEF IInv, WarmupInv, Unborn, count_state, Promoted, Retired
      <3>2. state'[w] = state[w]
        BY <2>1, <3>1 DEF Maintain
      <3> QED
        BY <1>1, <3>2
    <2>2. CASE ShutdownAll
      BY <1>1, <2>2 DEF ShutdownAll, InMap, WorkerState
    <2>3. ASSUME NEW c \in Clients, ReleaseWorker(c)
          PROVE  state'[w] = "Removed" /\ assigned[c] = w /\ request[c] = "release"
      BY <1>1, <2>3 DEF ReleaseWorker, IInv, TypeOK
    <2>4. ASSUME NEW c \in Clients, AcquireWorker(c)
          PROVE  FALSE
      BY <1>1, <2>4 DEF AcquireWorker, IInv, TypeOK, count_state
    <2>5. ASSUME UNCHANGED state
          PROVE  FALSE
      BY <1>1, <2>5
    <2> QED
      BY <1>1, <2>1, <2>2, <2>3, <2>4, <2>5
      DEF Next, MainThread, WarmThread, Handler, Client, Signal, LeaveLoop, PollError,
          FailServe, Cleanup, WarmSettled, WarmFailed, Accept, AcceptError, GetWorker,
          SendAssignment, PeerClosed, Connect, ReadReply, ClientFails, Release,
          ReleaseEnds, Terminated, vars, mapVars
  <1>2. IInv /\ [Next]_vars =>
          [\A w \in Workers : state[w] = "InUse" /\ state'[w] # "InUse" =>
             /\ state'[w] = "Removed"
             /\ \/ daemon' = "drained"
                \/ \E c \in Clients : assigned[c] = w /\ request[c] = "release"]_vars
    BY <1>1
  <1> QED
    BY <1>2, Inductive, PTL DEF Spec, OrphanContainment
-----------------------------------------------------------------------------
(***************************************************************************)
(* The daemon keeps the promises of PoolContract: each of its steps is one *)
(* of the contract, or changes neither phase, holder nor closed.           *)
(***************************************************************************)
(* A client asks for a worker once, and has none until it is answered.     *)
FirstInv ==
  \A c \in Clients :
    /\ client[c] = "idle" => conn[c] = "none" /\ request[c] = "acquire"
    /\ request[c] = "acquire" /\ conn[c] \in {"none", "queued", "accepted"} =>
         assigned[c] = NoWorker

LEMMA FirstStep == IInv /\ FirstInv /\ [Next]_vars => FirstInv'
  <1> SUFFICES ASSUME IInv, FirstInv, [Next]_vars PROVE FirstInv'
    OBVIOUS
  <1> USE DEF mapVars, warmVars, daemonVars
  <1>1. CASE UNCHANGED connVars
    BY <1>1 DEF connVars, FirstInv
  <1>2. ASSUME NEW c \in Clients, Accept(c) \/ Handler(c) \/ Client(c)
        PROVE  FirstInv'
    <2> USE DEF FirstInv, IInv, TypeOK
    <2>1. CASE Accept(c) \/ PeerClosed(c)
      BY <2>1 DEF Accept, PeerClosed
    <2>2. CASE AcquireWorker(c)
      BY <2>2 DEF AcquireWorker
    <2>3. CASE GetWorker(c) \/ SendAssignment(c)
      BY <2>3 DEF GetWorker, SendAssignment
    <2>4. CASE ReleaseWorker(c)
      BY <2>4 DEF ReleaseWorker
    <2>5. CASE Connect(c) \/ ClientFails(c) \/ ReleaseEnds(c)
      BY <2>5 DEF Connect, ClientFails, ReleaseEnds
    <2>6. CASE ReadReply(c) \/ Release(c)
      BY <2>6 DEF ReadReply, Release
    <2> QED
      BY <1>2, <2>1, <2>2, <2>3, <2>4, <2>5, <2>6 DEF Handler, Client
  <1>3. MainThread \/ Signal \/ Terminated \/ UNCHANGED vars => UNCHANGED connVars
    BY DEF MainThread, Signal, Terminated, vars, LeaveLoop, Maintain, PollError, FailServe,
       ShutdownAll, Cleanup
  <1>4. \A w \in Workers : WarmThread(w) => UNCHANGED connVars
    BY DEF WarmThread, WarmSettled, WarmFailed
  <1>5. \A c \in Clients : AcceptError(c) => UNCHANGED connVars
    BY DEF AcceptError
  <1> QED
    BY <1>1, <1>2, <1>3, <1>4, <1>5 DEF Next

LEMMA First == Spec => []FirstInv
  <1>1. Init => FirstInv
    BY DEF Init, FirstInv
  <1> QED
    BY <1>1, FirstStep, Inductive, PTL DEF Spec

(* The five phases of a worker, read off its state.                        *)
LEMMA PhaseOf ==
  ASSUME TypeOK, NEW w \in Workers
  PROVE  /\ phase[w] = Phase(w)
         /\ phase[w] \in Contract!Phases
         /\ phase[w] = "absent" <=> state[w] = "Unborn"
         /\ phase[w] = "warming" <=> state[w] = "Warming"
         /\ phase[w] = "ready" <=> state[w] = "Ready"
         /\ phase[w] = "held" <=> state[w] = "InUse"
         /\ phase[w] = "retired" <=> state[w] = "Removed"
  BY DEF TypeOK, WorkerState, phase, Phase, Contract!Phases

(* A tick never fills the pool beyond --pool-size: what it keeps is what   *)
(* was active and what it spawned, and it spawns no more than are missing. *)
LEMMA KeptAfterTick ==
  ASSUME IInv, Maintain, NEW v \in Workers, state[v] = "Unborn", state'[v] = "Warming"
  PROVE  Cardinality(Kept') <= TargetSize
  <1>1. PICK spawned \in SUBSET Unborn :
          /\ Cardinality(spawned) <= to_spawn
          /\ state' = [w \in Workers |->
               IF w \in spawned THEN "Warming"
               ELSE IF w \in Promoted THEN "Ready"
               ELSE IF w \in Retired THEN "Removed" ELSE state[w]]
    BY DEF Maintain
  <1>2. Kept' \subseteq Active \cup spawned
    BY <1>1 DEF Kept, count_state, Active, Held, InMap, WorkerState, Promoted, Retired
  <1>3. v \in spawned
    BY <1>1
  <1>4. IsFiniteSet(Active) /\ IsFiniteSet(spawned)
    <2>1. Active \subseteq Workers /\ spawned \subseteq Workers
      BY DEF Active, Held, Unborn, count_state
    <2> QED
      BY <2>1, WarmPoolAssumption, FS_Subset
  <1>5. Cardinality(Active) \in Nat /\ Cardinality(spawned) \in Nat
    BY <1>4, FS_CardinalityType
  <1>6. Cardinality(spawned) # 0
    BY <1>3, <1>4, FS_EmptySet
  <1>7. IsFiniteSet(Active \cup spawned)
        /\ Cardinality(Active \cup spawned) <= Cardinality(Active) + Cardinality(spawned)
    <2>1. /\ IsFiniteSet(Active \cup spawned)
          /\ IsFiniteSet(Active \cap spawned)
          /\ Cardinality(Active \cup spawned) =
               Cardinality(Active) + Cardinality(spawned) - Cardinality(Active \cap spawned)
      BY <1>4, FS_Union, FS_Intersection
    <2>2. Cardinality(Active \cap spawned) \in Nat
      BY <2>1, FS_CardinalityType
    <2> QED
      BY <1>5, <2>1, <2>2
  <1>8. Cardinality(Kept') <= Cardinality(Active \cup spawned)
        /\ Cardinality(Kept') \in Nat /\ Cardinality(Active \cup spawned) \in Nat
    BY <1>2, <1>7, FS_Subset, FS_CardinalityType
  <1>9. TargetSize \in Nat
    BY WarmPoolAssumption DEF validate_pool_size, MAX_POOL_SIZE
  <1>10. Cardinality(Active) < TargetSize /\ to_spawn <= TargetSize - Cardinality(Active)
    <2>1. to_spawn # 0 /\ to_spawn \in Int
      BY <1>1, <1>5, <1>6, SpawnCount
    <2>2. Cardinality(Active) < TargetSize
      BY <2>1 DEF to_spawn
    <2>3. to_spawn = MinOf(TargetSize - Cardinality(Active),
                           MinOf(Cardinality(Unborn), Cardinality(FreeFds)))
      BY <2>2 DEF to_spawn
    <2> QED
      BY <1>5, <1>9, <2>2, <2>3 DEF MinOf
  <1>11. to_spawn \in Int
    BY SpawnCount
  <1> QED
    BY <1>1, <1>5, <1>7, <1>8, <1>9, <1>10, <1>11

(* The contract counts as the daemon does. *)
LEMMA SameCardinality ==
  ASSUME NEW S
  PROVE  Contract!Cardinality(S) = Cardinality(S)
  BY DEF Cardinality, Contract!Cardinality

LEMMA TickTends ==
  ASSUME IInv, IInv', Maintain
  PROVE  Contract!Tend
  <1>1. ~closed /\ UNCHANGED <<holder, closed>>
    BY DEF Maintain, closed, holder, connVars
  <1>2. PICK spawned \in SUBSET Unborn :
          state' = [w \in Workers |->
               IF w \in spawned THEN "Warming"
               ELSE IF w \in Promoted THEN "Ready"
               ELSE IF w \in Retired THEN "Removed" ELSE state[w]]
    BY DEF Maintain
  <1>3. ASSUME NEW w \in Workers
        PROVE  \/ state'[w] = state[w]
               \/ state[w] = "Unborn" /\ state'[w] = "Warming"
               \/ state[w] = "Warming" /\ state'[w] \in {"Ready", "Removed"}
    BY <1>2 DEF IInv, WarmupInv, Unborn, count_state, Promoted, Retired, Held, InMap,
                WorkerState
  <1>4. phase' \in [Workers -> Contract!Phases]
    <2>1. \A w \in Workers : Phase(w)' \in Contract!Phases
      BY DEF IInv, TypeOK, WorkerState, Phase, Contract!Phases
    <2> QED
      BY <2>1 DEF phase
  <1>5. ASSUME NEW w \in Workers
        PROVE  /\ phase[w] = Phase(w)
               /\ phase'[w] = Phase(w)'
    BY DEF phase
  <1>6. ASSUME NEW w \in Workers, phase'[w] # phase[w]
        PROVE  <<phase[w], phase'[w]>> \in Contract!Tended
    BY <1>3, <1>5, <1>6 DEF Phase, Contract!Tended
  <1>7. ASSUME NEW w \in Contract!In("absent"), phase'[w] = "warming"
        PROVE  Contract!Cardinality(Contract!Kept') <= TargetSize
    <2>1. w \in Workers /\ state[w] = "Unborn" /\ state'[w] = "Warming"
      BY <1>3, <1>5, <1>7 DEF Contract!In, Phase, IInv, TypeOK, WorkerState
    <2>2. Contract!Kept' = Kept'
      BY <1>5 DEF Contract!Kept, Contract!In, Kept, count_state, Phase, IInv, TypeOK, WorkerState
    <2>3. Cardinality(Kept') <= TargetSize
      BY <2>1, KeptAfterTick
    <2>4. Contract!Cardinality(Kept') = Cardinality(Kept')
      BY SameCardinality
    <2> QED
      BY <2>2, <2>3, <2>4
  <1>8. (\E w \in Contract!In("absent") : phase'[w] = "warming")
          => Contract!Cardinality(Contract!Kept') <= TargetSize
    BY <1>7, Zenon
  <1> QED
    BY <1>1, <1>4, <1>6, <1>8, Zenon DEF Contract!Tend

LEMMA AcquireHandsOut ==
  ASSUME IInv, IInv', FirstInv, NEW c \in Clients, AcquireWorker(c), assigned' # assigned
  PROVE  \E w \in Workers : Contract!HandOut(w, c)
  <1>1. PICK w \in count_state("Ready") :
          state' = [state EXCEPT ![w] = "InUse"] /\ assigned' = [assigned EXCEPT ![c] = w]
    BY DEF AcquireWorker
  <1>2. w \in Workers /\ state[w] = "Ready"
    BY DEF count_state
  <1>3. assigned[c] = NoWorker
    BY DEF AcquireWorker, FirstInv
  <1>4. ~closed /\ UNCHANGED closed
    BY <1>2 DEF IInv, RemovalInv, TornDown, Held, InMap, WorkerState, AcquireWorker,
                daemonVars, closed
  <1>5. \A d \in Clients : assigned[d] # w
    BY <1>2, WarmPoolAssumption DEF IInv, AssignInv
  <1>6. \A v \in Workers : holder[v] # c
    BY <1>3, WarmPoolAssumption DEF holder
  <1>7. phase' = [phase EXCEPT ![w] = "held"]
    BY <1>1, <1>2 DEF phase, Phase, IInv, TypeOK
  <1>8. holder' = [holder EXCEPT ![w] = c]
    <2>1. \A d \in Clients, v \in Workers :
            assigned'[d] = v <=> IF v = w THEN d = c ELSE assigned[d] = v
      BY <1>1, <1>2, <1>3, <1>5, WarmPoolAssumption DEF IInv, TypeOK
    <2>2. ASSUME NEW v \in Workers, v # w
          PROVE  holder'[v] = holder[v]
      <3>1. \A d \in Clients : assigned'[d] = v <=> assigned[d] = v
        BY <2>1, <2>2
      <3>2. (CHOOSE d \in Clients : assigned'[d] = v) = (CHOOSE d \in Clients : assigned[d] = v)
        BY <3>1
      <3> QED
        BY <3>1, <3>2 DEF holder
    <2>3. holder'[w] = c
      BY <1>2, <2>1 DEF holder
    <2>4. /\ holder = [v \in Workers |-> holder[v]]
          /\ holder' = [v \in Workers |-> holder'[v]]
      BY Zenon DEF holder
    <2> QED
      BY <1>2, <2>2, <2>3, <2>4
  <1>9. phase[w] = "ready"
    BY <1>2 DEF phase, Phase
  <1> QED
    BY <1>2, <1>4, <1>6, <1>7, <1>8, <1>9 DEF Contract!HandOut

LEMMA ReleaseReclaims ==
  ASSUME IInv, NEW c \in Clients, ReleaseWorker(c), state' # state
  PROVE  \E w \in Workers : Contract!Reclaim(w)
  <1> DEFINE w == assigned[c]
  <1>1. InMap(w) /\ state' = [state EXCEPT ![w] = "Removed"]
    BY DEF ReleaseWorker
  <1>2. w \in Workers
    BY <1>1 DEF IInv, TypeOK
  <1>3. state[w] = "InUse"
    BY <1>1, <1>2, WarmPoolAssumption DEF IInv, AssignInv, InMap, WorkerState
  <1>4. phase[w] = "held"
    BY <1>2, <1>3 DEF phase, Phase
  <1>5. phase' = [phase EXCEPT ![w] = "retired"]
    BY <1>1, <1>2 DEF phase, Phase, IInv, TypeOK
  <1>6. UNCHANGED <<holder, closed>>
    BY DEF ReleaseWorker, holder, closed, daemonVars
  <1> QED
    BY <1>2, <1>4, <1>5, <1>6 DEF Contract!Reclaim

LEMMA ShutdownCloses ==
  ASSUME IInv, ShutdownAll
  PROVE  Contract!Close
  <1>1. ~closed /\ closed' = TRUE
    BY DEF ShutdownAll, closed
  <1>2. \A w \in Workers : Phase(w)' = IF phase[w] = "absent" THEN "absent" ELSE "retired"
    BY DEF ShutdownAll, phase, Phase, InMap, WorkerState, IInv, TypeOK
  <1>3. phase' = [w \in Workers |-> IF phase[w] = "absent" THEN "absent" ELSE "retired"]
    BY <1>2 DEF phase
  <1>4. UNCHANGED holder
    BY DEF ShutdownAll, holder, connVars
  <1> QED
    BY <1>1, <1>3, <1>4 DEF Contract!Close

(* What does not touch the map, the assignments or the end of the daemon   *)
(* is nothing to the contract.                                             *)
LEMMA Unseen ==
  ASSUME state' = state, assigned' = assigned, closed' = closed
  PROVE  UNCHANGED Contract!contract
  <1>1. phase' = phase
    BY DEF phase, Phase
  <1>2. holder' = holder
    BY DEF holder
  <1> QED
    BY <1>1, <1>2 DEF Contract!contract

LEMMA StepContract ==
  ASSUME IInv, IInv', FirstInv, [Next]_vars
  PROVE  [Contract!Proceed]_(Contract!contract)
  <1> USE DEF mapVars, warmVars, connVars, daemonVars
  <1>1. CASE Maintain
    BY <1>1, TickTends DEF Contract!Proceed
  <1>2. CASE ShutdownAll
    BY <1>2, ShutdownCloses DEF Contract!Proceed
  <1>3. ASSUME NEW c \in Clients, AcquireWorker(c)
        PROVE  [Contract!Proceed]_(Contract!contract)
    <2>1. assigned' = assigned => state' = state
      <3>1. ASSUME NEW w \in count_state("Ready"), assigned' = [assigned EXCEPT ![c] = w]
            PROVE  assigned' # assigned
        BY <3>1, WarmPoolAssumption, <1>3
        DEF count_state, AcquireWorker, FirstInv, IInv, TypeOK
      <3> QED
        BY <1>3, <3>1 DEF AcquireWorker
    <2>2. closed' = closed
      BY <1>3 DEF AcquireWorker, closed
    <2> QED
      BY <1>3, <2>1, <2>2, AcquireHandsOut, Unseen DEF Contract!Proceed
  <1>4. ASSUME NEW c \in Clients, ReleaseWorker(c)
        PROVE  [Contract!Proceed]_(Contract!contract)
    <2>1. assigned' = assigned /\ closed' = closed
      BY <1>4 DEF ReleaseWorker, closed
    <2> QED
      BY <1>4, <2>1, ReleaseReclaims, Unseen DEF Contract!Proceed
  <1>5. ASSUME NEW c \in Clients, GetWorker(c)
        PROVE  UNCHANGED Contract!contract
    <2>1. state' = state /\ assigned' = assigned
      BY <1>5 DEF GetWorker
    <2>2. ~InMap(assigned[c]) => closed
      BY <1>5 DEF GetWorker, IInv, AssignInv, TypeOK, InMap, WorkerState, TornDown, closed
    <2>3. closed' = closed
      BY <1>5, <2>2 DEF GetWorker, closed
    <2> QED
      BY <2>1, <2>3, Unseen
  <1>6. CASE Signal \/ LeaveLoop \/ PollError \/ FailServe \/ Cleanup
    <2>1. state' = state /\ assigned' = assigned /\ closed' = closed
      BY <1>6 DEF Signal, LeaveLoop, PollError, FailServe, Cleanup, closed
    <2> QED
      BY <2>1, Unseen
  <1>7. ASSUME NEW w \in Workers, WarmThread(w)
        PROVE  UNCHANGED Contract!contract
    <2>1. state' = state /\ assigned' = assigned /\ closed' = closed
      BY <1>7 DEF WarmThread, WarmSettled, WarmFailed, closed
    <2> QED
      BY <2>1, Unseen
  <1>8. ASSUME NEW c \in Clients,
               Accept(c) \/ AcceptError(c) \/ SendAssignment(c) \/ PeerClosed(c) \/ Client(c)
        PROVE  UNCHANGED Contract!contract
    <2>1. state' = state /\ assigned' = assigned /\ closed' = closed
      BY <1>8 DEF Accept, AcceptError, SendAssignment, PeerClosed, Client, Connect,
         ReadReply, ClientFails, Release, ReleaseEnds, closed
    <2> QED
      BY <2>1, Unseen
  <1>9. CASE Terminated \/ UNCHANGED vars
    <2>1. state' = state /\ assigned' = assigned /\ closed' = closed
      BY <1>9 DEF Terminated, vars, closed
    <2> QED
      BY <2>1, Unseen
  <1> QED
    BY <1>1, <1>2, <1>3, <1>4, <1>5, <1>6, <1>7, <1>8, <1>9
    DEF Next, MainThread, Handler

(* The daemon implements the contract: INV-9, INV-11, INV-13 and INV-14 of *)
(* the plan for any number of workers and clients and any --pool-size.     *)
THEOREM ImplementsContractHolds == Spec => ImplementsContract
  <1>1. Init => Contract!Begin
    BY WarmPoolAssumption DEF Init, Contract!Begin, phase, Phase, holder, closed
  <1>2. IInv /\ IInv' /\ FirstInv /\ [Next]_vars => [Contract!Proceed]_(Contract!contract)
    BY StepContract
  <1> QED
    BY <1>1, <1>2, Inductive, First, PTL DEF Spec, ImplementsContract, Contract!Promise

-----------------------------------------------------------------------------
(***************************************************************************)
(* The path of the socket, for any number of daemons, lives and node       *)
(* numbers: a start that nobody disturbs succeeds unless the path holds    *)
(* what cannot be removed or seen, and an orderly end removes its own node *)
(* and nothing else.                                                       *)
(*                                                                         *)
(* AloneInv says what a daemon that was never disturbed may rely on at     *)
(* each of its system calls.  A node number can be given out again once    *)
(* nothing names it, so cleanup's comparison of numbers is sound only with *)
(* its look at the type of the node: what stands at the path is the        *)
(* daemon's socket, or it is no socket.                                    *)
(***************************************************************************)
Places ==
  {"exists", "remove", "bind", "chmod", "identity", "serving", "drained", "unlink"}
  \cup Resting

SocketTypeOK ==
  /\ pc \in [Daemons -> Places]
  /\ listener \in [Daemons -> Nodes \cup {NoNode}]
  /\ bound_identity \in [Daemons -> Nodes \cup {NoNode}]
  /\ path \in Nodes \cup {NoNode}
  /\ node \in [Nodes -> Daemons \cup Files]

(* The node d is known by is at the path, or somebody's file is.           *)
OwnOrForeign(d, n) ==
  /\ n \in Nodes /\ path \in Nodes
  /\ (path = n /\ node[path] = d) \/ node[path] \in Files

Relies(d) ==
  /\ pc[d] = "remove" => path # NoNode
  /\ pc[d] = "bind" => path = NoNode \/ At({"dangling"})
  /\ pc[d] \in {"chmod", "identity"} =>
       path = listener[d] /\ path \in Nodes /\ node[path] = d
  /\ pc[d] = "serving" =>
       bound_identity[d] = listener[d] /\ OwnOrForeign(d, listener[d])
  /\ pc[d] = "drained" => OwnOrForeign(d, bound_identity[d])
  /\ pc[d] = "unlink" => path \in Nodes /\ node[path] = d

Undisturbed ==
  \A d \in Daemons : Alive(d) =>
    Relies(d) /\ \A e \in Daemons \ {d} : ~Alive(e)

AloneInv == SocketTypeOK /\ (disturbed \/ Undisturbed)

LEMMA InitAlone == SInit => AloneInv
BY PoolSocketAssumption DEF SInit, AloneInv, SocketTypeOK, Undisturbed, Alive, Resting, Places, Files

LEMMA TypeStep == SocketTypeOK /\ [SNext]_svars => SocketTypeOK'
<1> SUFFICES ASSUME SocketTypeOK, [SNext]_svars PROVE SocketTypeOK'
  OBVIOUS
<1> USE PoolSocketAssumption DEF SocketTypeOK, Places, Resting, Goto, Forget
<1>1. ASSUME NEW d \in Daemons, Start(d) \/ DropListener(d) \/ Crash(d) PROVE SocketTypeOK'
  BY <1>1 DEF Start, DropListener, Crash
<1>2. ASSUME NEW d \in Daemons, Daemon(d) PROVE SocketTypeOK'
  <2>1. CASE Exists(d) \/ Remove(d) \/ SocketIdentity(d)
    BY <2>1 DEF Exists, Remove, SocketIdentity
  <2>2. CASE Bind(d)
    BY <2>2 DEF Bind
  <2>3. CASE Chmod(d) \/ CleanupStat(d) \/ CleanupUnlink(d)
    BY <2>3 DEF Chmod, CleanupStat, CleanupUnlink
  <2> QED
    BY <1>2, <2>1, <2>2, <2>3 DEF Daemon
<1>3. CASE Replace
  BY <1>3 DEF Replace
<1>4. CASE Over \/ UNCHANGED svars
  BY <1>4 DEF Over, svars
<1> QED
  BY <1>1, <1>2, <1>3, <1>4 DEF SNext

(* Once disturbed, for ever; and a start beside another daemon disturbs,   *)
(* as does a file put at the path between two system calls.                *)
LEMMA Remembered ==
  ASSUME [SNext]_svars, ~disturbed'
  PROVE  /\ ~disturbed
         /\ \A d \in Daemons : Start(d) => \A e \in Daemons : ~Alive(e)
         /\ Replace => \A d \in Daemons : pc[d] \in {"serving", "drained"} \cup Resting
<1>1. ~disturbed
  <2>1. ASSUME NEW d \in Daemons, Start(d) PROVE disturbed => disturbed'
    BY <2>1, Zenon DEF Start
  <2>2. ASSUME NEW d \in Daemons, Daemon(d) \/ DropListener(d) \/ Crash(d)
        PROVE  disturbed' = disturbed
    BY <2>2 DEF Daemon, Exists, Remove, Bind, Chmod, SocketIdentity, CleanupStat,
                CleanupUnlink, DropListener, Crash
  <2>3. CASE Replace
    BY <2>3, Zenon DEF Replace
  <2>4. Over \/ UNCHANGED svars => disturbed' = disturbed
    BY DEF Over, svars
  <2> QED
    BY <2>1, <2>2, <2>3, <2>4, Zenon DEF SNext
<1>2. ASSUME NEW d \in Daemons, Start(d) PROVE \A e \in Daemons : ~Alive(e)
  BY <1>2, Zenon DEF Start
<1>3. ASSUME Replace
      PROVE  \A d \in Daemons : pc[d] \in {"serving", "drained"} \cup Resting
  BY <1>3, Zenon DEF Replace
<1> QED
  BY <1>1, <1>2, <1>3

(* One daemon's system call, alone.                                        *)
LEMMA DaemonAlone ==
  ASSUME SocketTypeOK, SocketTypeOK', Undisturbed, NEW d \in Daemons,
         Daemon(d) \/ DropListener(d) \/ Crash(d)
  PROVE  Undisturbed'
<1> USE PoolSocketAssumption DEF SocketTypeOK
<1>1. Alive(d)
  BY DEF Alive, Resting, Daemon, Exists, Remove, Bind, Chmod, SocketIdentity,
         CleanupStat, CleanupUnlink, DropListener, Crash
<1>2. Relies(d) /\ \A e \in Daemons \ {d} : ~Alive(e)
  BY <1>1 DEF Undisturbed
<1>3. \A e \in Daemons \ {d} : pc'[e] = pc[e]
  BY DEF Goto, Daemon, Exists, Remove, Bind, Chmod, SocketIdentity, CleanupStat,
         CleanupUnlink, DropListener, Crash
<1>4. \A e \in Daemons \ {d} : ~Alive(e)'
  BY <1>2, <1>3 DEF Alive
<1>5. ASSUME Alive(d)' PROVE Relies(d)'
  <2> USE DEF Goto, Forget, Relies, OwnOrForeign, At, Files
  <2>1. CASE Exists(d)
    BY <1>2, <2>1 DEF Exists
  <2>2. CASE Remove(d)
    BY <1>2, <2>2 DEF Remove
  <2>3. CASE Bind(d)
    BY <1>2, <2>3 DEF Bind
  <2>4. CASE Chmod(d)
    BY <1>2, <2>4 DEF Chmod
  <2>5. CASE SocketIdentity(d)
    BY <1>2, <2>5 DEF SocketIdentity
  <2>6. CASE DropListener(d)
    BY <1>2, <2>6 DEF DropListener
  <2>7. CASE CleanupStat(d)
    BY <1>2, <1>5, <2>7 DEF CleanupStat, Ours, IsSocket, Alive, Resting
  <2>8. CASE CleanupUnlink(d) \/ Crash(d)
    BY <1>5, <2>8 DEF CleanupUnlink, Crash, Alive, Resting
  <2> QED
    BY <2>1, <2>2, <2>3, <2>4, <2>5, <2>6, <2>7, <2>8 DEF Daemon
<1> QED
  BY <1>4, <1>5 DEF Undisturbed

LEMMA StartAlone ==
  ASSUME SocketTypeOK, SocketTypeOK', Undisturbed, NEW d \in Daemons, Start(d),
         \A e \in Daemons : ~Alive(e)
  PROVE  Undisturbed'
<1>1. pc'[d] = "exists" /\ \A e \in Daemons \ {d} : pc'[e] = pc[e]
  BY DEF Start, Goto, SocketTypeOK
<1> QED
  BY <1>1 DEF Undisturbed, Alive, Relies

(* A file at the path is fresh: its number is nobody's listener's.         *)
LEMMA ReplaceAlone ==
  ASSUME SocketTypeOK, SocketTypeOK', Undisturbed, Replace,
         \A d \in Daemons : pc[d] \in {"serving", "drained"} \cup Resting
  PROVE  Undisturbed'
<1>1. PICK n \in Nodes : /\ path' = n /\ \E f \in Files : node' = [node EXCEPT ![n] = f]
                         /\ Fresh(n)
  BY DEF Replace
<1>2. UNCHANGED <<pc, listener, bound_identity>>
  BY DEF Replace
<1>3. node'[path'] \in Files /\ path' \in Nodes
  BY <1>1 DEF SocketTypeOK
<1> QED
  BY <1>2, <1>3 DEF Undisturbed, Alive, Relies, OwnOrForeign, Resting

LEMMA AloneStep == AloneInv /\ [SNext]_svars => AloneInv'
<1> SUFFICES ASSUME AloneInv, [SNext]_svars, ~disturbed' PROVE Undisturbed'
  BY TypeStep, Zenon DEF AloneInv
<1>1. SocketTypeOK /\ SocketTypeOK' /\ Undisturbed
  BY TypeStep, Remembered, Zenon DEF AloneInv
<1>2. ASSUME NEW d \in Daemons, Start(d) PROVE Undisturbed'
  BY <1>1, <1>2, Remembered, StartAlone
<1>3. ASSUME NEW d \in Daemons, Daemon(d) \/ DropListener(d) \/ Crash(d) PROVE Undisturbed'
  BY <1>1, <1>3, DaemonAlone
<1>4. CASE Replace
  BY <1>1, <1>4, Remembered, ReplaceAlone
<1>5. CASE Over \/ UNCHANGED svars
  <2>1. UNCHANGED <<pc, listener, bound_identity, path, node>>
    BY <1>5 DEF Over, svars
  <2> QED
    BY <1>1, <2>1 DEF Undisturbed, Alive, Relies, OwnOrForeign, At
<1> QED
  BY <1>2, <1>3, <1>4, <1>5 DEF SNext

LEMMA AloneLemma == SSpec => []AloneInv
BY InitAlone, AloneStep, PTL DEF SSpec

-----------------------------------------------------------------------------
(* bind_socket and socket_identity: an undisturbed start ends in a daemon  *)
(* that the path leads to, whatever a crash left there; it fails only on   *)
(* what remove_file refuses or exists() does not see, left as it was.      *)
THEOREM StartServesTheorem == SSpec => StartServes
<1>1. ASSUME AloneInv, [SNext]_svars, NEW d \in Daemons, StartEnds(d), ~disturbed
      PROVE  \/ pc'[d] = "serving" /\ path' = listener'[d] /\ bound_identity'[d] = path'
             \/ pc'[d] = "failed" /\ At({"fixed", "dangling"}) /\ path' = path
  <2>1. SocketTypeOK /\ Undisturbed
    BY <1>1, Zenon DEF AloneInv
  <2>2. Remove(d) \/ Bind(d) \/ Chmod(d) \/ SocketIdentity(d)
    <3>1. PICK e \in Daemons : Start(e) \/ Daemon(e) \/ DropListener(e) \/ Crash(e)
      BY <1>1 DEF StartEnds, SNext, Replace, Over, svars
    <3>2. e = d
      BY <1>1, <2>1, <3>1
      DEF StartEnds, SocketTypeOK, Goto, Start, Daemon, DropListener, Crash, Exists, Remove, Bind,
          Chmod, SocketIdentity, CleanupStat, CleanupUnlink
    <3> QED
      BY <1>1, <2>1, <3>1, <3>2
      DEF StartEnds, SocketTypeOK, Goto, Start, Daemon, DropListener, Crash, Exists, CleanupStat,
          CleanupUnlink
  <2>3. Relies(d)
    BY <2>1, <2>2 DEF Undisturbed, Alive, Resting, Remove, Bind, Chmod, SocketIdentity
  <2> QED
    BY <1>1, <2>1, <2>2, <2>3, PoolSocketAssumption
    DEF StartEnds, SocketTypeOK, Relies, Goto, Remove, Bind, Chmod, SocketIdentity, At, Files
<1>2. AloneInv /\ [SNext]_svars =>
        [\A d \in Daemons : StartEnds(d) =>
           \/ /\ pc'[d] = "serving"
              /\ path' = listener'[d]
              /\ bound_identity'[d] = path'
           \/ pc'[d] = "failed" /\ At({"fixed", "dangling"}) /\ path' = path
           \/ disturbed]_svars
  BY <1>1, Zenon
<1> QED
  BY <1>2, AloneLemma, PTL DEF SSpec, StartServes

(* cleanup: the path is left without the daemon's node, and what is        *)
(* removed was the daemon's, though a number may have changed hands.       *)
THEOREM CleanupRemovesOwnTheorem == SSpec => CleanupRemovesOwn
<1>1. ASSUME AloneInv, AloneInv', [SNext]_svars, NEW d \in Daemons, Exits(d), ~disturbed
      PROVE  /\ path' = NoNode \/ node'[path'] # d
             /\ path # path' => node[path] = d
  <2>1. SocketTypeOK /\ Undisturbed
    BY <1>1, Zenon DEF AloneInv
  <2>2. CleanupStat(d) \/ CleanupUnlink(d)
    <3>1. PICK e \in Daemons : Start(e) \/ Daemon(e) \/ DropListener(e) \/ Crash(e)
      BY <1>1 DEF Exits, SNext, Replace, Over, svars
    <3>2. e = d
      BY <1>1, <2>1, <3>1
      DEF Exits, SocketTypeOK, Goto, Start, Daemon, DropListener, Crash, Exists, Remove, Bind,
          Chmod, SocketIdentity, CleanupStat, CleanupUnlink
    <3> QED
      BY <1>1, <2>1, <3>1, <3>2
      DEF Exits, SocketTypeOK, Goto, Start, Daemon, DropListener, Crash, Exists, Remove, Bind,
          Chmod, SocketIdentity
  <2>3. Relies(d)
    BY <2>1, <2>2 DEF Undisturbed, Alive, Resting, CleanupStat, CleanupUnlink
  <2>4. CASE CleanupStat(d)
    BY <1>1, <2>1, <2>3, <2>4, PoolSocketAssumption
    DEF Exits, SocketTypeOK, Relies, OwnOrForeign, Goto, CleanupStat, Ours, IsSocket
  <2>5. CASE CleanupUnlink(d)
    BY <2>3, <2>5, PoolSocketAssumption DEF Relies, CleanupUnlink, At, Files
  <2> QED
    BY <2>2, <2>4, <2>5
<1>2. AloneInv /\ AloneInv' /\ [SNext]_svars =>
        [\A d \in Daemons : Exits(d) =>
           \/ /\ path' = NoNode \/ node'[path'] # d
              /\ path # path' => node[path] = d
           \/ disturbed]_svars
  BY <1>1, Zenon
<1> QED
  BY <1>2, AloneLemma, PTL DEF SSpec, CleanupRemovesOwn
=============================================================================
