--------------------------- MODULE WorkerTeardown ---------------------------
(***************************************************************************)
(* The teardown of one pool worker: destroy_worker of src/src/pool.rs with *)
(* signal_worker_group and kill_surviving_group, against the processes it  *)
(* signals.  A signal goes to a process number or to a group number, and   *)
(* the kernel gives numbers out again: once nothing of the worker holds    *)
(* the number any more, a stranger's group may.                            *)
(***************************************************************************)
CONSTANT Descendants  (* processes the worker's tree may come to have     *)

VARIABLES
  pc,            (* where destroy_worker is                                *)
  child,         (* the direct child: "forked" (login_tty has not run, so
                    it leads no group yet), "leader", "zombie", "reaped"   *)
  kin,           (* each descendant: in the child's "group", in another
                    group of its "session", "away" in its own, or none     *)
  stranger,      (* another program's group has taken the number           *)
  in_grace       (* login_tty runs within DESTROY_GRACE of the fork        *)

vars == <<pc, child, kin, stranger, in_grace>>

Group == {d \in Descendants : kin[d] = "group"}

Unreaped == child # "reaped"
GroupExists == child \in {"leader", "zombie"} \/ Group # {} \/ stranger

(* A number is free once no process, group or session bears it.            *)
NumberFree == ~Unreaped /\ \A d \in Descendants : kin[d] \notin {"group", "session"}

Init ==
  /\ pc = "idle"
  /\ child = "forked"
  /\ kin = [d \in Descendants |-> "none"]
  /\ stranger = FALSE
  /\ in_grace \in BOOLEAN

GoTo(from, to) == pc = from /\ pc' = to

Die(c) == IF c = "reaped" THEN c ELSE "zombie"

(* SIGKILL to the number as a group: every member, whoever it is.          *)
KillGroup ==
  /\ child' = Die(child)
  /\ kin' = [d \in Descendants |-> IF d \in Group THEN "none" ELSE kin[d]]

(***************************************************************************)
(* destroy_worker.  SIGTERM may be handled or ignored, so its whole effect *)
(* is what processes do of their own accord later.                         *)
(***************************************************************************)
CloseMaster ==
  /\ GoTo("idle", "term")
  /\ UNCHANGED <<child, kin, stranger, in_grace>>

TermGroup ==                   \* killpg, and kill when there is no group
  /\ GoTo("term", IF GroupExists THEN "waiting" ELSE "term_pid")
  /\ UNCHANGED <<child, kin, stranger, in_grace>>

TermPid ==
  /\ GoTo("term_pid", "waiting")
  /\ UNCHANGED <<child, kin, stranger, in_grace>>

Observe ==                     \* waitpid(WNOHANG)
  /\ GoTo("waiting", "probe")
  /\ child = "zombie"
  /\ child' = "reaped"
  /\ UNCHANGED <<kin, stranger, in_grace>>

GraceOver ==                   \* DESTROY_GRACE
  /\ GoTo("waiting", "kill")
  /\ in_grace => child # "forked"
  /\ UNCHANGED <<child, kin, stranger, in_grace>>

KillLeaderOnly ==              \* mutant: kill(pid) instead of killpg(pid)
  /\ GoTo("kill", "reap")
  /\ child' = Die(child)
  /\ UNCHANGED <<kin, stranger, in_grace>>

KillWorker ==
  /\ pc = "kill"
  /\ \/ GroupExists /\ pc' = "reap" /\ KillGroup
     \/ ~GroupExists /\ pc' = "kill_pid" /\ UNCHANGED <<child, kin>>
  /\ UNCHANGED <<stranger, in_grace>>

KillPidNothing ==              \* mutant: killpg without the fallback
  /\ GoTo("kill_pid", "reap")
  /\ UNCHANGED <<child, kin, stranger, in_grace>>

KillPid ==
  /\ GoTo("kill_pid", "reap")
  /\ child' = Die(child)
  /\ UNCHANGED <<kin, stranger, in_grace>>

Reap ==
  /\ GoTo("reap", "done")
  /\ child = "zombie"
  /\ child' = "reaped"
  /\ UNCHANGED <<kin, stranger, in_grace>>

WaitAbandoned ==               \* mutant: EINTR ends the wait
  /\ GoTo("reap", "done")
  /\ UNCHANGED <<child, kin, stranger, in_grace>>

WaitInterrupted ==             \* EINTR: the daemon got a second signal
  /\ GoTo("reap", "reap")
  /\ UNCHANGED <<child, kin, stranger, in_grace>>

Probe ==                       \* kill_surviving_group: signal 0 first
  /\ GoTo("probe", IF GroupExists THEN "kill_rest" ELSE "done")
  /\ UNCHANGED <<child, kin, stranger, in_grace>>

KillRest ==
  /\ GoTo("kill_rest", "done")
  /\ KillGroup
  /\ UNCHANGED <<stranger, in_grace>>

(***************************************************************************)
(* The processes.                                                          *)
(***************************************************************************)
Lives(d) == kin[d] # "none"

LoginTty ==
  /\ child = "forked"
  /\ child' = "leader"
  /\ UNCHANGED <<pc, kin, stranger, in_grace>>

Spawn(d) ==                    \* by the worker, or by a process of its group
  /\ ~Lives(d)
  /\ child = "leader" \/ Group # {}
  /\ kin' = [kin EXCEPT ![d] = "group"]
  /\ UNCHANGED <<pc, child, stranger, in_grace>>

Leave(d) ==                    \* setpgid or setsid
  /\ kin[d] = "group"
  /\ \E to \in {"session", "away"} : kin' = [kin EXCEPT ![d] = to]
  /\ UNCHANGED <<pc, child, stranger, in_grace>>

ChildExits ==
  /\ child \in {"forked", "leader"}
  /\ child' = "zombie"
  /\ UNCHANGED <<pc, kin, stranger, in_grace>>

DescendantExits(d) ==
  /\ Lives(d)
  /\ kin' = [kin EXCEPT ![d] = "none"]
  /\ UNCHANGED <<pc, child, stranger, in_grace>>

StrangerStarts ==
  /\ NumberFree
  /\ ~stranger
  /\ stranger' = TRUE
  /\ UNCHANGED <<pc, child, kin, in_grace>>

Over == pc = "done" /\ UNCHANGED vars

Teardown ==
  \/ CloseMaster \/ TermGroup \/ TermPid \/ Observe \/ GraceOver
  \/ KillWorker \/ KillPid \/ Reap \/ WaitInterrupted \/ Probe \/ KillRest
Processes ==
  \/ LoginTty \/ ChildExits \/ StrangerStarts
  \/ \E d \in Descendants : Spawn(d) \/ Leave(d) \/ DescendantExits(d)

Next == Teardown \/ Processes \/ Over

(* What WarmWorker schedules when the daemon destroys a worker.            *)
Safely == Init /\ [][Next]_vars
-----------------------------------------------------------------------------
(***************************************************************************)
(* Properties.                                                             *)
(***************************************************************************)
TypeOK ==
  /\ pc \in {"idle", "term", "term_pid", "waiting", "kill", "kill_pid", "reap",
             "probe", "kill_rest", "done"}
  /\ child \in {"forked", "leader", "zombie", "reaped"}
  /\ kin \in [Descendants -> {"none", "group", "session", "away"}]
  /\ stranger \in BOOLEAN
  /\ in_grace \in BOOLEAN

(* destroy_worker returns with the child reaped, whatever interrupts it: a *)
(* pool that shuts down leaves no zombie behind.                           *)
ReapedOnReturn == pc = "done" => child = "reaped"

(* It returns with nothing of the worker's group running, the processes    *)
(* that outlived the child and its SIGTERM included, if login_tty did run  *)
(* by the end of the grace: until it has, only the child can be killed.    *)
NoGroupSurvivors == in_grace /\ pc = "done" => Group = {}

(* A process number is signalled only while the child still holds it.      *)
BarePidPinned == pc \in {"term_pid", "kill_pid"} => Unreaped
=============================================================================
