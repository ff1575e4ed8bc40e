---------------------------- MODULE PoolContract ----------------------------
(***************************************************************************)
(* What the warm PTY pool promises (INV-9, INV-11, INV-13 and INV-14 of    *)
(* docs/plan/plan.md, README.md "Warm PTY pool"), without threads, locks,  *)
(* channels, descriptors or sockets: every `claude` process goes once      *)
(* through warming, ready, held and retired, it is handed to at most one   *)
(* client, a client holds at most one, a held one is given up only when    *)
(* its own client releases it or the pool closes, the number of processes  *)
(* kept for future clients never exceeds the target, and closing the pool  *)
(* retires every process.  WarmPool, the daemon, implements it.            *)
(***************************************************************************)
EXTENDS Integers, FiniteSets

CONSTANTS
  Workers,      (* processes ever created: the daemon names them by UUID   *)
  Clients,      (* invocations of claude-print with --pool-socket          *)
  TargetSize,   (* --pool-size                                             *)
  Nobody        (* holder of a worker that was never handed out            *)

VARIABLES
  phase,        (* the life of every worker                                *)
  holder,       (* the one client a worker was handed to                   *)
  closed        (* the pool has been shut down                             *)

contract == <<phase, holder, closed>>

In(p) == {w \in Workers : phase[w] = p}

Kept == In("warming") \cup In("ready")

Phases == {"absent", "warming", "ready", "held", "retired"}

Begin ==
  /\ phase = [w \in Workers |-> "absent"]
  /\ holder = [w \in Workers |-> Nobody]
  /\ closed = FALSE

(* The pool tends itself: warm-ups that ended are promoted or retired and  *)
(* missing workers are created, never beyond the target.                   *)
Tended == {<<"absent", "warming">>, <<"warming", "ready">>, <<"warming", "retired">>}

Tend ==
  /\ ~closed
  /\ phase' \in [Workers -> Phases]
  /\ \A w \in Workers : phase'[w] # phase[w] => <<phase[w], phase'[w]>> \in Tended
  /\ (\E w \in In("absent") : phase'[w] = "warming") => Cardinality(Kept') <= TargetSize
  /\ UNCHANGED <<holder, closed>>

HandOut(w, c) ==
  /\ ~closed
  /\ phase[w] = "ready"
  /\ \A v \in Workers : holder[v] # c
  /\ phase' = [phase EXCEPT ![w] = "held"]
  /\ holder' = [holder EXCEPT ![w] = c]
  /\ UNCHANGED closed

Reclaim(w) ==
  /\ phase[w] = "held"
  /\ phase' = [phase EXCEPT ![w] = "retired"]
  /\ UNCHANGED <<holder, closed>>

Close ==
  /\ ~closed
  /\ closed' = TRUE
  /\ phase' = [w \in Workers |-> IF phase[w] = "absent" THEN "absent" ELSE "retired"]
  /\ UNCHANGED holder

Proceed ==
  \/ Tend
  \/ \E w \in Workers, c \in Clients : HandOut(w, c)
  \/ \E w \in Workers : Reclaim(w)
  \/ Close

Promise == Begin /\ [][Proceed]_contract
=============================================================================
