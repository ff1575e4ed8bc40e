----------------------------- MODULE PoolSocket -----------------------------
(***************************************************************************)
(* The path of the pool's socket over the lives of the daemons that serve  *)
(* on it (bind_socket, socket_identity, PoolServer::run and cleanup of     *)
(* src/src/pool.rs): one system call per step.                             *)
(*                                                                         *)
(* A node is a number, which the file system gives out again once nothing  *)
(* names it and no listener is bound to it.  Daemons start on the path,    *)
(* end in order or crash, each at any step; whether one was ever disturbed *)
(* between two of its system calls is remembered.                          *)
(***************************************************************************)
EXTENDS Integers, FiniteSets

CONSTANTS
  Daemons,
  Nodes,         (* the numbers of nodes                                   *)
  NoNode,
  MaxLives       (* bound: starts of daemons                               *)

(* Somebody's files at the path: one remove_file takes away; one it does   *)
(* not, a directory or, in a sticky directory such as /tmp, a file of      *)
(* another user; and a symbolic link to nothing, which exists() takes for  *)
(* an absent file and bind for one that is there.                          *)
Files == {"file", "fixed", "dangling"}

ASSUME PoolSocketAssumption ==
  /\ NoNode \notin Nodes
  /\ Daemons \cap Files = {}
  /\ MaxLives \in Nat

VARIABLES
  pc,            (* each daemon's place                                    *)
  listener,      (* the node its socket is bound to                        *)
  bound_identity,
  path,          (* the node at the path                                   *)
  node,          (* what each number was last: a daemon's socket, or which
                    of somebody's files                                    *)
  lives,
  disturbed      (* two daemons lived at a time, or somebody put a file at
                    the path between two system calls of one              *)

svars == <<pc, listener, bound_identity, path, node, lives, disturbed>>

Resting == {"down", "exited", "failed"}

Alive(d) == pc[d] \notin Resting

SInit ==
  /\ pc = [d \in Daemons |-> "down"]
  /\ listener = [d \in Daemons |-> NoNode]
  /\ bound_identity = [d \in Daemons |-> NoNode]
  /\ path = NoNode
  /\ node = [n \in Nodes |-> "file"]
  /\ lives = 0
  /\ disturbed = FALSE

Goto(d, at) == pc' = [pc EXCEPT ![d] = at]

Occupied == {path} \cup {listener[d] : d \in Daemons}

Fresh(n) == n \notin Occupied

At(files) == path # NoNode /\ node[path] \in files

(***************************************************************************)
(* bind_socket                                                             *)
(***************************************************************************)
Start(d) ==
  /\ ~Alive(d)
  /\ lives < MaxLives
  /\ lives' = lives + 1
  /\ disturbed' = (disturbed \/ \E e \in Daemons : Alive(e))
  /\ Goto(d, "exists")
  /\ UNCHANGED <<listener, bound_identity, path, node>>

NeverStale(d) ==               \* mutant: a stale node is not replaced
  /\ pc[d] = "exists"
  /\ Goto(d, "bind")
  /\ UNCHANGED <<listener, bound_identity, path, node, lives, disturbed>>

Exists(d) ==
  /\ pc[d] = "exists"
  /\ Goto(d, IF path = NoNode \/ At({"dangling"}) THEN "bind" ELSE "remove")
  /\ UNCHANGED <<listener, bound_identity, path, node, lives, disturbed>>

Remove(d) ==                   \* `?` if the path has gone meanwhile or stays
  /\ pc[d] = "remove"
  /\ IF path = NoNode \/ At({"fixed"})
     THEN Goto(d, "failed") /\ UNCHANGED path
     ELSE Goto(d, "bind") /\ path' = NoNode
  /\ UNCHANGED <<listener, bound_identity, node, lives, disturbed>>

Bind(d) ==                     \* EADDRINUSE if the path is taken
  /\ pc[d] = "bind"
  /\ \/ /\ path # NoNode
        /\ Goto(d, "failed")
        /\ UNCHANGED <<listener, path, node>>
     \/ /\ path = NoNode
        /\ \E n \in Nodes :
             /\ Fresh(n)
             /\ path' = n
             /\ listener' = [listener EXCEPT ![d] = n]
             /\ node' = [node EXCEPT ![n] = d]
        /\ Goto(d, "chmod")
  /\ UNCHANGED <<bound_identity, lives, disturbed>>

Chmod(d) ==                    \* of whatever the path names; `?` on failure
  /\ pc[d] = "chmod"
  /\ \/ /\ path = NoNode \/ At({"dangling", "fixed"})
        /\ Goto(d, "failed")
        /\ listener' = [listener EXCEPT ![d] = NoNode]
     \/ /\ path # NoNode /\ ~At({"dangling"})
        /\ Goto(d, "identity")
        /\ UNCHANGED listener
  /\ UNCHANGED <<bound_identity, path, node, lives, disturbed>>

(***************************************************************************)
(* run, the shutdown of run_serve, and cleanup                             *)
(***************************************************************************)
SocketIdentity(d) ==
  /\ pc[d] = "identity"
  /\ bound_identity' = [bound_identity EXCEPT
                          ![d] = IF At({"dangling"}) THEN NoNode ELSE path]
  /\ Goto(d, "serving")
  /\ UNCHANGED <<listener, path, node, lives, disturbed>>

DropListener(d) ==
  /\ pc[d] = "serving"
  /\ listener' = [listener EXCEPT ![d] = NoNode]
  /\ Goto(d, "drained")
  /\ UNCHANGED <<bound_identity, path, node, lives, disturbed>>

IsSocket(n) == node[n] \in Daemons

SameNumber(d) ==               \* mutant: the type of the node is not asked
  path # NoNode /\ path = bound_identity[d]

Ours(d) == path # NoNode /\ IsSocket(path) /\ path = bound_identity[d]

Forget(d) == bound_identity' = [bound_identity EXCEPT ![d] = NoNode]

CleanupStat(d) ==
  /\ pc[d] = "drained"
  /\ IF Ours(d) THEN Goto(d, "unlink") /\ UNCHANGED bound_identity
                ELSE Goto(d, "exited") /\ Forget(d)
  /\ UNCHANGED <<listener, path, node, lives, disturbed>>

CleanupUnlink(d) ==            \* a refusal is dropped
  /\ pc[d] = "unlink"
  /\ path' = IF At({"fixed"}) THEN path ELSE NoNode
  /\ Forget(d)
  /\ Goto(d, "exited")
  /\ UNCHANGED <<listener, node, lives, disturbed>>

Crash(d) ==                    \* the node stays
  /\ Alive(d)
  /\ listener' = [listener EXCEPT ![d] = NoNode]
  /\ Forget(d)
  /\ Goto(d, "down")
  /\ UNCHANGED <<path, node, lives, disturbed>>

(***************************************************************************)
(* Somebody puts a file of their own, no socket, at the path.              *)
(***************************************************************************)
Replace ==
  /\ \E n \in Nodes \ {path} :
       /\ Fresh(n)
       /\ path' = n
       /\ \E f \in Files : node' = [node EXCEPT ![n] = f]
  /\ disturbed' = (\/ disturbed
                   \/ \E d \in Daemons :
                        pc[d] \notin {"serving", "drained"} \cup Resting)
  /\ UNCHANGED <<pc, listener, bound_identity, lives>>

Daemon(d) ==
  \/ Exists(d) \/ Remove(d) \/ Bind(d) \/ Chmod(d) \/ SocketIdentity(d)
  \/ CleanupStat(d) \/ CleanupUnlink(d)

Over == lives = MaxLives /\ (\A d \in Daemons : ~Alive(d)) /\ UNCHANGED svars

SNext ==
  \/ \E d \in Daemons : Start(d) \/ Daemon(d) \/ DropListener(d) \/ Crash(d)
  \/ Replace
  \/ Over

SSpec == SInit /\ [][SNext]_svars

(***************************************************************************)
(* Properties                                                              *)
(***************************************************************************)
(* A start that nobody disturbs succeeds on a path that was free or holds  *)
(* what can be removed, a socket of one that crashed at any step or a file *)
(* of somebody's: the daemon is then reached through the path and knows    *)
(* the node there for its own.  It fails only on what remove_file refuses  *)
(* or exists() does not see, and leaves that where it was.                 *)
StartEnds(d) == pc[d] # pc'[d] /\ pc'[d] \in {"serving", "failed"}

StartServes ==
  [][\A d \in Daemons : StartEnds(d) =>
       \/ /\ pc'[d] = "serving"
          /\ path' = listener'[d]
          /\ bound_identity'[d] = path'
       \/ pc'[d] = "failed" /\ At({"fixed", "dangling"}) /\ path' = path
       \/ disturbed]_svars

(* An orderly end, undisturbed, leaves nothing of the daemon's at the path *)
(* and removes nothing it did not create: a file put in the place of its   *)
(* socket stays, even under the number the socket had.                     *)
Exits(d) == pc[d] # "exited" /\ pc'[d] = "exited"

CleanupRemovesOwn ==
  [][\A d \in Daemons : Exits(d) =>
       \/ /\ path' = NoNode \/ node'[path'] # d
          /\ path # path' => node[path] = d
       \/ disturbed]_svars
=============================================================================
