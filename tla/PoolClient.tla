----------------------------- MODULE PoolClient -----------------------------
(***************************************************************************)
(* One invocation of claude-print with --pool-socket (src/src/pool.rs,      *)
(* acquire_for_invocation; what main.rs does with its outcome) against the *)
(* connection thread of a daemon that may be absent, busy, slow, stopped   *)
(* at any moment, or of another version.                                   *)
(*                                                                         *)
(* The reply travels as three writes: the length, the JSON, and one byte   *)
(* that carries the PTY master; each can be the last one that arrives.     *)
(***************************************************************************)
EXTENDS Naturals, Sequences

CONSTANTS
  Frames,        (* what a daemon may write as the JSON of an assignment:
                    "assigned", "legacy" (fields missing), "garbage"       *)
  Congested      (* the listener's backlog may be full                     *)

ASSUME PoolClientAssumption ==
  /\ Frames \subseteq {"assigned", "legacy", "garbage"}
  /\ Congested \in BOOLEAN

VARIABLES
  pc,            (* where the client is                                    *)
  connected,     (* its socket is connected                                *)
  expired,       (* the acquire deadline has passed                        *)
  failure,       (* the AcquireFailure, if any                             *)
  assignment,    (* the WorkerAssigned it parsed                           *)
  master,        (* it owns a descriptor of the worker's PTY               *)
  drives,        (* what main ran: nothing, "stateless", "pooled", "exit 2" *)
  daemon,        (* at the socket path: "absent", "stale", "serving", or
                    "stopped"                                              *)
  thread,        (* the daemon's end of the acquire connection             *)
  reply,         (* what that thread is writing                            *)
  wire,          (* what the daemon wrote and the client has not read      *)
  worker         (* the pool's one worker                                  *)

clientVars == <<pc, connected, expired, failure, assignment, master, drives>>
daemonVars == <<daemon, thread, reply, wire, worker>>
vars == <<clientVars, daemonVars>>

Init ==
  /\ pc = "connect"
  /\ connected = FALSE
  /\ expired = FALSE
  /\ failure = "none"
  /\ assignment = "none"
  /\ master = FALSE
  /\ drives = "nothing"
  /\ daemon \in {"absent", "stale", "serving"}
  /\ thread = "none"
  /\ reply = "none"
  /\ wire = <<>>
  /\ worker \in {"ready", "warming"}

(***************************************************************************)
(* acquire.  Whatever fails before the connect succeeds is Unreachable,    *)
(* whatever fails after it is Protocol.                                    *)
(***************************************************************************)
Fail(why) ==
  /\ failure' = why
  /\ pc' = "failed"
  /\ UNCHANGED <<connected, assignment, master, drives>>

Proceed(to) ==
  /\ pc' = to
  /\ UNCHANGED <<connected, failure, assignment, master, drives>>

connect_socket ==
  /\ pc = "connect"
  /\ \/ /\ daemon # "serving"
        /\ Fail("Unreachable")
        /\ UNCHANGED thread
     \/ /\ daemon = "serving"
        /\ connected' = TRUE
        /\ pc' = "send"
        /\ thread' = "backlog"
        /\ UNCHANGED <<failure, assignment, master, drives>>
     \/ /\ daemon = "serving" /\ Congested           \* EAGAIN
        /\ Proceed("pending")
        /\ UNCHANGED thread
  /\ UNCHANGED <<expired, daemon, reply, wire, worker>>

(* poll finds an unconnected stream socket writable, and SO_ERROR is 0.    *)
connect_pending ==
  /\ pc = "pending"
  /\ IF expired THEN Fail("Unreachable") ELSE Proceed("send")
  /\ UNCHANGED <<expired, daemonVars>>

send_frame ==
  /\ pc = "send"
  /\ IF expired \/ ~connected \/ thread = "closed"
     THEN Fail("Protocol") /\ UNCHANGED thread
     ELSE /\ Proceed("read_len")
          /\ thread' = IF thread = "backlog" THEN "backlog_request"
                                             ELSE "request"
  /\ UNCHANGED <<expired, daemon, reply, wire, worker>>

(* A read waits for something on the wire, its end, or the deadline.       *)
Arrived(expected) == ~expired /\ wire # <<>> /\ Head(wire) \in expected

Fruitless(expected) ==
  \/ expired
  \/ wire # <<>> /\ Head(wire) \notin expected
  \/ wire = <<>> /\ thread = "closed"

read_len ==
  /\ pc = "read_len"
  /\ \/ Arrived({"len"}) /\ Proceed("read_body") /\ wire' = Tail(wire)
     \/ Fruitless({"len"}) /\ Fail("Protocol") /\ UNCHANGED wire
  /\ UNCHANGED <<expired, daemon, thread, reply, worker>>

Assigns == {"assigned", "legacy"}

ReadBody(late) ==
  /\ pc = "read_body"
  /\ \/ /\ Arrived(Assigns)
        /\ assignment' = Head(wire)
        /\ pc' = "recv_fd"
        /\ UNCHANGED <<connected, failure, master, drives>>
     \/ Arrived({"error"}) /\ Fail("PoolUnavailable")
     \/ Fruitless(Assigns \cup {"error"}) /\ Fail(late)
  /\ wire' = IF wire = <<>> THEN wire ELSE Tail(wire)
  /\ UNCHANGED <<expired, daemon, thread, reply, worker>>

ReadBodyLate == ReadBody("PoolUnavailable")  \* mutant: silence is a busy pool

read_body == ReadBody("Protocol")

Own ==                         \* the descriptor is ours to drive with
  /\ master' = TRUE
  /\ pc' = "acquired"
  /\ UNCHANGED <<connected, failure, assignment, drives>>

RecvFdUnbounded ==             \* mutant: the transfer has no deadline
  /\ pc = "recv_fd"
  /\ \/ wire # <<>> /\ IF assignment = "assigned" THEN Own ELSE Fail("Protocol")
     \/ wire = <<>> /\ thread = "closed" /\ Fail("Protocol")
  /\ wire' = IF wire = <<>> THEN wire ELSE Tail(wire)
  /\ UNCHANGED <<expired, daemon, thread, reply, worker>>

(* recv_fd_bounded, then validate_parts: a legacy assignment is dropped    *)
(* with its descriptor.                                                    *)
recv_fd ==
  /\ pc = "recv_fd"
  /\ \/ Arrived({"fd"}) /\ assignment = "assigned" /\ Own
     \/ Arrived({"fd"}) /\ assignment = "legacy" /\ Fail("Protocol")
     \/ Fruitless({"fd"}) /\ Fail("Protocol")
  /\ wire' = IF wire = <<>> THEN wire ELSE Tail(wire)
  /\ UNCHANGED <<expired, daemon, thread, reply, worker>>

is_stateless_fallback == failure \in {"Unreachable", "PoolUnavailable"}

(***************************************************************************)
(* main: the outcome decides what runs the prompt.                         *)
(***************************************************************************)
Dispatch ==
  /\ pc \in {"acquired", "failed"}
  /\ drives' = CASE pc = "acquired" -> "pooled"
                 [] pc = "failed" /\ is_stateless_fallback -> "stateless"
                 [] OTHER -> "exit 2"
  /\ pc' = IF pc = "acquired" THEN "driving" ELSE "over"
  /\ UNCHANGED <<connected, expired, failure, assignment, master, daemonVars>>

(* The drive is over: release is one more bounded exchange, which a daemon *)
(* that is gone or slow makes fail; the master is closed after it.         *)
Release ==
  /\ pc = "driving"
  /\ \/ daemon = "serving" /\ worker' = "destroyed"
     \/ UNCHANGED worker
  /\ pc' = "over"
  /\ master' = FALSE
  /\ UNCHANGED <<connected, expired, failure, assignment, drives, daemon,
                 thread, reply, wire>>

Deadline ==
  /\ ~expired
  /\ pc \notin {"driving", "over"}
  /\ expired' = TRUE
  /\ UNCHANGED <<pc, connected, failure, assignment, master, drives,
                 daemonVars>>

(***************************************************************************)
(* The daemon: accept_loop and one handle_connection.                      *)
(***************************************************************************)
Accept ==
  /\ daemon = "serving"
  /\ \/ thread = "backlog" /\ thread' = "accepted"
     \/ thread = "backlog_request" /\ thread' = "request"
  /\ UNCHANGED <<clientVars, daemon, reply, wire, worker>>

ReadRequestFails ==            \* five seconds without it
  /\ thread = "accepted"
  /\ thread' = "closed"
  /\ UNCHANGED <<clientVars, daemon, reply, wire, worker>>

handle_acquire ==
  /\ thread = "request"
  /\ thread' = "write_len"
  /\ \/ worker = "ready" /\ worker' = "in_use" /\ reply' \in Frames
     \/ worker # "ready" /\ UNCHANGED worker /\ reply' = "error"
  /\ UNCHANGED <<clientVars, daemon, wire>>

Write(from, item, to) ==
  /\ thread = from
  /\ thread' = to
  /\ wire' = Append(wire, item)
  /\ UNCHANGED <<clientVars, daemon, reply, worker>>

WriteLen == Write("write_len", "len", "write_body")
WriteBody ==
  Write("write_body", reply, IF reply = "error" THEN "closed" ELSE "write_fd")
send_fd == Write("write_fd", "fd", "closed")

(* sendmsg, or an earlier write, fails: the thread ends, the worker stays  *)
(* assigned.                                                               *)
WriteFails ==
  /\ thread \in {"write_len", "write_body", "write_fd"}
  /\ thread' = "closed"
  /\ UNCHANGED <<clientVars, daemon, reply, wire, worker>>

WarmedUp ==
  /\ daemon = "serving"
  /\ worker = "warming"
  /\ worker' = "ready"
  /\ UNCHANGED <<clientVars, daemon, thread, reply, wire>>

(* Shutdown drops the listener with its backlog, retires the workers, and  *)
(* the process exits under whatever its threads were doing.                *)
Stop ==
  /\ daemon = "serving"
  /\ daemon' = "stopped"
  /\ thread' = IF thread = "none" THEN "none" ELSE "closed"
  /\ worker' = "destroyed"
  /\ UNCHANGED <<clientVars, reply, wire>>

Over == pc = "over" /\ UNCHANGED vars

Client ==
  \/ connect_socket \/ connect_pending \/ send_frame \/ read_len \/ read_body
  \/ recv_fd \/ Dispatch \/ Release
Daemon ==
  \/ Accept \/ ReadRequestFails \/ handle_acquire \/ WriteLen \/ WriteBody
  \/ send_fd \/ WriteFails \/ WarmedUp \/ Stop

Next == Client \/ Daemon \/ Deadline \/ Over

(* What Dispatch schedules from the acquire on.                            *)
Safely == Init /\ [][Next]_vars
-----------------------------------------------------------------------------
(***************************************************************************)
(* Properties.                                                             *)
(***************************************************************************)
(* A prompt that runs on the stateless path was not also given a worker:   *)
(* the fallback never leaves an assigned worker behind it.                 *)
FallbackUnassigned == drives = "stateless" => worker # "in_use"

(* A prompt is driven through the pool only with an assignment that names  *)
(* everything the drive needs and the descriptor that came with it.        *)
PooledWhole ==
  drives = "pooled" => assignment = "assigned" /\ (pc = "driving" => master)

(* INV-11 from the client's side: what an invocation drives with is wholly *)
(* its own, and what it drives without it has not been given.              *)
HoldsWhatItDrives == FallbackUnassigned /\ PooledWhole
=============================================================================
