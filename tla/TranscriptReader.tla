-------------------------- MODULE TranscriptReader --------------------------
(***************************************************************************)
(* The stream-json reader of one drive (src/src/emitter.rs, lines 289-972): *)
(* it binds to this session's transcript, tails it line by line, is        *)
(* retargeted to the path the Stop payload names, drains and exits; the    *)
(* handle disconnects its channels and joins it on every way out.          *)
(*                                                                         *)
(* A line is two halves, so that it can be seen half written; a position   *)
(* counts halves.  Transcripts are appended to while the reader reads,     *)
(* ours by claude until it is killed, a sibling's at any time.             *)
(***************************************************************************)
EXTENDS Integers, Sequences

CONSTANTS
  Files,         (* the .jsonl files of the projects directory             *)
  Own,           (* the one the identity file names                        *)
  StopFile,      (* the one the Stop payload names                         *)
  Old,           (* those of sessions that were going at PROMPT_INJECTED   *)
  MaxLines       (* bound: lines a file grows to                           *)

NoFile == "no file"
Absent == -1

ASSUME TranscriptReaderAssumption ==
  /\ NoFile \notin Files
  /\ {Own, StopFile} \subseteq Files
  /\ Old \subseteq Files \ {Own, StopFile}
  /\ MaxLines \in Nat \ {0}

VARIABLES
  pc,            (* where the reader thread is                             *)
  path,          (* the file it tails                                      *)
  pos,           (* halves of it read, skipped ones included               *)
  lost,          (* those of them that a failed read took                  *)
  target,        (* the file open_with_retry tries, and why                *)
  draining,
  sole,          (* sole_since: the candidate, and whether the grace is up *)
  identity,      (* the identity file is written                           *)
  size,          (* halves in each file, or Absent                         *)
  session,       (* what the session did: "driving", "stopped" (claude is
                    killed), "retargeted", "signalled", "dropped"          *)
  retarget,      (* retarget_rx holds the Stop payload's path              *)
  drain,         (* drain_rx holds the drain value                         *)
  pre_existing,  (* the snapshot: Old, and ours when claude resumed one    *)
  sparse,        (* the Stop payload names no transcript                   *)
  forwarded      (* the records written, in order                          *)

readerVars == <<pc, path, pos, lost, target, draining, sole>>
sessionVars == <<session, retarget, drain>>
driveVars == <<pre_existing, sparse>>
vars == <<readerVars, identity, size, sessionVars, driveVars, forwarded>>

disconnected == session = "dropped"

snapshot_offset(f) == IF f \in pre_existing THEN 2 ELSE 0

Init ==
  /\ pc = "binding"
  /\ path = NoFile
  /\ pos = 0
  /\ lost = {}
  /\ target = [file |-> NoFile, why |-> "none"]
  /\ draining = FALSE
  /\ sole = [file |-> NoFile, matured |-> FALSE]
  /\ identity = FALSE
  /\ session = "driving"
  /\ retarget = FALSE
  /\ drain = FALSE
  /\ pre_existing \in {Old, Old \cup {Own}}
  /\ size = [f \in Files |-> IF f \in pre_existing THEN 2 ELSE Absent]
  /\ sparse \in BOOLEAN
  /\ forwarded = <<>>

(***************************************************************************)
(* bind_with_retry: the retarget outranks the identity, the identity the   *)
(* fallback; then a look at the drain channel ends or repeats the tick.    *)
(***************************************************************************)
Open(f, why) ==
  /\ target' = [file |-> f, why |-> why]
  /\ pc' = "opening"

BindRetarget ==
  /\ pc = "binding"
  /\ retarget
  /\ retarget' = FALSE
  /\ Open(StopFile, "first")
  /\ UNCHANGED <<path, pos, lost, draining, sole, identity, size, session, drain,
                 forwarded, driveVars>>

BindIdentity ==
  /\ pc = "binding"
  /\ ~retarget
  /\ identity
  /\ Open(Own, "first")
  /\ UNCHANGED <<path, pos, lost, draining, sole, identity, size, sessionVars,
                 forwarded, driveVars>>

Candidates == {f \in Files \ pre_existing : size[f] # Absent}

Nobody == [file |-> NoFile, matured |-> FALSE]
Lone == CHOOSE f \in Files : Candidates = {f}
BindsAlone(f) == Candidates = {f} /\ sole = [file |-> f, matured |-> TRUE]

(* A lone new file is bound once the grace has matured on it; get_or_insert *)
(* keeps an earlier candidate's entry.                                     *)
BindFallback ==
  /\ pc = "binding"
  /\ ~retarget
  /\ ~identity
  /\ \E f \in Candidates : BindsAlone(f) /\ Open(f, "first")
  /\ sole' = Nobody
  /\ UNCHANGED <<path, pos, lost, draining, identity, size, sessionVars, forwarded,
                 driveVars>>

BindNothing ==
  /\ pc = "binding"
  /\ ~retarget
  /\ ~identity
  /\ ~ \E f \in Candidates : BindsAlone(f)
  /\ sole' = CASE ~ \E f \in Files : Candidates = {f} -> Nobody
               [] sole = Nobody -> [Nobody EXCEPT !.file = Lone]
               [] OTHER -> sole
  /\ pc' = "unbound"
  /\ UNCHANGED <<path, pos, lost, target, draining, identity, size, sessionVars,
                 forwarded, driveVars>>

Unbound ==                     \* the final look at the retarget included
  /\ pc = "unbound"
  /\ IF drain \/ disconnected
     THEN /\ drain' = FALSE
          /\ retarget' = FALSE
          /\ \/ retarget /\ Open(StopFile, "first")
             \/ ~retarget /\ pc' = "exited" /\ UNCHANGED target
     ELSE pc' = "binding" /\ UNCHANGED <<drain, retarget, target>>
  /\ UNCHANGED <<path, pos, lost, draining, sole, identity, size, session, forwarded,
                 driveVars>>

(***************************************************************************)
(* open_with_retry and the seek, for the first binding and for a rebind.   *)
(* A drain value it meets is consumed.                                     *)
(***************************************************************************)
GiveUp == CASE target.why = "first" -> "exited"
            [] target.why = "retarget" -> "idle_identity"
            [] target.why = "identity" -> "idle_drain"
            [] target.why = "failed" -> "failed_drain"

OpenedAtStart ==               \* mutant: no seek
  /\ pc = "opening"
  /\ size[target.file] # Absent
  /\ path' = target.file
  /\ pos' = 0
  /\ lost' = {}
  /\ pc' = "reading"
  /\ UNCHANGED <<target, draining, sole, identity, size, sessionVars, forwarded,
                 driveVars>>

Opened ==
  /\ pc = "opening"
  /\ size[target.file] # Absent
  /\ path' = target.file
  /\ pos' = snapshot_offset(target.file)
  /\ lost' = {}
  /\ pc' = "reading"
  /\ UNCHANGED <<target, draining, sole, identity, size, sessionVars, forwarded,
                 driveVars>>

OpenFails ==                   \* drained, disconnected, or 5 s are over
  /\ pc = "opening"
  /\ size[target.file] = Absent
  /\ drain' = FALSE
  /\ pc' = GiveUp
  /\ UNCHANGED <<path, pos, lost, target, draining, sole, identity, size, session,
                 retarget, forwarded, driveVars>>

(***************************************************************************)
(* tail_loop.                                                              *)
(***************************************************************************)
LineEnd(p) == IF p % 2 = 0 THEN p + 2 ELSE p + 1

ReadEnd ==                     \* the end of the line, or of the file
  IF LineEnd(pos) <= size[path] THEN LineEnd(pos) ELSE size[path]

HasMore == pc = "reading" /\ pos < size[path]

ReadTo(p) ==
  /\ pos' = p
  /\ UNCHANGED <<path, target, draining, sole, identity, size, sessionVars,
                 driveVars>>

(* Behind a half that failed to read: within a character.                  *)
Torn == pos % 2 = 1 /\ pos - 1 \in lost

ReadLine ==
  /\ HasMore
  /\ ~Torn
  /\ ReadTo(ReadEnd)
  /\ forwarded' =
       Append(forwarded, [file |-> path, from |-> pos, to |-> ReadEnd])
  /\ UNCHANGED <<pc, lost>>

(* What ends or begins within a character is no UTF-8: read_line has taken *)
(* it from the file, and gives none of it.                                 *)
ReadFails ==
  /\ HasMore
  /\ Torn \/ LineEnd(pos) > size[path]
  /\ ReadTo(ReadEnd)
  /\ lost' = lost \cup (pos..(ReadEnd - 1))
  /\ pc' = "failed"
  /\ UNCHANGED forwarded

ReadNothing ==
  /\ pc = "reading"
  /\ pos = size[path]
  /\ pc' = "idle"
  /\ UNCHANGED <<path, pos, lost, target, draining, sole, identity, size, sessionVars,
                 forwarded, driveVars>>

(* take_retarget: a request for the current path is consumed and dropped.  *)
TakeRetargetAlways ==          \* mutant: the current path is not compared
  /\ pc \in {"idle", "failed"}
  /\ retarget
  /\ retarget' = FALSE
  /\ Open(StopFile, IF pc = "idle" THEN "retarget" ELSE "failed")
  /\ UNCHANGED <<path, pos, lost, draining, sole, identity, size, session, drain,
                 forwarded, driveVars>>

TakeRetarget ==
  /\ pc \in {"idle", "failed"}
  /\ retarget
  /\ retarget' = FALSE
  /\ IF path = StopFile
     THEN /\ pc' = IF pc = "idle" THEN "idle_identity" ELSE "failed_drain"
          /\ UNCHANGED target
     ELSE Open(StopFile, IF pc = "idle" THEN "retarget" ELSE "failed")
  /\ UNCHANGED <<path, pos, lost, draining, sole, identity, size, session, drain,
                 forwarded, driveVars>>

NoRetarget ==
  /\ pc \in {"idle", "failed"}
  /\ ~retarget
  /\ pc' = IF pc = "idle" THEN "idle_identity" ELSE "failed_drain"
  /\ UNCHANGED <<path, pos, lost, target, draining, sole, identity, size, sessionVars,
                 forwarded, driveVars>>

PollIdentity ==                \* every 50 ms, for ever
  /\ pc = "idle_identity"
  /\ identity
  /\ path # Own
  /\ Open(Own, "identity")
  /\ UNCHANGED <<path, pos, lost, draining, sole, identity, size, sessionVars,
                 forwarded, driveVars>>

SkipIdentity ==                \* not yet 50 ms, nothing there, or the same
  /\ pc = "idle_identity"
  /\ pc' = "idle_drain"
  /\ UNCHANGED <<path, pos, lost, target, draining, sole, identity, size, sessionVars,
                 forwarded, driveVars>>

CheckDrainEager ==             \* mutant: no last read after the drain value
  /\ pc \in {"idle_drain", "failed_drain"}
  /\ drain' = (drain /\ draining)
  /\ draining' = (draining \/ drain)
  /\ pc' = IF draining \/ drain \/ disconnected THEN "exited" ELSE "reading"
  /\ UNCHANGED <<path, pos, lost, target, sole, identity, size, session, retarget,
                 forwarded, driveVars>>

CheckDrainUnending ==          \* mutant: a disconnect is not looked at
  /\ pc \in {"idle_drain", "failed_drain"}
  /\ drain' = (drain /\ draining)
  /\ draining' = (draining \/ drain)
  /\ pc' = IF draining THEN "exited" ELSE "reading"
  /\ UNCHANGED <<path, pos, lost, target, sole, identity, size, session, retarget,
                 forwarded, driveVars>>

CheckDrain ==
  /\ pc \in {"idle_drain", "failed_drain"}
  /\ drain' = (drain /\ draining)
  /\ draining' = (draining \/ drain)
  /\ pc' = IF draining \/ (~drain /\ disconnected) THEN "exited" ELSE "reading"
  /\ UNCHANGED <<path, pos, lost, target, sole, identity, size, session, retarget,
                 forwarded, driveVars>>

(***************************************************************************)
(* The session's half of the handle, and the world.                        *)
(***************************************************************************)
SessionStep(from, to) == session = from /\ session' = to

Stop ==                        \* the payload is read and claude is killed
  /\ SessionStep("driving", "stopped")
  /\ size[StopFile] # Absent
  /\ UNCHANGED <<readerVars, identity, size, retarget, drain, forwarded,
                 driveVars>>

Retarget ==
  /\ ~sparse
  /\ SessionStep("stopped", "retargeted")
  /\ retarget' = TRUE
  /\ UNCHANGED <<readerVars, identity, size, drain, forwarded, driveVars>>

SignalDrain ==
  /\ SessionStep(IF sparse THEN "stopped" ELSE "retargeted", "signalled")
  /\ drain' = TRUE
  /\ UNCHANGED <<readerVars, identity, size, retarget, forwarded, driveVars>>

DropHandle ==                  \* after the drain signal, or on any error
  /\ session \in {"driving", "signalled"}
  /\ session' = "dropped"
  /\ UNCHANGED <<readerVars, identity, size, retarget, drain, forwarded,
                 driveVars>>

GraceElapses ==
  /\ sole.file # NoFile
  /\ ~sole.matured
  /\ sole' = [sole EXCEPT !.matured = TRUE]
  /\ UNCHANGED <<pc, path, pos, lost, target, draining, identity, size, sessionVars,
                 forwarded, driveVars>>

WriteIdentity ==
  /\ session = "driving"
  /\ ~identity
  /\ identity' = TRUE
  /\ UNCHANGED <<readerVars, size, sessionVars, forwarded, driveVars>>

Grow(f) ==                     \* created, or half a line more
  /\ f \in {Own, StopFile} => session = "driving"
  /\ size[f] < 2 * MaxLines
  /\ \/ size[f] = Absent /\ size' = [size EXCEPT ![f] = 0]
     \/ size[f] # Absent /\ size' = [size EXCEPT ![f] = @ + 1]
  /\ UNCHANGED <<readerVars, identity, sessionVars, forwarded, driveVars>>

Over == pc = "exited" /\ disconnected /\ UNCHANGED vars

Reader ==
  \/ BindRetarget \/ BindIdentity \/ BindFallback \/ BindNothing \/ Unbound
  \/ Opened \/ OpenFails
  \/ ReadLine \/ ReadFails \/ ReadNothing
  \/ TakeRetarget \/ NoRetarget \/ PollIdentity \/ SkipIdentity \/ CheckDrain
World ==
  \/ GraceElapses \/ WriteIdentity \/ \E f \in Files : Grow(f)
Session == Stop \/ Retarget \/ SignalDrain \/ DropHandle

Next == Reader \/ Session \/ World \/ Over

Spec ==
  /\ Init /\ [][Next]_vars
  /\ WF_vars(Reader)
  /\ WF_vars(Retarget \/ SignalDrain)
  /\ WF_vars(session = "signalled" /\ DropHandle)
-----------------------------------------------------------------------------
(***************************************************************************)
(* Properties.                                                             *)
(***************************************************************************)
(* A session's stream carries each event once, in order, and none that was *)
(* there before the prompt: records of a file start at its snapshot offset *)
(* and never overlap, whatever is bound, rebound or retargeted meanwhile.  *)
(* Those of a session that was already going when the prompt was injected  *)
(* are never ours, however much its file grows.                            *)
ForwardedOnce ==
  /\ \A i \in DOMAIN forwarded :
       /\ forwarded[i].file \notin Old
       /\ forwarded[i].from >= snapshot_offset(forwarded[i].file)
  /\ \A i, j \in DOMAIN forwarded :
       i < j /\ forwarded[i].file = forwarded[j].file
         => forwarded[j].from >= forwarded[i].to

(* A reader that drained follows the transcript the Stop payload named and *)
(* has forwarded all it read of it but the lines that it saw torn within a *)
(* character; and it read to the end, to what claude wrote just before it  *)
(* was killed and the poll that saw the drain value did not find, unless   *)
(* it is such a line that it stopped at.                                   *)
Carried(p) ==
  \E i \in DOMAIN forwarded :
    forwarded[i].file = path /\ p \in forwarded[i].from..(forwarded[i].to - 1)

DrainedWhole ==
  pc = "exited" /\ draining =>
    /\ ~sparse => path = StopFile
    /\ path = StopFile =>
         /\ \A p \in snapshot_offset(path)..(pos - 1) : Carried(p) \/ p \in lost
         /\ pos = size[path] \/ pos - 1 \in lost

(* INV-8: once the handle is dropped the reader exits and the join returns. *)
JoinReturns == disconnected ~> pc = "exited"
=============================================================================
