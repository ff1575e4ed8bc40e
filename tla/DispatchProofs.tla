--------------------------- MODULE DispatchProofs ---------------------------
(***************************************************************************)
(* An invocation, for every set of frames, congested or not, every limit   *)
(* and every range of the settings.  What is proved of the client of the   *)
(* pool (PoolClient) holds of whole invocations, because every step of     *)
(* Dispatch is one of PoolClient or leaves it alone; and what is driven    *)
(* was checked.                                                            *)
(***************************************************************************)
EXTENDS Dispatch, TLAPS

(***************************************************************************)
(* The client.  A fallback leaves no worker assigned to it, whatever a     *)
(* daemon may answer.                                                      *)
(***************************************************************************)
Items == {"len", "fd", "error"} \cup Frames

Unanswered == {"none", "backlog", "backlog_request", "accepted", "request"}

(* An error travels only if it is what the thread answers, and a thread    *)
(* that answers an error, or nothing yet, has taken no worker.             *)
Answers ==
  /\ wire \in Seq(Items)
  /\ \A i \in 1..Len(wire) : wire[i] = "error" => reply = "error"
  /\ thread \in Unanswered => reply = "none"
  /\ reply \in {"none", "error"} => worker # "in_use"

(* Unreachable is decided with no thread to take a worker and none coming, *)
(* PoolUnavailable by an error that was read.                              *)
Verdicts ==
  /\ pc \in {"connect", "pending"} => thread = "none"
  /\ pc = "send" => thread \in {"none", "backlog", "accepted", "closed"}
  /\ failure # "none" => pc \in {"failed", "over"}
  /\ failure = "Unreachable" => thread = "none"
  /\ failure = "PoolUnavailable" => reply = "error"
  /\ thread # "none" => thread \in Unanswered \/ reply # "none" \/ thread = "closed"
  /\ drives = "stateless" => is_stateless_fallback

IInv == Answers /\ Verdicts

LEMMA InitIInv == Init => IInv
BY DEF Init, IInv, Answers, Verdicts, Items, Unanswered

(* What is left of the wire once its head is read says nothing new.        *)
LEMMA ReadOn ==
  ASSUME Answers, wire' = IF wire = <<>> THEN wire ELSE Tail(wire),
         UNCHANGED <<thread, reply, worker>>
  PROVE  Answers'
BY DEF Answers

LEMMA HeadOfWire ==
  ASSUME Answers, wire # <<>>, Head(wire) = "error"
  PROVE  reply = "error"
BY DEF Answers

(* A step that leaves the daemon's side alone leaves its half alone.       *)
LEMMA DaemonIdle == Answers /\ UNCHANGED <<thread, reply, wire, worker>> => Answers'
BY DEF Answers

LEMMA ClientIInv == IInv /\ Client => IInv'
<1> SUFFICES ASSUME IInv, Client PROVE IInv'
  OBVIOUS
<1> USE DEF IInv
<1>1. CASE connect_socket
  <2>1. Answers'
    BY <1>1 DEF connect_socket, Answers, Verdicts, Unanswered
  <2>2. Verdicts'
    BY <1>1 DEF connect_socket, Fail, Proceed, Verdicts, Answers, Unanswered,
                is_stateless_fallback
  <2>3. QED
    BY <2>1, <2>2
<1>2. CASE connect_pending
  BY <1>2, DaemonIdle DEF connect_pending, Fail, Proceed, Verdicts, daemonVars,
                          is_stateless_fallback
<1>3. CASE send_frame
  <2>1. Answers'
    BY <1>3 DEF send_frame, Answers, Unanswered, Verdicts
  <2>2. Verdicts'
    BY <1>3 DEF send_frame, Fail, Proceed, Verdicts, Unanswered, Answers,
                is_stateless_fallback
  <2>3. QED
    BY <2>1, <2>2
<1>4. CASE read_len
  <2>1. Answers'
    BY <1>4, ReadOn DEF read_len, Arrived, Answers
  <2>2. Verdicts'
    BY <1>4 DEF read_len, Fail, Proceed, Verdicts, is_stateless_fallback
  <2>3. QED
    BY <2>1, <2>2
<1>5. CASE read_body
  <2>1. Answers'
    BY <1>5, ReadOn DEF read_body, ReadBody
  <2>2. Verdicts'
    BY <1>5, HeadOfWire DEF read_body, ReadBody, Arrived, Fail, Verdicts,
                            is_stateless_fallback
  <2>3. QED
    BY <2>1, <2>2
<1>6. CASE recv_fd
  <2>1. Answers'
    BY <1>6, ReadOn DEF recv_fd
  <2>2. Verdicts'
    BY <1>6 DEF recv_fd, Own, Fail, Verdicts, is_stateless_fallback
  <2>3. QED
    BY <2>1, <2>2
<1>7. CASE Dispatch
  BY <1>7, DaemonIdle DEF Dispatch, Verdicts, daemonVars, is_stateless_fallback
<1>8. CASE Release
  <2>1. Answers'
    BY <1>8 DEF Release, Answers
  <2>2. Verdicts'
    BY <1>8 DEF Release, Verdicts, is_stateless_fallback
  <2>3. QED
    BY <2>1, <2>2
<1>9. QED
  BY <1>1, <1>2, <1>3, <1>4, <1>5, <1>6, <1>7, <1>8 DEF Client

(* What a thread appends is its reply, a length or a descriptor.           *)
LEMMA WriteAnswers ==
  ASSUME Answers, NEW from, NEW item \in Items, NEW to, Write(from, item, to),
         item = "error" => reply = "error", from \notin Unanswered,
         to \notin Unanswered
  PROVE  Answers'
BY DEF Answers, Write

LEMMA DaemonIInv ==
  ASSUME IInv, Daemon, "none" \notin Frames, "error" \notin Frames,
         reply \in {"none", "error"} \cup Frames
  PROVE  IInv'
<1> USE DEF IInv
<1>1. CASE Accept \/ ReadRequestFails \/ WriteFails
  BY <1>1 DEF Accept, ReadRequestFails, WriteFails, Answers, Verdicts, Unanswered,
              clientVars, is_stateless_fallback
<1>2. CASE handle_acquire
  <2>1. Answers'
    BY <1>2 DEF handle_acquire, Answers, Unanswered
  <2>2. Verdicts'
    BY <1>2 DEF handle_acquire, Answers, Verdicts, Unanswered, clientVars,
                is_stateless_fallback
  <2>3. QED
    BY <2>1, <2>2
<1>3. ASSUME NEW from, NEW item, NEW to, Write(from, item, to), Answers',
             from \notin Unanswered, from # "closed", to # "none"
      PROVE  IInv'
  BY <1>3 DEF Write, Verdicts, clientVars, is_stateless_fallback, Unanswered
<1>4. CASE WriteLen
  BY <1>4, <1>3, WriteAnswers DEF WriteLen, Items, Unanswered
<1>5. CASE WriteBody
  <2> DEFINE to == IF reply = "error" THEN "closed" ELSE "write_fd"
  <2>1. Write("write_body", reply, to)
    BY <1>5 DEF WriteBody
  <2>2. /\ "write_body" \notin Unanswered /\ "write_body" # "closed"
        /\ to \notin Unanswered /\ to # "none"
    BY DEF Unanswered
  <2>3. reply \in Items
    BY <2>1 DEF Write, Verdicts, Items, Unanswered
  <2> HIDE DEF to
  <2>4. Answers'
    BY <2>1, <2>2, <2>3, WriteAnswers
  <2>5. QED
    BY <2>1, <2>2, <2>4, <1>3
<1>6. CASE send_fd
  BY <1>6, <1>3, WriteAnswers DEF send_fd, Items, Unanswered
<1>7. CASE WarmedUp
  BY <1>7 DEF WarmedUp, Answers, Verdicts, Unanswered, clientVars, is_stateless_fallback
<1>8. CASE Stop
  BY <1>8 DEF Stop, Answers, Verdicts, Unanswered, clientVars, is_stateless_fallback
<1>9. QED
  BY <1>1, <1>2, <1>4, <1>5, <1>6, <1>7, <1>8 DEF Daemon

(* The thread writes one of the frames it may write, or an error.          *)
ReplyOK == reply \in {"none", "error"} \cup Frames

LEMMA ReplyInvariant == Safely => []ReplyOK
<1>1. Init => ReplyOK
  BY DEF Init, ReplyOK
<1>2. ReplyOK /\ [Next]_vars => ReplyOK'
  <2> SUFFICES ASSUME ReplyOK, [Next]_vars PROVE ReplyOK'
    OBVIOUS
  <2>1. CASE handle_acquire
    BY <2>1 DEF handle_acquire, ReplyOK
  <2>2. CASE UNCHANGED reply
    BY <2>2 DEF ReplyOK
  <2>3. QED
    BY <2>1, <2>2
    DEF Next, Client, Daemon, Deadline, Over, vars, daemonVars, connect_socket,
        connect_pending, send_frame, read_len, read_body, ReadBody, recv_fd,
        Dispatch, Release, Accept, ReadRequestFails, WriteLen, WriteBody, send_fd,
        Write, WriteFails, WarmedUp, Stop
<1>3. QED
  BY <1>1, <1>2, PTL DEF Safely

THEOREM Invariance == Safely => []IInv
<1>1. "none" \notin Frames /\ "error" \notin Frames
  BY PoolClientAssumption
<1>2. ReplyOK /\ IInv /\ [Next]_vars => IInv'
  <2> SUFFICES ASSUME ReplyOK, IInv, [Next]_vars PROVE IInv'
    OBVIOUS
  <2>1. CASE Client
    BY <2>1, ClientIInv
  <2>2. CASE Daemon
    BY <2>2, <1>1, DaemonIInv DEF ReplyOK
  <2>3. CASE Deadline \/ UNCHANGED vars
    BY <2>3, DaemonIdle DEF Deadline, vars, IInv, Verdicts, clientVars, daemonVars,
                            is_stateless_fallback
  <2>4. QED
    BY <2>1, <2>2, <2>3 DEF Next, Over
<1>3. QED
  BY <1>2, InitIInv, ReplyInvariant, PTL DEF Safely

(* A prompt that runs on the stateless path has no worker assigned to it.  *)
THEOREM FallbackUnassignedTheorem == Safely => []FallbackUnassigned
<1>1. IInv => FallbackUnassigned
  BY DEF IInv, Answers, Verdicts, FallbackUnassigned, is_stateless_fallback, Unanswered
<1>2. QED
  BY <1>1, Invariance, PTL

(* The drive begins with the assignment it was given and its descriptor.   *)
Driven ==
  /\ pc \in {"acquired", "driving"} => assignment = "assigned" /\ master
  /\ drives = "pooled" => assignment = "assigned" /\ pc \in {"driving", "over"}

(* A prompt is driven through the pool only with a complete assignment and *)
(* the descriptor that came with it.                                       *)
THEOREM PooledWholeTheorem == Safely => []PooledWhole
<1>1. Init => Driven
  BY DEF Init, Driven
<1>2. Driven /\ [Next]_vars => Driven'
  <2> SUFFICES ASSUME Driven, [Next]_vars PROVE Driven'
    OBVIOUS
  <2> USE DEF Driven
  <2>1. CASE connect_socket \/ connect_pending \/ send_frame \/ read_len
    BY <2>1 DEF connect_socket, connect_pending, send_frame, read_len, Fail, Proceed
  <2>2. CASE read_body \/ recv_fd
    <3>1. master' \in {TRUE, master}
      BY <2>2, Zenon DEF read_body, ReadBody, recv_fd, Own, Fail
    <3>2. QED
      BY <2>2, <3>1 DEF read_body, ReadBody, recv_fd, Own, Fail
  <2>3. CASE Dispatch \/ Release
    BY <2>3 DEF Dispatch, Release
  <2>4. CASE Daemon \/ Deadline \/ UNCHANGED vars
    BY <2>4
    DEF Daemon, Deadline, vars, clientVars, Accept, ReadRequestFails, handle_acquire,
        WriteLen, WriteBody, send_fd, Write, WriteFails, WarmedUp, Stop
  <2>5. QED
    BY <2>1, <2>2, <2>3, <2>4 DEF Next, Client, Over
<1>3. Driven => PooledWhole
  BY DEF Driven, PooledWhole
<1>4. QED
  BY <1>1, <1>2, <1>3, PTL DEF Safely

-----------------------------------------------------------------------------
(***************************************************************************)
(* The invocation.                                                         *)
(***************************************************************************)
(* A step of main is the client's own, or changes nothing of its state.    *)
LEMMA StepImplements == DNext => Next \/ UNCHANGED vars
<1> SUFFICES ASSUME DNext PROVE Next \/ UNCHANGED vars
  OBVIOUS
<1>1. CASE Acquires \/ Returns \/ DaemonSteps
  BY <1>1, Zenon DEF Acquires, Returns, DaemonSteps, Next, Client
<1>2. CASE get_home \/ Mode \/ validate_pool_size \/ load_or_default \/ Args \/ Exits
           \/ resolve_claude_version \/ session_version
  BY <1>2, Zenon DEF get_home, Mode, validate_pool_size, load_or_default, Args, Exits,
                     resolve_claude_version, session_version
<1>3. CASE probe_claude_binary \/ Probes \/ MockStarts \/ MockExits
           \/ wait_with_timeout \/ Verdict
  BY <1>3, Zenon DEF probe_claude_binary, Probes, MockStarts, MockExits,
                     wait_with_timeout, Verdict
<1>4. CASE resolve_input_file \/ ReadFile \/ ReadSpecial \/ FileChanges
           \/ Positional \/ read_stdin_with_limit \/ find_null_byte
  BY <1>4, Zenon DEF resolve_input_file, ReadFile, ReadSpecial, Slurp, FileChanges,
                     Positional, read_stdin_with_limit, find_null_byte
<1>5. CASE Ended
  BY <1>5, Zenon DEF Ended, dvars
<1>6. QED
  BY <1>1, <1>2, <1>3, <1>4, <1>5, Zenon DEF DNext, Main

(* The invocation refines the client of PoolClient.                        *)
THEOREM DispatchImplementsClient == DSpec => Safely
<1>1. DInit => Init
  BY Zenon DEF DInit
<1>2. UNCHANGED dvars => UNCHANGED vars
  BY DEF dvars
<1>3. [DNext]_dvars => [Next]_vars
  BY StepImplements, <1>2
<1>4. QED
  BY <1>1, <1>3, PTL DEF DSpec, Safely

(* No invocation that falls back leaves a worker assigned to it, and one   *)
(* that drives a worker holds the whole of its assignment.                 *)
THEOREM HoldsTheorem == DSpec => []HoldsWhatItDrives
<1>1. FallbackUnassigned /\ PooledWhole => HoldsWhatItDrives
  BY DEF HoldsWhatItDrives
<1>2. QED
  BY <1>1, DispatchImplementsClient, FallbackUnassignedTheorem, PooledWholeTheorem, PTL

-----------------------------------------------------------------------------
(***************************************************************************)
(* What is driven was checked.                                             *)
(***************************************************************************)
Searched == {"config", "args", "acquire", "launch", "drive"}

(* A file was within the limit when it was checked; from the search for a  *)
(* NUL on, there is none; and from the load of the config on its values    *)
(* are in range.                                                           *)
PromptOK ==
  /\ prompt.size \in Nat /\ file.size \in Nat
  /\ stage \in {"home", "mode", "prompt"} => prompt.size = 0
  /\ stage = "stdin" => prompt.size <= Limit
  /\ stage = "read file" => file.size <= Limit \/ edited
  /\ stage \in {"nul"} \cup Searched => prompt.size <= Limit \/ edited
  /\ stage \in Searched => ~prompt.nul

ConfigOK ==
  /\ configured \in [Settings -> {"unset", "in range", "out of range"}]
  /\ stage \in {"args", "acquire", "launch", "drive"} => Validates(configured)
  /\ stage \notin {"acquire", "launch", "drive", "version", "exited"} =>
       \A s \in Settings : resolved[s] # "config"
  /\ stage \in {"acquire", "launch", "drive"} =>
       \A s \in Settings : resolved[s] = "config" => configured[s] # "unset"

DrivenInv == PromptOK /\ ConfigOK

LEMMA LeaveExits ==
  ASSUME NEW code, NEW words, Leave(code, words)
  PROVE  stage' = "exited"
BY Zenon DEF Leave

LEMMA BareExits == ASSUME NEW code, Bare(code) PROVE stage' = "exited"
BY LeaveExits, Zenon DEF Bare

LEMMA EmittedExits == ASSUME NEW u, Emitted(u) PROVE stage' = "exited"
BY LeaveExits, Zenon DEF Emitted

LEMMA AsksVersion == ASSUME NEW then, Asks(then) PROVE stage' = "version"
BY Zenon DEF Asks

LEMMA ToGoes == ASSUME NEW s, To(s) PROVE stage' = s
BY Zenon DEF To

(* A step that touches neither prompt nor config and goes to a stage that  *)
(* promises nothing of them keeps what is promised.                        *)
Elsewhere ==
  {"mode", "check", "serve", "prompt", "serving", "probes", "mkfifo",
   "round trip", "billing", "version", "exited"}

LEMMA ElsewhereKeeps ==
  ASSUME DrivenInv, UNCHANGED <<promptVars, configVars>>, stage' \in Elsewhere,
         stage' \in {"mode", "prompt"} => stage \in {"home", "mode"},
         stage' \notin {"version", "exited"} =>
           stage = "home" \/ stage \in Elsewhere \ {"version", "exited"}
  PROVE  DrivenInv'
BY DEF DrivenInv, PromptOK, ConfigOK, Elsewhere, Searched, promptVars, configVars,
       Validates

LEMMA Sizes ==
  /\ Limit \in Nat
  /\ \A b \in Bytes : b.size \in Nat
  /\ \A f \in Files : f.size \in Nat
<1>1. Limit \in Nat
  BY DispatchAssumption
<1>2. ASSUME NEW b \in Bytes PROVE b.size \in Nat
  <2>1. b.size \in 0..(Limit + 1)
    BY <1>2, Zenon DEF Bytes
  <2>2. QED
    BY <2>1, <1>1
<1>3. ASSUME NEW f \in Files PROVE f.size \in Nat
  <2>1. CASE f = Absent
    BY <2>1 DEF Absent
  <2>2. CASE f # Absent
    <3>1. f.size \in {Limit, Limit + 1}
      BY <1>3, <2>2, Zenon DEF Files
    <3>2. QED
      BY <3>1, <1>1
  <2>3. QED
    BY <2>1, <2>2
<1>4. QED
  BY <1>1, <1>2, <1>3

LEMMA InitDriven == DInit => DrivenInv
<1> SUFFICES ASSUME DInit PROVE DrivenInv
  OBVIOUS
<1>1. prompt = [size |-> 0, nul |-> FALSE] /\ file = Absent /\ stage = "home"
  BY Zenon DEF DInit
<1>2. /\ configured = [s \in Settings |-> "unset"]
      /\ resolved = [s \in Settings |-> "default"]
  BY Zenon DEF DInit
<1>3. QED
  BY <1>1, <1>2 DEF DrivenInv, PromptOK, ConfigOK, Absent, Searched

(* The ways through main that end before the prompt, and the self-test.    *)
LEMMA EarlyKeeps ==
  ASSUME DrivenInv,
         get_home \/ Mode \/ validate_pool_size \/ probe_claude_binary \/ Probes
         \/ MockStarts \/ wait_with_timeout \/ Verdict
  PROVE  DrivenInv'
<1>1. UNCHANGED <<promptVars, configVars>>
  BY Zenon DEF get_home, Mode, validate_pool_size, probe_claude_binary, Probes,
               MockStarts, wait_with_timeout, Verdict
<1>2. CASE get_home
  <2>1. stage = "home" /\ stage' \in {"mode", "exited"}
    BY <1>2, ToGoes, EmittedExits, Zenon DEF get_home
  <2>2. QED
    BY <1>1, <2>1, ElsewhereKeeps DEF Elsewhere
<1>3. CASE Mode
  <2>1. stage = "mode" /\ stage' \in {"check", "serve", "prompt", "version", "exited"}
    BY <1>3, ToGoes, AsksVersion, BareExits, EmittedExits, Zenon DEF Mode
  <2>2. QED
    BY <1>1, <2>1, ElsewhereKeeps DEF Elsewhere
<1>4. CASE validate_pool_size
  <2>1. stage = "serve" /\ stage' \in {"serving", "exited"}
    BY <1>4, ToGoes, BareExits, Zenon DEF validate_pool_size
  <2>2. QED
    BY <1>1, <2>1, ElsewhereKeeps DEF Elsewhere
<1>5. CASE probe_claude_binary \/ Probes \/ MockStarts \/ wait_with_timeout \/ Verdict
  <2>1. /\ stage \in {"check", "probes", "mkfifo", "round trip", "billing"}
        /\ stage' \in {"probes", "mkfifo", "round trip", "billing", "exited"}
    BY <1>5, ToGoes, LeaveExits, Zenon
    DEF probe_claude_binary, Probes, MockStarts, wait_with_timeout, Verdict
  <2>2. QED
    BY <1>1, <2>1, ElsewhereKeeps DEF Elsewhere
<1>6. QED
  BY <1>2, <1>3, <1>4, <1>5

(* Reading the prompt.                                                     *)
LEMMA PromptKeeps ==
  ASSUME DrivenInv,
         FileChanges \/ resolve_input_file \/ Slurp("regular") \/ Slurp("absent")
         \/ Slurp("special") \/ Positional \/ read_stdin_with_limit \/ find_null_byte
  PROVE  DrivenInv'
<1>1. UNCHANGED configVars
  BY Zenon DEF FileChanges, resolve_input_file, Slurp, Positional,
               read_stdin_with_limit, find_null_byte
<1>2. CASE FileChanges
  <2>1. /\ stage \in {"mode", "prompt", "read file"} /\ UNCHANGED <<stage, prompt>>
        /\ file' \in Files
        /\ edited' = (stage = "read file")
    BY <1>2, Zenon DEF FileChanges
  <2>2. file'.size \in Nat
    BY <2>1, Sizes
  <2>3. stage = "read file" => edited'
    BY <2>1, Zenon
  <2>4. QED
    BY <1>1, <2>1, <2>2, <2>3 DEF DrivenInv, PromptOK, ConfigOK, Searched, configVars,
                                  Validates
<1>3. CASE resolve_input_file
  <2>1. /\ stage = "prompt" /\ UNCHANGED promptVars
        /\ (stage' = "read file" /\ file.size <= Limit) \/ stage' = "exited"
    BY <1>3, ToGoes, BareExits DEF resolve_input_file
  <2>2. QED
    BY <1>1, <2>1 DEF DrivenInv, PromptOK, ConfigOK, Searched, promptVars, configVars,
                      Validates
<1>4. ASSUME NEW kind, Slurp(kind) PROVE DrivenInv'
  <2>1. /\ stage = "read file" /\ UNCHANGED <<file, edited>>
        /\ \/ stage' = "nul" /\ prompt' = [size |-> file.size, nul |-> file.nul]
           \/ stage' = "exited" /\ prompt' = prompt
    BY <1>4, ToGoes, BareExits, Zenon DEF Slurp
  <2>2. prompt' = [size |-> file.size, nul |-> file.nul] => prompt'.size = file.size
    OBVIOUS
  <2>3. ConfigOK'
    BY <1>1, <2>1 DEF DrivenInv, ConfigOK, configVars, Validates
  <2>4. PromptOK'
    BY <2>1, <2>2 DEF DrivenInv, PromptOK, Searched
  <2>5. QED
    BY <2>3, <2>4 DEF DrivenInv
<1>5. CASE Positional
  <2>1. /\ stage' = "nul" /\ stage = "prompt" /\ UNCHANGED <<file, edited>>
        /\ prompt' \in {b \in Bytes : b.size < Limit /\ ~b.nul}
    BY <1>5, ToGoes, Zenon DEF Positional
  <2>2. prompt'.size \in Nat /\ prompt'.size <= Limit
    BY <2>1, Sizes
  <2>3. QED
    BY <1>1, <2>1, <2>2 DEF DrivenInv, PromptOK, ConfigOK, Searched, configVars, Validates
<1>6. CASE read_stdin_with_limit
  <2>1. /\ stage \in {"prompt", "stdin"} /\ UNCHANGED <<file, edited>>
        /\ \/ stage' \in {"nul", "exited"} /\ prompt' = prompt
           \/ /\ prompt' \in Bytes
              /\ stage' = "exited" \/ (stage' = "stdin" /\ ~(prompt'.size > Limit))
    BY <1>6, ToGoes, BareExits, Zenon DEF read_stdin_with_limit
  <2>2. prompt'.size \in Nat
    <3>1. prompt' \in Bytes => prompt'.size \in Nat
      BY Sizes, Zenon
    <3>2. QED
      BY <2>1, <3>1 DEF DrivenInv, PromptOK
  <2>3. prompt.size <= Limit
    <3>1. stage = "prompt" => prompt.size = 0
      BY DEF DrivenInv, PromptOK
    <3>2. stage = "stdin" => prompt.size <= Limit
      BY DEF DrivenInv, PromptOK
    <3>3. Limit \in Nat
      BY Sizes
    <3>4. QED
      BY <2>1, <3>1, <3>2, <3>3
  <2>4. stage' = "stdin" => prompt'.size <= Limit
    BY <2>1, <2>2, Sizes
  <2>5. stage' \in {"stdin", "nul", "exited"} /\ (stage' = "nul" => prompt' = prompt)
    BY <2>1
  <2>6. PromptOK'
    BY <2>1, <2>2, <2>3, <2>4, <2>5 DEF DrivenInv, PromptOK, Searched
  <2>7. ConfigOK'
    BY <1>1, <2>1, <2>5 DEF DrivenInv, ConfigOK, configVars, Validates
  <2>8. QED
    BY <2>6, <2>7 DEF DrivenInv
<1>7. CASE find_null_byte
  <2>1. /\ stage = "nul" /\ UNCHANGED promptVars
        /\ stage' = "exited" \/ (stage' = "config" /\ ~prompt.nul)
    BY <1>7, ToGoes, BareExits, Zenon DEF find_null_byte
  <2>2. QED
    BY <1>1, <2>1 DEF DrivenInv, PromptOK, ConfigOK, Searched, promptVars, configVars,
                      Validates
<1>8. QED
  BY <1>2, <1>3, <1>4, <1>5, <1>6, <1>7

(* The config and the settings.                                            *)
LEMMA ConfigKeeps ==
  ASSUME DrivenInv, load_or_default \/ Args
  PROVE  DrivenInv'
<1>1. CASE load_or_default
  <2>1. /\ stage = "config" /\ UNCHANGED <<promptVars, resolved>>
        /\ \/ /\ configured' \in [Settings -> {"unset", "in range", "out of range"}]
              /\ stage' = "version" \/ (stage' = "args" /\ Validates(configured'))
           \/ stage' = "version" /\ UNCHANGED configured
    BY <1>1, ToGoes, AsksVersion, Zenon DEF load_or_default
  <2>2. QED
    BY <2>1 DEF DrivenInv, PromptOK, ConfigOK, Searched, promptVars
<1>2. CASE Args
  <2>1. /\ stage = "args" /\ UNCHANGED <<promptVars, configured>>
        /\ stage' \in {"acquire", "launch"}
        /\ \E flags \in SUBSET Settings :
             resolved' = [s \in Settings |-> Resolve(s, flags)]
    BY <1>2, ToGoes, Zenon DEF Args
  <2>2. PICK flags \in SUBSET Settings : resolved' = [s \in Settings |-> Resolve(s, flags)]
    BY <2>1
  <2>3. \A s \in Settings : Resolve(s, flags) = "config" => configured[s] # "unset"
    BY DEF Resolve
  <2>4. \A s \in Settings : resolved'[s] = "config" => configured[s] # "unset"
    BY <2>2, <2>3
  <2>5. PromptOK'
    BY <2>1 DEF DrivenInv, PromptOK, Searched, promptVars
  <2>6. ConfigOK'
    BY <2>1, <2>4 DEF DrivenInv, ConfigOK, Validates
  <2>7. QED
    BY <2>5, <2>6 DEF DrivenInv
<1>3. QED
  BY <1>1, <1>2

(* The pool, the drive, the exit, and who runs beside main.                *)
LEMMA RestKeeps ==
  ASSUME DrivenInv,
         Acquires \/ session_version \/ Returns \/ Exits \/ resolve_claude_version
         \/ DaemonSteps \/ MockExits \/ Ended \/ UNCHANGED dvars
  PROVE  DrivenInv'
<1>1. UNCHANGED <<promptVars, configVars>>
  <2>1. CASE Acquires \/ session_version \/ Returns \/ Exits \/ resolve_claude_version
             \/ DaemonSteps \/ MockExits
    BY <2>1, Zenon DEF Acquires, session_version, Returns, Exits,
                       resolve_claude_version, DaemonSteps, MockExits
  <2>2. CASE Ended \/ UNCHANGED dvars
    BY <2>2 DEF Ended, dvars
  <2>3. QED
    BY <2>1, <2>2
<1>2. \/ UNCHANGED stage
      \/ stage' \in {"version", "exited"}
      \/ stage = "acquire" /\ stage' \in {"acquire", "launch"}
      \/ stage = "launch" /\ stage' = "drive"
  <2>1. CASE Acquires \/ session_version
    BY <2>1, ToGoes, AsksVersion, Zenon DEF Acquires, session_version
  <2>2. CASE Exits \/ resolve_claude_version
    BY <2>2, LeaveExits, BareExits, AsksVersion, EmittedExits, Zenon
    DEF Exits, resolve_claude_version
  <2>3. CASE Returns \/ DaemonSteps \/ MockExits
    BY <2>3, Zenon DEF Returns, DaemonSteps, MockExits
  <2>4. CASE Ended \/ UNCHANGED dvars
    BY <2>4 DEF Ended, dvars
  <2>5. QED
    BY <2>1, <2>2, <2>3, <2>4
<1>3. QED
  BY <1>1, <1>2 DEF DrivenInv, PromptOK, ConfigOK, Searched, promptVars, configVars,
                    Validates

(* A prompt that is driven holds no NUL and nothing over the limit that    *)
(* was not checked first, and no setting out of range is applied.          *)
THEOREM DrivenAsCheckedTheorem == DSpec => []DrivenAsChecked
<1>1. DrivenInv /\ [DNext]_dvars => DrivenInv'
  <2> SUFFICES ASSUME DrivenInv, [DNext]_dvars PROVE DrivenInv'
    OBVIOUS
  <2>1. QED
    BY EarlyKeeps, PromptKeeps, ConfigKeeps, RestKeeps, Zenon
    DEF DNext, Main, ReadFile, ReadSpecial
<1>2. DrivenInv => DrivenAsChecked
  BY DEF DrivenInv, PromptOK, ConfigOK, DrivenAsChecked, Searched, Validates
<1>3. QED
  BY <1>1, <1>2, InitDriven, PTL DEF DSpec
-----------------------------------------------------------------------------
(***************************************************************************)
(* What an invocation that ends leaves behind.                             *)
(***************************************************************************)
Unpooled ==                    \* before main asks for a worker
  {"home", "mode", "serve", "serving", "check", "probes", "mkfifo", "round trip",
   "billing", "prompt", "read file", "stdin", "nul", "config", "args"}

(* Code 4 is the prompt's alone, not what an error that waits for the      *)
(* version comes to, and a client that was never started has   *)
(* no thread in the daemon that could assign it a worker; the child and    *)
(* the FIFO of the self-test are there during its round trip only.         *)
AssignedInv ==
  /\ stage \in Unpooled => pc = "connect"
  /\ stage = "version" => owed \in UserError \cup {"line"}
  /\ exit = 4 => stage = "exited" /\ pc = "connect"
  /\ pc = "connect" => thread = "none" /\ worker # "in_use"

TripInv ==
  /\ mock \in {"none", "reaped"} \/ (mock \in {"running", "exited"} /\ stage = "round trip")
  /\ fifo => stage = "round trip"

LeftInv == AssignedInv /\ TripInv

LEMMA LeaveSays ==
  ASSUME NEW code, NEW words, Leave(code, words)
  PROVE  stage' = "exited" /\ exit' = code
BY Zenon DEF Leave

LEMMA BareSays ==
  ASSUME NEW code, Bare(code) PROVE stage' = "exited" /\ exit' = code
BY LeaveSays, Zenon DEF Bare

LEMMA EmittedSays ==
  ASSUME NEW u \in UserError, Emitted(u)
  PROVE  stage' = "exited" /\ exit' \in {1, 2, 124, 130}
<1>1. stage' = "exited" /\ exit' = exit_code(u)
  BY LeaveSays, Zenon DEF Emitted
<1>2. exit_code(u) \in {1, 2, 124, 130}
  BY DEF exit_code, UserError
<1>3. QED
  BY <1>1, <1>2

LEMMA AsksOwes ==
  ASSUME NEW then, Asks(then)
  PROVE  stage' = "version" /\ owed' = then /\ UNCHANGED exit
BY DEF Asks

LEMMA ToSays == ASSUME NEW s, To(s) PROVE stage' = s /\ UNCHANGED exit
BY DEF To, exitVars

LEMMA KnownErrors ==
  /\ {"Setup", "Config"} \subseteq UserError
  /\ \A e \in SessionError : user_error(e) \in UserError
BY DEF UserError, SessionError, user_error

LEMMA InitLeft == DInit => LeftInv
<1> SUFFICES ASSUME DInit PROVE LeftInv
  OBVIOUS
<1>1. pc = "connect" /\ thread = "none" /\ worker # "in_use"
  BY DEF DInit, Init
<1>2. exit = 999 /\ stage = "home" /\ mock = "none" /\ fifo = FALSE
  BY Zenon DEF DInit, Running
<1>3. QED
  BY <1>1, <1>2 DEF LeftInv, AssignedInv, TripInv

(* Before a worker is asked for: code 4, and the round trip.               *)
LEMMA UnpooledKeeps ==
  ASSUME AssignedInv, UNCHANGED vars, stage \in Unpooled,
         \/ stage' = "exited"
         \/ stage' = "version" /\ owed' \in UserError \cup {"line"} /\ UNCHANGED exit
         \/ stage' \in Unpooled \cup {"acquire", "launch"} /\ UNCHANGED exit
  PROVE  AssignedInv'
BY DEF AssignedInv, Unpooled, vars, clientVars, daemonVars

LEMMA TripKeeps ==
  ASSUME TripInv, UNCHANGED <<mock, fifo>>, stage # "round trip" \/ UNCHANGED stage
  PROVE  TripInv'
BY DEF TripInv

LEMMA EarlyLeaves ==
  ASSUME LeftInv,
         get_home \/ Mode \/ validate_pool_size \/ probe_claude_binary \/ Probes
         \/ MockStarts \/ wait_with_timeout \/ Verdict
  PROVE  LeftInv'
<1>1. UNCHANGED vars
  BY Zenon DEF get_home, Mode, validate_pool_size, probe_claude_binary, Probes,
               MockStarts, wait_with_timeout, Verdict
<1>2. CASE get_home \/ Mode \/ validate_pool_size
  <2>1. /\ stage \in {"home", "mode", "serve"} /\ UNCHANGED <<mock, fifo>>
        /\ \/ stage' = "exited"
           \/ stage' = "version" /\ owed' = "line" /\ UNCHANGED exit
           \/ stage' \in {"mode", "check", "serve", "prompt", "serving"} /\ UNCHANGED exit
    BY <1>2, ToSays, AsksOwes, BareExits, EmittedExits
    DEF get_home, Mode, validate_pool_size, checkVars
  <2>2. QED
    BY <1>1, <2>1, UnpooledKeeps, TripKeeps DEF LeftInv, Unpooled
<1>3. CASE probe_claude_binary \/ Probes \/ Verdict
  <2>1. /\ stage \in {"check", "probes", "billing"} /\ UNCHANGED <<mock, fifo>>
        /\ \/ stage' = "exited"
           \/ stage' \in {"probes", "mkfifo", "billing"} /\ UNCHANGED exit
    BY <1>3, ToSays, LeaveExits DEF probe_claude_binary, Probes, Verdict
  <2>2. QED
    BY <1>1, <2>1, UnpooledKeeps, TripKeeps DEF LeftInv, Unpooled
<1>4. CASE MockStarts
  <2>1. /\ stage = "mkfifo"
        /\ \/ stage' = "round trip" /\ exit' = exit /\ mock' = "running"
           \/ stage' = "billing" /\ exit' = exit /\ mock' = mock /\ fifo' = fifo
    BY <1>4, ToSays DEF MockStarts
  <2>2. ~fifo /\ mock \in {"none", "reaped"}
    BY <2>1, Zenon DEF LeftInv, TripInv
  <2>3. TripInv'
    <3>1. mock' \in {"none", "reaped"} \/ (mock' = "running" /\ stage' = "round trip")
      BY <2>1, <2>2
    <3>2. fifo' => stage' = "round trip"
      BY <2>1, <2>2, Zenon
    <3>3. QED
      BY <3>1, <3>2 DEF TripInv
  <2>4. AssignedInv'
    BY <1>1, <2>1, UnpooledKeeps DEF LeftInv, Unpooled
  <2>5. QED
    BY <2>3, <2>4 DEF LeftInv
<1>5. CASE wait_with_timeout
  <2>1. /\ stage = "round trip" /\ stage' = "billing" /\ UNCHANGED exit
        /\ mock' = "reaped" /\ fifo' = FALSE
    BY <1>5, ToSays DEF wait_with_timeout
  <2>2. QED
    BY <1>1, <2>1, UnpooledKeeps DEF LeftInv, TripInv, Unpooled
<1>6. QED
  BY <1>2, <1>3, <1>4, <1>5

LEMMA PromptLeaves ==
  ASSUME LeftInv,
         resolve_input_file \/ Slurp("regular") \/ Slurp("absent") \/ Slurp("special")
         \/ Positional \/ read_stdin_with_limit \/ find_null_byte
         \/ load_or_default \/ Args
  PROVE  LeftInv'
<1>1. UNCHANGED <<vars, checkVars>>
  BY Zenon DEF resolve_input_file, Slurp, Positional, read_stdin_with_limit,
               find_null_byte, load_or_default, Args
<1>2. /\ stage \in {"prompt", "read file", "stdin", "nul", "config", "args"}
      /\ \/ stage' = "exited"
         \/ stage' = "version" /\ owed' = "Config" /\ UNCHANGED exit
         \/ stage' \in Unpooled \cup {"acquire", "launch"} /\ UNCHANGED exit
  <2>1. CASE resolve_input_file \/ Positional \/ find_null_byte
    BY <2>1, ToSays, BareExits DEF resolve_input_file, Positional, find_null_byte, Unpooled
  <2>2. ASSUME NEW kind, Slurp(kind)
        PROVE  stage = "read file" /\ (stage' = "exited" \/ (stage' = "nul" /\ UNCHANGED exit))
    BY <2>2, ToSays, BareExits DEF Slurp
  <2>3. CASE read_stdin_with_limit
    BY <2>3, ToSays, BareExits DEF read_stdin_with_limit, Unpooled
  <2>4. CASE load_or_default \/ Args
    BY <2>4, ToSays, AsksOwes DEF load_or_default, Args, Unpooled
  <2>5. QED
    BY <2>1, <2>2, <2>3, <2>4 DEF Unpooled
<1>3. QED
  BY <1>1, <1>2, KnownErrors, UnpooledKeeps, TripKeeps DEF LeftInv, Unpooled, checkVars

(* The client leaves "connect" for good; the daemon serves nobody till then. *)
LEMMA ClientLeavesConnect ==
  ASSUME Client \/ Deadline
  PROVE  pc' = "connect" => pc' = pc /\ thread' = thread /\ worker' = worker
<1>1. CASE connect_socket
  BY <1>1 DEF connect_socket, Fail, Proceed
<1>2. CASE connect_pending \/ send_frame
  BY <1>2 DEF connect_pending, send_frame, Fail, Proceed
<1>3. CASE read_len \/ read_body \/ recv_fd
  BY <1>3 DEF read_len, read_body, ReadBody, recv_fd, Own, Fail, Proceed
<1>4. CASE Dispatch \/ Release
  BY <1>4 DEF Dispatch, Release
<1>5. CASE Deadline
  BY <1>5 DEF Deadline, daemonVars
<1>6. QED
  BY <1>1, <1>2, <1>3, <1>4, <1>5 DEF Client

LEMMA DaemonAwaits ==
  ASSUME Daemon
  PROVE  /\ UNCHANGED pc
         /\ thread = "none" /\ worker # "in_use" => thread' = "none" /\ worker' # "in_use"
BY DEF Daemon, Accept, ReadRequestFails, handle_acquire, WriteLen, WriteBody, send_fd,
       Write, WriteFails, WarmedUp, Stop, clientVars

LEMMA RestLeaves ==
  ASSUME LeftInv,
         Acquires \/ session_version \/ Returns \/ Exits \/ resolve_claude_version
         \/ DaemonSteps \/ MockExits \/ FileChanges \/ Ended \/ UNCHANGED dvars
  PROVE  LeftInv'
<1>1. CASE Acquires
  <2>1. /\ stage = "acquire" /\ UNCHANGED <<mock, fifo>>
    BY <1>1 DEF Acquires, checkVars
  <2>2. pc' = "connect" => pc' = pc /\ thread' = thread /\ worker' = worker
    BY <1>1, ClientLeavesConnect DEF Acquires
  <2>3. /\ stage' \in {"acquire", "launch", "version"} /\ exit' = exit
        /\ stage' = "version" => owed' \in UserError
    <3>1. To("acquire") \/ To("launch") \/ Asks("Setup")
      BY <1>1, Zenon DEF Acquires
    <3>2. Asks("Setup") => stage' = "version" /\ owed' \in UserError /\ exit' = exit
      BY AsksOwes, KnownErrors
    <3>3. QED
      BY <3>1, <3>2, ToSays
  <2>4. AssignedInv'
    <3>1. stage' \notin Unpooled
      BY <2>3 DEF Unpooled
    <3>2. exit' # 4
      BY <2>1, <2>3 DEF LeftInv, AssignedInv
    <3>3. pc' = "connect" => thread' = "none" /\ worker' # "in_use"
      BY <2>2 DEF LeftInv, AssignedInv
    <3>4. QED
      BY <2>3, <3>1, <3>2, <3>3 DEF AssignedInv
  <2>5. QED
    BY <2>1, <2>4, TripKeeps DEF LeftInv
<1>2. CASE Returns
  <2>1. /\ stage = "drive" /\ UNCHANGED <<stage, exit, mock, fifo>> /\ pc' = "over"
    BY <1>2 DEF Returns, Release, checkVars, exitVars
  <2>2. QED
    BY <2>1, TripKeeps DEF LeftInv, AssignedInv, Unpooled
<1>3. CASE Exits
  <2>1. stage = "drive" /\ UNCHANGED <<pc, thread, worker, mock, fifo>>
    BY <1>3 DEF Exits, vars, clientVars, daemonVars, checkVars
  <2>2. \/ stage' = "exited" /\ exit' \in {0, 2}
        \/ stage' = "version" /\ owed' \in UserError /\ UNCHANGED exit
    <3>1. ASSUME NEW format \in Format, Leave(0, emit_success(format))
          PROVE  stage' = "exited" /\ exit' = 0
      BY <3>1, LeaveSays, Zenon
    <3>2. Bare(2) => stage' = "exited" /\ exit' = 2
      BY BareSays, Zenon
    <3>3. ASSUME NEW e \in SessionError, Asks(user_error(e))
          PROVE  stage' = "version" /\ owed' \in UserError /\ exit' = exit
      BY <3>3, AsksOwes, KnownErrors
    <3>4. QED
      BY <1>3, <3>1, <3>2, <3>3 DEF Exits
  <2>3. AssignedInv'
    <3>1. exit # 4
      BY <2>1 DEF LeftInv, AssignedInv
    <3>2. exit' \in {0, 1, 2, 124, 130} => exit' # 4
      OBVIOUS
    <3>3. exit' # 4
      BY <2>2, <3>1, <3>2
    <3>4. stage' \notin Unpooled
      BY <2>2 DEF Unpooled
    <3>5. stage' = "version" => owed' \in UserError
      BY <2>2
    <3>6. QED
      BY <2>1, <3>3, <3>4, <3>5 DEF LeftInv, AssignedInv
  <2>4. QED
    BY <2>1, <2>3, TripKeeps DEF LeftInv
<1>4. CASE DaemonSteps
  <2>1. UNCHANGED <<stage, owed, exit, mock, fifo>>
    BY <1>4 DEF DaemonSteps, checkVars, exitVars
  <2>2. QED
    BY <1>4, <2>1, DaemonAwaits, TripKeeps DEF DaemonSteps, LeftInv, AssignedInv, Unpooled
<1>5. CASE MockExits \/ FileChanges
  <2>1. /\ UNCHANGED <<vars, stage, owed, exit, fifo>>
        /\ mock' = mock \/ (mock = "running" /\ mock' = "exited")
    BY <1>5 DEF MockExits, FileChanges, exitVars, checkVars
  <2>2. AssignedInv'
    BY <2>1 DEF LeftInv, AssignedInv, vars, clientVars, daemonVars
  <2>3. fifo' = fifo /\ stage' = stage
    BY <1>5 DEF MockExits, FileChanges, checkVars
  <2>4. TripInv'
    <3>1. CASE mock' = mock
      BY <2>1, <2>3, <3>1, TripKeeps DEF LeftInv
    <3>2. CASE mock = "running" /\ mock' = "exited"
      <4>1. stage = "round trip"
        BY <3>2 DEF LeftInv, TripInv
      <4>2. QED
        BY <2>3, <3>2, <4>1, Zenon DEF TripInv
    <3>3. QED
      BY <2>1, <3>1, <3>2
  <2>5. QED
    BY <2>2, <2>4 DEF LeftInv
<1>6. CASE Ended \/ UNCHANGED dvars
  <2>1. UNCHANGED <<pc, thread, worker, stage, owed, exit, mock, fifo>>
    BY <1>6 DEF Ended, dvars, vars, clientVars, daemonVars, exitVars, checkVars
  <2>2. AssignedInv'
    BY <2>1 DEF LeftInv, AssignedInv
  <2>3. QED
    BY <2>1, <2>2, TripKeeps DEF LeftInv
<1>7. CASE session_version \/ resolve_claude_version
  <2>1. /\ stage \in {"launch", "version"} /\ UNCHANGED <<pc, thread, worker, mock, fifo>>
    BY <1>7 DEF session_version, resolve_claude_version, vars, clientVars, daemonVars,
                checkVars
  <2>2. \/ stage' = "drive" /\ UNCHANGED exit
        \/ stage' = "exited" /\ exit' \in {0, 1, 2, 124, 130}
    <3>1. CASE session_version
      BY <3>1, ToSays DEF session_version
    <3>2. CASE resolve_claude_version
      <4>1. owed \in UserError \cup {"line"}
        BY <3>2 DEF resolve_claude_version, LeftInv, AssignedInv
      <4>2. QED
        <5>1. CASE owed = "line"
          BY <3>2, <5>1, LeaveSays, Zenon DEF resolve_claude_version
        <5>2. CASE owed # "line"
          BY <3>2, <4>1, <5>2, EmittedSays DEF resolve_claude_version
        <5>3. QED
          BY <5>1, <5>2
    <3>3. QED
      BY <1>7, <3>1, <3>2
  <2>3. AssignedInv'
    <3>1. exit # 4
      BY <2>1 DEF LeftInv, AssignedInv
    <3>2. exit' \in {0, 1, 2, 124, 130} => exit' # 4
      OBVIOUS
    <3>3. exit' # 4
      BY <2>2, <3>1, <3>2
    <3>4. stage' \notin Unpooled
      BY <2>2 DEF Unpooled
    <3>5. stage' = "version" => owed' \in UserError
      BY <2>2
    <3>6. QED
      BY <2>1, <3>3, <3>4, <3>5 DEF LeftInv, AssignedInv
  <2>4. QED
    BY <2>1, <2>3, TripKeeps DEF LeftInv
<1>8. QED
  BY <1>1, <1>2, <1>3, <1>4, <1>5, <1>6, <1>7

(* Who finds no prompt has asked for no worker, and none can be given to   *)
(* it later; and main waits for the self-test's child before the verdict.  *)
THEOREM LeavesNothingTheorem == DSpec => []LeavesNothing
<1>1. LeftInv /\ [DNext]_dvars => LeftInv'
  <2> SUFFICES ASSUME LeftInv, [DNext]_dvars PROVE LeftInv'
    OBVIOUS
  <2>1. QED
    BY EarlyLeaves, PromptLeaves, RestLeaves, Zenon DEF DNext, Main, ReadFile, ReadSpecial
<1>2. LeftInv => LeavesNothing
  BY DEF LeftInv, AssignedInv, TripInv, LeavesNothing
<1>3. QED
  BY <1>1, <1>2, InitLeft, PTL DEF DSpec
=============================================================================
