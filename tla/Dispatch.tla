------------------------------ MODULE Dispatch ------------------------------
(***************************************************************************)
(* One invocation from the start of main to its exit (src/src/main.rs):    *)
(* the home directory, the self-test, the prompt and the config are        *)
(* checked in this order, then a worker is acquired (PoolClient), the      *)
(* prompt is driven, and what came of it is said (Emission).  The version  *)
(* of claude is part of what is said and of every session: main waits for  *)
(* the end of "claude --version", with no limit of time.                   *)
(*                                                                         *)
(* An option of the command line is read where main consults it: until     *)
(* then it may be any.                                                     *)
(***************************************************************************)
EXTENDS PoolClient, Emission, FiniteSets

CONSTANTS
  Limit,         (* PROMPT_MAX_BYTES (10 MiB)                              *)
  Settings       (* settings with a flag and a key in the config           *)

ASSUME DispatchAssumption ==
  /\ Limit \in Nat \ {0}
  /\ Settings \subseteq {"model", "inherit_hooks", "max_turns", "timeout"}

VARIABLES
  stage,         (* where main is                                          *)
  file,          (* the --input-file: [kind, size, nul]                    *)
  edited,        (* it was changed after it was checked                    *)
  prompt,        (* the bytes read: [size, nul]                            *)
  configured,    (* per setting: "unset", "in range" or "out of range"     *)
  resolved,      (* per setting: what decided it                           *)
  all_pass,      (* the rows of the self-test                              *)
  mock,          (* its child: "none", "running", "exited" or "reaped"     *)
  fifo,          (* the FIFO of the round trip exists                      *)
  owed,          (* what is said once claude told its version: an error,
                    or "line", the version itself                          *)
  said, exit     (* what was written, and the exit code                    *)

promptVars == <<file, edited, prompt>>
configVars == <<configured, resolved>>
checkVars == <<all_pass, mock, fifo>>
exitVars == <<owed, said, exit>>
dvars == <<vars, stage, promptVars, configVars, checkVars, exitVars>>

Running == 999
Bytes == [size : 0..(Limit + 1), nul : BOOLEAN]
Absent == [kind |-> "absent", size |-> 0, nul |-> FALSE]
Files == {Absent} \cup
  [kind : {"special", "regular"}, size : {Limit, Limit + 1}, nul : BOOLEAN]

DInit ==
  /\ Init
  /\ stage = "home"
  /\ file = Absent
  /\ edited = FALSE
  /\ prompt = [size |-> 0, nul |-> FALSE]
  /\ configured = [s \in Settings |-> "unset"]
  /\ resolved = [s \in Settings |-> "default"]
  /\ all_pass = TRUE
  /\ mock = "none"
  /\ fifo = FALSE
  /\ owed = "nothing"
  /\ said = Said
  /\ exit = Running

Leave(code, words) ==
  /\ stage' = "exited"
  /\ exit' = code
  /\ said' = words
  /\ UNCHANGED owed

Emitted(u) ==                  \* through emit_error
  \E format \in Format : Leave(exit_code(u), emit_error(u, format))

Bare(code) == Leave(code, [Said EXCEPT !.stderr = <<Line>>])   \* eprintln

To(next) == stage' = next /\ UNCHANGED exitVars

Asks(then) ==                  \* claude for its version
  /\ stage' = "version"
  /\ owed' = then
  /\ UNCHANGED <<said, exit>>

(* The child ended, or could not be run: it may as well never do.          *)
resolve_claude_version ==
  /\ stage = "version"
  /\ \/ owed = "line" /\ Leave(0, [Said EXCEPT !.stdout = <<Line>>])
     \/ owed # "line" /\ Emitted(owed)
  /\ UNCHANGED <<vars, promptVars, configVars, checkVars>>

(***************************************************************************)
(* get_home, and the ways through main that end before the prompt.  What   *)
(* is wrong with HOME is said without a version, and where there is no     *)
(* claude to be found asking it fails at once.                             *)
(***************************************************************************)
get_home ==
  /\ stage = "home"
  /\ To("mode") \/ Emitted("Setup")
  /\ UNCHANGED <<vars, promptVars, configVars, checkVars>>

Mode ==
  /\ stage = "mode"
  /\ \/ Asks("line")                                         \* --version
     \/ To("check")
     \/ Bare(2)                                  \* no claude to be found
     \/ Emitted("Setup")
     \/ To("serve")
     \/ To("prompt")
  /\ UNCHANGED <<vars, promptVars, configVars, checkVars>>

validate_pool_size ==
  /\ stage = "serve"
  /\ Bare(2) \/ To("serving")
  /\ UNCHANGED <<vars, promptVars, configVars, checkVars>>

(***************************************************************************)
(* --check: a row per probe; the round trip through a mock forks a child,  *)
(* and waits for it five seconds.                                          *)
(***************************************************************************)
probe_claude_binary ==
  /\ stage = "check"
  /\ all_pass' \in BOOLEAN
  /\ To("probes")
  /\ UNCHANGED <<vars, promptVars, configVars, mock, fifo>>

Probes ==                      \* openpty and mkfifo; is there a mock?
  /\ stage = "probes"
  /\ all_pass' \in {all_pass, FALSE}
  /\ To("billing") \/ To("mkfifo")
  /\ UNCHANGED <<vars, promptVars, configVars, mock, fifo>>

MockStarts ==
  /\ stage = "mkfifo"
  /\ \/ To("round trip") /\ fifo' = TRUE /\ mock' = "running" /\ UNCHANGED all_pass
     \/ To("billing") /\ all_pass' = FALSE /\ UNCHANGED <<fifo, mock>>
  /\ UNCHANGED <<vars, promptVars, configVars>>

MockExits ==                   \* it may as well never do
  /\ mock = "running"
  /\ mock' = "exited"
  /\ UNCHANGED <<vars, stage, promptVars, configVars, all_pass, fifo, exitVars>>

GivesUpOnMock ==               \* mutant: the child is not waited for
  /\ stage = "round trip"
  /\ To("billing")
  /\ all_pass' \in {all_pass, FALSE}
  /\ fifo' = FALSE
  /\ UNCHANGED <<vars, promptVars, configVars, mock>>

wait_with_timeout ==           \* its exit, or SIGKILL and its exit
  /\ stage = "round trip"
  /\ To("billing")
  /\ mock' = "reaped"
  /\ all_pass' \in IF mock = "exited" THEN {all_pass, FALSE} ELSE {FALSE}
  /\ fifo' = FALSE
  /\ UNCHANGED <<vars, promptVars, configVars>>

Verdict ==                     \* billing entrypoint, and --clean's removals
  /\ stage = "billing"
  /\ \/ all_pass /\ Leave(0, [Said EXCEPT !.stdout = <<Line>>]) /\ UNCHANGED all_pass
     \/ all_pass' = FALSE /\ Leave(2, [stdout |-> <<Line>>, stderr |-> <<Line>>])
  /\ UNCHANGED <<vars, promptVars, configVars, mock, fifo>>

(***************************************************************************)
(* The prompt: from --input-file, which is checked and then read, from the *)
(* command line, which holds no NUL and nothing as long, or from stdin.    *)
(***************************************************************************)
FileChanges ==
  /\ stage \in {"mode", "prompt", "read file"}
  /\ file' \in Files
  /\ edited' = (stage = "read file")
  /\ UNCHANGED <<vars, stage, prompt, configVars, checkVars, exitVars>>

resolve_input_file ==
  /\ stage = "prompt"
  /\ CASE file.kind = "regular" /\ file.size > Limit -> Bare(2)
       [] file.kind = "regular" /\ file.size <= Limit -> To("read file")
       [] OTHER -> Bare(4)
  /\ UNCHANGED <<vars, promptVars, configVars, checkVars>>

Slurp(kind) ==                 \* fs::read asks nothing again
  /\ stage = "read file" /\ file.kind = kind
  /\ \/ file # Absent /\ To("nul")
        /\ prompt' = [size |-> file.size, nul |-> file.nul]
     \/ Bare(4) /\ UNCHANGED prompt
  /\ UNCHANGED <<vars, file, edited, configVars, checkVars>>

ReadFile == Slurp("regular") \/ Slurp("absent")

ReadSpecial == Slurp("special")     \* which may block

Positional ==
  /\ stage = "prompt"
  /\ prompt' \in {b \in Bytes : b.size < Limit /\ ~b.nul}
  /\ To("nul")
  /\ UNCHANGED <<vars, file, edited, configVars, checkVars>>

read_stdin_with_limit ==       \* a chunk of it, its end, or an error
  /\ stage \in {"prompt", "stdin"}
  /\ \/ /\ prompt' \in {b \in Bytes : b.size = prompt.size + 1 /\ (prompt.nul => b.nul)}
        /\ IF prompt'.size > Limit THEN Bare(2) ELSE To("stdin")
     \/ /\ IF prompt.size = 0 THEN Bare(4) ELSE To("nul")
        /\ UNCHANGED prompt
     \/ Bare(4) /\ UNCHANGED prompt
  /\ UNCHANGED <<vars, file, edited, configVars, checkVars>>

Unsearched ==                  \* mutant: the file's NULs are let through
  /\ stage = "nul"
  /\ To("config")
  /\ UNCHANGED <<vars, promptVars, configVars, checkVars>>

find_null_byte ==
  /\ stage = "nul"
  /\ IF prompt.nul THEN Bare(2) ELSE To("config")
  /\ UNCHANGED <<vars, promptVars, configVars, checkVars>>

(***************************************************************************)
(* The config, and the settings: flag before config before default, where  *)
(* two of the flags have a default of their own.                           *)
(***************************************************************************)
Given == {"max_turns", "timeout"}    \* default_value of the command line

Validates(c) == \A s \in Settings : c[s] # "out of range"

load_or_default ==             \* no file is an empty one
  /\ stage = "config"
  /\ \/ \E c \in [Settings -> {"unset", "in range", "out of range"}] :
          /\ configured' = c
          /\ IF Validates(c) THEN To("args") ELSE Asks("Config")
     \/ Asks("Config") /\ UNCHANGED configured      \* no path to it, or unreadable
  /\ UNCHANGED <<vars, promptVars, resolved, checkVars>>

Resolve(s, flags) ==
  CASE s \in flags -> "flag"
    [] s \notin flags /\ s \in Given -> "default"
    [] s \notin flags \cup Given ->
         IF configured[s] = "unset" THEN "default" ELSE "config"

Args ==
  /\ stage = "args"
  /\ \E flags \in SUBSET Settings : resolved' = [s \in Settings |-> Resolve(s, flags)]
  /\ To("acquire") \/ To("launch")                   \* --pool-socket, or none
  /\ UNCHANGED <<vars, promptVars, configured, checkVars>>

(***************************************************************************)
(* The pool, the drive, the exit.                                          *)
(***************************************************************************)
Acquires ==
  /\ stage = "acquire"
  /\ Client \/ Deadline
  /\ CASE drives' = "nothing" -> To("acquire")
       [] drives' = "exit 2" -> Asks("Setup")
       [] OTHER -> To("launch")
  /\ UNCHANGED <<promptVars, configVars, checkVars>>

(* Either session asks claude for its version before it drives, a pooled   *)
(* one with its worker in hand; without an answer it ends as an Internal   *)
(* error, which is one of the ways a drive ends.                           *)
session_version ==
  /\ stage = "launch"
  /\ To("drive")
  /\ UNCHANGED <<vars, promptVars, configVars, checkVars>>

Returns ==                     \* run_pooled releases before it returns
  /\ stage = "drive" /\ pc = "driving"
  /\ Release
  /\ UNCHANGED <<stage, promptVars, configVars, checkVars, exitVars>>

Exits ==
  /\ stage = "drive" /\ pc # "driving"
  /\ \/ \E format \in Format : Leave(0, emit_success(format))
     \/ Bare(2)                                      \* stdout is gone
     \/ \E e \in SessionError : Asks(user_error(e))
  /\ UNCHANGED <<vars, promptVars, configVars, checkVars>>

DaemonSteps ==
  /\ Daemon
  /\ UNCHANGED <<stage, promptVars, configVars, checkVars, exitVars>>

Ended == stage \in {"exited", "serving"} /\ UNCHANGED dvars

Main ==
  \/ get_home \/ Mode \/ validate_pool_size
  \/ probe_claude_binary \/ Probes \/ MockStarts \/ wait_with_timeout \/ Verdict
  \/ resolve_input_file \/ ReadFile \/ Positional \/ find_null_byte
  \/ load_or_default \/ Args \/ Acquires \/ Returns \/ Exits

DNext ==
  \/ Main \/ resolve_claude_version \/ session_version
  \/ read_stdin_with_limit \/ ReadSpecial \/ MockExits \/ FileChanges \/ DaemonSteps
  \/ Ended

(* main is scheduled, the clock of the acquire runs and a drive, once      *)
(* begun, ends (SessionDrive says when); nobody has to end stdin, or what  *)
(* an input file was replaced by, and claude need not tell its version.    *)
DSpec ==
  /\ DInit /\ [][DNext]_dvars
  /\ WF_dvars(Main)
  /\ WF_dvars(Acquires /\ Deadline)

-----------------------------------------------------------------------------
(***************************************************************************)
(* Properties.                                                             *)
(***************************************************************************)
(* What is driven passed every check: no NUL, nothing over the limit but a *)
(* file that changed once it had been checked, no setting out of range.    *)
DrivenAsChecked ==
  stage \in {"launch", "drive"} =>
    /\ ~prompt.nul
    /\ prompt.size <= Limit \/ edited
    /\ \A s \in Settings : resolved[s] = "config" => configured[s] = "in range"

(* No invocation that found no prompt to drive takes a worker along, and   *)
(* the self-test leaves no child and no FIFO behind, whatever its mock is  *)
(* doing when the five seconds are over.                                   *)
LeavesNothing ==
  stage = "exited" =>
    /\ exit = 4 => pc = "connect" /\ worker # "in_use"
    /\ mock \in {"none", "reaped"}
    /\ ~fifo

(* Every invocation whose drive ends ends itself, or serves, unless it     *)
(* waits for the end of what its prompt is read from or, with no limit of  *)
(* time, for claude to tell its version: a hung daemon never stalls it     *)
(* past the acquire budget.                                                *)
AwaitsInput == stage \in {"stdin", "read file"}

AwaitsVersion == stage \in {"version", "launch"}

InvocationEnds ==
  \/ <>(stage \in {"exited", "serving"})
  \/ <>[]AwaitsInput
  \/ <>[]AwaitsVersion
=============================================================================
