------------------------------- MODULE Answer -------------------------------
(***************************************************************************)
(* From the Stop hook to the exit of the process: the relay writes its     *)
(* payload into the FIFO in pieces, the event loop reads what is there,    *)
(* the payload is parsed and resolved (src/src/poller.rs), the transcript  *)
(* is read (TranscriptRead), a fallback message is stripped of its escape  *)
(* sequences (strip_ansi of src/src/transcript.rs), and main emits the     *)
(* outcome and exits.                                                      *)
(*                                                                         *)
(* A message is a sequence of parts, each a piece of text or an escape     *)
(* sequence; a part is a sequence of the classes of bytes that strip_ansi  *)
(* tells apart.                                                            *)
(***************************************************************************)
EXTENDS TranscriptRead, Emission

CONSTANTS
  MaxPieces,     (* bound: writes the payload takes                        *)
  MaxReads,      (* MAX_FIFO_READ_ITERATIONS (100)                         *)
  Messages       (* what last_assistant_message may hold                   *)

Byte == {"esc", "bel", "[", "]", "\\", "intermediate", "param", "final",
         "lead", "cont"}

ASSUME AnswerAssumption ==
  /\ MaxPieces \in Nat \ {0}
  /\ MaxReads \in Nat \ {0}
  /\ \A m \in Messages : \A i \in DOMAIN m : m[i] \in Seq(Byte)

VARIABLES
  place,         (* "poll", "reading", "resolve", "read", "exited"         *)
  pieces,        (* writes this payload takes                              *)
  piped,         (* pieces the relay has written                           *)
  taken,         (* pieces the event loop has read                         *)
  reads,         (* calls of read                                          *)
  located,       (* the path in the StopInfo names the transcript          *)
  message,       (* the last_assistant_message that stood in, once one did *)
  said,          (* what main wrote                                        *)
  exit           (* the exit code; 134 is an abort                         *)

loopVars == <<place, pieces, piped, taken, reads, located>>
exitVars == <<message, said, exit>>
avars == <<vars, loopVars, exitVars>>

Running == 999

AInit ==
  /\ Init
  /\ place = "poll"
  /\ pieces \in 1..MaxPieces
  /\ piped = 0
  /\ taken = 0
  /\ reads = 0
  /\ located = TRUE
  /\ message = <<>>
  /\ said = Said
  /\ exit = Running

(***************************************************************************)
(* The FIFO.  hook.sh is a cat: it writes as its own input comes.  The     *)
(* loop reads until nothing is left for the moment: its own keeper holds   *)
(* the write end open, and the end of the file never shows.                *)
(***************************************************************************)
HookWrites ==
  /\ piped < pieces
  /\ Len(script) - written <= Lag
  /\ piped' = piped + 1
  /\ UNCHANGED <<vars, place, pieces, taken, reads, located, exitVars>>

ReadsFifo ==
  /\ place \in {"poll", "reading"}
  /\ taken < piped /\ reads < MaxReads
  /\ place' = "reading"
  /\ taken' = taken + 1
  /\ reads' = reads + 1
  /\ UNCHANGED <<vars, pieces, piped, located, exitVars>>

WouldBlock ==
  /\ place = "reading"
  /\ taken = piped \/ reads = MaxReads
  /\ place' = "resolve"
  /\ UNCHANGED <<vars, pieces, piped, taken, reads, located, exitVars>>

(***************************************************************************)
(* The exit: main's match on the result.                                   *)
(***************************************************************************)
Leave(code, words) ==
  /\ place' = "exited"
  /\ exit' = code
  /\ said' = words

(* A write to a stdout that is gone fails: an error's is ignored, a
   success's changes the exit code.                                        *)
Mute(words) == [words EXCEPT !.stdout = <<>>]

ExitError(e) ==
  \E format \in Format :
    LET words == emit_error(user_error(e), format)
    IN \/ Leave(exit_code(user_error(e)), words)
       \/ Leave(exit_code(user_error(e)), Mute(words))

ExitSuccess ==
  \E format \in Format :
    \/ Leave(0, emit_success(format))
    \/ /\ format # "stream-json"
       /\ Leave(2, [Said EXCEPT !.stderr = <<Line>>])

(* The other ways out of the event loop: a signal, a deadline, the child's
   exit, a refused dialog.                                                 *)
OtherEnd ==
  /\ place = "poll"
  /\ \E e \in SessionError \ {"AssistantError"} : ExitError(e)
  /\ UNCHANGED <<vars, pieces, piped, taken, reads, located, message>>

(***************************************************************************)
(* parse_stop_payload and resolve_stop_info.  Part of a JSON object is not *)
(* one.  The path is the payload's own, or is derived from its session and *)
(* cwd, for which HOME must still be there; of a cwd too deep for the slug *)
(* it names a file that claude does not write.                             *)
(***************************************************************************)
Whole == taken = pieces

Unparsable ==
  /\ place = "resolve" /\ ~Whole
  /\ ExitError("Internal")
  /\ UNCHANGED <<vars, pieces, piped, taken, reads, located, message>>

HomeGone ==
  /\ place = "resolve" /\ Whole
  /\ ExitError("Config")
  /\ UNCHANGED <<vars, pieces, piped, taken, reads, located, message>>

Resolves ==
  /\ place = "resolve" /\ Whole
  /\ StopFires
  /\ located' \in BOOLEAN
  /\ place' = "read"
  /\ UNCHANGED <<pieces, piped, taken, reads, exitVars>>

(***************************************************************************)
(* read_transcript_after_stop.                                             *)
(***************************************************************************)
Reads ==
  /\ place = "read" /\ located
  /\ ReadAttempt
  /\ UNCHANGED <<loopVars, exitVars>>

ReadsNothing ==                \* there is no such file
  /\ place = "read" /\ ~located
  /\ HasPath /\ result.outcome = "pending" /\ ~Exhausted
  /\ attempt' = attempt + 1
  /\ UNCHANGED <<childVars, last_is_error, seen, result, loopVars, exitVars>>

GivesUp ==
  /\ place = "read"
  /\ GiveUp \/ SparsePayload
  /\ UNCHANGED <<loopVars, exitVars>>

(***************************************************************************)
(* strip_ansi: a scan that is in text, behind an ESC, within a control     *)
(* sequence, within an OSC or behind an ESC in it, or behind intermediate  *)
(* bytes.                                                                  *)
(***************************************************************************)
Text == [mode |-> "text", out |-> <<>>]

Copy(acc, b) ==
  IF b = "esc" THEN [acc EXCEPT !.mode = "esc"]
               ELSE [mode |-> "text", out |-> Append(acc.out, b)]

Behind(acc, b) ==              \* the byte behind an ESC
  [acc EXCEPT !.mode = CASE b = "[" -> "csi"
                         [] b = "]" -> "osc"
                         [] b = "intermediate" -> "intermediate"
                         [] OTHER -> "text"]

Finals == {"[", "]", "\\", "final"}

Scan(acc, b) ==
  CASE acc.mode = "text" -> Copy(acc, b)
    [] acc.mode = "esc" -> Behind(acc, b)
    [] acc.mode = "csi" ->
         IF b \in Finals THEN [acc EXCEPT !.mode = "text"]
         ELSE IF b \in {"param", "intermediate"} THEN acc
         ELSE Copy(acc, b)
    [] acc.mode = "osc" ->
         [acc EXCEPT !.mode = CASE b = "bel" -> "text"
                                [] b = "esc" -> "osc esc"
                                [] OTHER -> "osc"]
    [] acc.mode = "osc esc" ->
         IF b = "\\" THEN [acc EXCEPT !.mode = "text"] ELSE Behind(acc, b)
    [] acc.mode = "intermediate" ->
         IF b = "intermediate" THEN acc
         ELSE IF b \in Finals \cup {"param"} THEN [acc EXCEPT !.mode = "text"]
         ELSE Copy(acc, b)

NoStrip(m) == m                \* mutant: the fallback is taken as it is

strip_ansi(m) ==
  LET scan[n \in 0..Len(m)] == IF n = 0 THEN Text ELSE Scan(scan[n - 1], m[n])
  IN scan[Len(m)].out

(* Of two bytes, the classes of a character that is not ASCII.             *)
Utf8(s) ==
  \A i \in DOMAIN s :
    /\ s[i] = "lead" => i < Len(s) /\ s[i + 1] = "cont"
    /\ s[i] = "cont" => i > 1 /\ s[i - 1] = "lead"

(***************************************************************************)
(* main.                                                                   *)
(***************************************************************************)
Emits ==
  /\ place = "read"
  /\ \/ result.outcome = "ok" /\ ExitSuccess
     \/ result.outcome = "assistant error" /\ ExitError("AssistantError")
     \/ result.outcome = "internal error" /\ ExitError("Internal")
  /\ UNCHANGED <<vars, pieces, piped, taken, reads, located, message>>

(* from_fallback, for an answer or for what went wrong: what is left after
   the strip must be UTF-8, or expect panics, and the release profile
   aborts.                                                                 *)
Reported ==
  \/ result.outcome = "fallback" /\ ExitSuccess
  \/ result.outcome = "failed fallback" /\ ExitError("AssistantError")

EmitsFallback ==
  /\ place = "read" /\ result.outcome \in Fallbacks
  /\ \E m \in Messages :
       LET text == strip_ansi(FlattenSeq(m))
       IN /\ message' = m
          /\ IF Utf8(text)
             THEN Reported /\ result' = [result EXCEPT !.text = text]
             ELSE Leave(134, Said) /\ UNCHANGED result
  /\ UNCHANGED <<childVars, attempt, last_is_error, seen, pieces, piped, taken, reads, located>>

ChildWrites ==
  /\ place # "exited"
  /\ WriteLine
  /\ UNCHANGED <<loopVars, exitVars>>

Exited == place = "exited" /\ UNCHANGED avars

ANext ==
  \/ ChildWrites \/ HookWrites \/ ReadsFifo \/ WouldBlock
  \/ OtherEnd \/ Unparsable \/ HomeGone \/ Resolves
  \/ Reads \/ ReadsNothing \/ GivesUp \/ Emits \/ EmitsFallback \/ Exited

ASpec == AInit /\ [][ANext]_avars

-----------------------------------------------------------------------------
(* The exit code tells what became of the turn, and what is said agrees    *)
(* with it in every format: 0 only for a turn whose payload was read whole *)
(* and that did not fail, 1 for one that claude flagged as failed, unless  *)
(* the strip of the message that stands in aborted, and one result object  *)
(* at the most, whose is_error is that of the exit code.                   *)
Failed == {"assistant error", "failed fallback"}

ExitTells ==
  place = "exited" =>
    /\ Len(said.stdout) + Len(said.stderr) <= 1
    /\ exit = 0 => /\ result.outcome \in {"ok", "fallback"}
                   /\ taken = pieces
                   /\ said.stderr = <<>>
    /\ exit = 1 <=> exit # 134 /\ result.outcome \in Failed
    /\ exit = 134 => result.outcome \in Fallbacks /\ said = Said
    /\ \A l \in ToSet(said.stdout) :
         /\ l.type = "result" => (l.is_error <=> exit # 0)
         /\ l.type = "line" => exit = 0

(* Of a fallback message the escape sequences are taken out, whole, and    *)
(* nothing else (EC-9): the caller gets its pieces of text, in order, as   *)
(* an answer or as the account of a turn that failed.                      *)
IsText(part) == "esc" \notin ToSet(part)

TextOf(m) ==
  FlattenSeq([i \in DOMAIN m |-> IF IsText(m[i]) THEN m[i] ELSE <<>>])

StripTakesEscapes ==
  result.outcome \in Fallbacks /\ exit \in {0, 1} =>
    result.text = TextOf(message)

(* A turn whose payload carries its answer is never lost to the strip of
   that answer: what is left is UTF-8 (the comment of strip_ansi).         *)
StripKeepsUtf8 == exit # 134
=============================================================================
