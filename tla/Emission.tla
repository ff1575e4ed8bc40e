------------------------------ MODULE Emission ------------------------------
(***************************************************************************)
(* What an invocation says as it exits: the kinds of error of              *)
(* src/src/error.rs, the match of main.rs on the result of the session,    *)
(* and emit_error and emit_success of src/src/emitter.rs.                  *)
(***************************************************************************)
EXTENDS Naturals, Sequences

Format == {"text", "json", "stream-json"}

(* The variants of Error that a session returns; "Other" stands for those
   that main's last arm takes together.                                    *)
SessionError ==
  {"Interrupted", "Timeout", "Internal", "AssistantError", "Config", "Other"}

UserError == {"Setup", "Config", "Timeout", "Interrupted", "AssistantError"}

NoAssistantArm(e) ==           \* mutant: a failed turn is a failed setup
  IF e \in {"Interrupted", "Timeout"} THEN e ELSE "Setup"

(* main's match: what is not named here becomes Setup, a session's Config
   with it.                                                                *)
user_error(e) ==
  IF e \in {"Interrupted", "Timeout", "AssistantError"} THEN e ELSE "Setup"

exit_code(u) ==
  CASE u \in {"Setup", "Config"} -> 2
    [] u = "Timeout" -> 124
    [] u = "Interrupted" -> 130
    [] u = "AssistantError" -> 1

subtype(u) ==
  CASE u \in {"Setup", "Config"} -> "internal_error"
    [] u = "Timeout" -> "timeout"
    [] u = "Interrupted" -> "interrupted"
    [] u = "AssistantError" -> "assistant_error"

Result(sub, error) == [type |-> "result", subtype |-> sub, is_error |-> error]
Line == [type |-> "line", subtype |-> "none", is_error |-> FALSE]
Said == [stdout |-> <<>>, stderr |-> <<>>]

(* write_error_json goes to stdout, but for a Config to stderr; every call
   passes stream_json_after_inject as true.                                *)
emit_error(u, format) ==
  CASE format = "text" -> [Said EXCEPT !.stderr = <<Line>>]
    [] u = "Config" -> [Said EXCEPT !.stderr = <<Result(subtype(u), TRUE)>>]
    [] OTHER -> [Said EXCEPT !.stdout = <<Result(subtype(u), TRUE)>>]

(* The reader thread has written the lines of a stream already.            *)
emit_success(format) ==
  CASE format = "text" -> [Said EXCEPT !.stdout = <<Line>>]
    [] format = "json" -> [Said EXCEPT !.stdout = <<Result("success", FALSE)>>]
    [] OTHER -> Said
=============================================================================
