--------------------------- MODULE TranscriptRead ---------------------------
(***************************************************************************)
(* Reading the answer after the Stop payload has arrived                   *)
(* (src/src/transcript.rs, read_transcript_after_stop in                   *)
(* src/src/session.rs): the fold over the transcript's lines, and the      *)
(* retries against a child that may still be writing them.                 *)
(*                                                                         *)
(* A line is [type, id, usage, text, error]: what parse_transcript tells   *)
(* apart.  A text is the sequence of the lines whose blocks it joins.      *)
(***************************************************************************)
EXTENDS Integers, FiniteSets, SequencesExt

CONSTANTS
  Scripts,       (* the transcripts the child may write                    *)
  NoId,          (* the id of a line without one                           *)
  MaxRetries,    (* MAX_RETRIES (40)                                       *)
  Lag            (* lines that may still be unwritten when Stop fires      *)

ASSUME TranscriptReadAssumption ==
  /\ MaxRetries \in Nat
  /\ Lag \in Nat
  /\ \A s \in Scripts : Len(s) \in Nat /\ DOMAIN s = 1..Len(s)
  /\ \A s \in Scripts : \A i \in DOMAIN s :
       /\ s[i].type \in {"assistant", "result", "user"}
       /\ s[i].text \in BOOLEAN
       /\ s[i].error \in BOOLEAN

VARIABLES
  script,        (* what the child writes                                  *)
  written,       (* lines written; part of the next does not parse         *)
  payload,       (* "none", or what the Stop payload has: "path",
                    "path and message", "message", "nothing"               *)
  lag,           (* lines unwritten when Stop fired                        *)
  attempt,       (* reads made                                             *)
  last_is_error,
  seen,          (* lines the last read found                              *)
  result         (* [outcome, text, turns, usage]                          *)

childVars == <<script, written, payload, lag>>
readVars == <<attempt, last_is_error, seen, result>>
vars == <<childVars, readVars>>

Pending == [outcome |-> "pending", text |-> <<>>, turns |-> 0, usage |-> <<>>]

Init ==
  /\ script \in Scripts
  /\ written = 0
  /\ payload = "none"
  /\ lag = 0
  /\ attempt = 0
  /\ last_is_error = FALSE
  /\ seen = 0
  /\ result = Pending

(***************************************************************************)
(* parse_transcript: a fold over the first n lines.                        *)
(***************************************************************************)
Empty == [ids |-> {}, prev |-> NoId, text |-> <<>>, turns |-> 0,
          usage |-> <<>>, error |-> FALSE]

is_new_turn(acc, l) ==
  IF l.id # NoId THEN l.id \notin acc.ids ELSE l.usage # acc.prev

Chunk(l, i) == IF l.text THEN <<i>> ELSE <<>>

AssistantKeepsText(acc, l, i) ==     \* mutant: the turn's text is not cleared
  LET new == is_new_turn(acc, l)
  IN [ids |-> acc.ids \cup ({l.id} \ {NoId}),
      prev |-> IF l.id = NoId THEN l.usage ELSE acc.prev,
      text |-> acc.text \o Chunk(l, i),
      turns |-> IF new THEN acc.turns + 1 ELSE acc.turns,
      usage |-> IF new THEN Append(acc.usage, l.usage) ELSE acc.usage,
      error |-> acc.error]

Assistant(acc, l, i) ==
  LET new == is_new_turn(acc, l)
  IN [ids |-> acc.ids \cup ({l.id} \ {NoId}),
      prev |-> IF l.id = NoId THEN l.usage ELSE acc.prev,
      text |-> (IF new THEN <<>> ELSE acc.text) \o Chunk(l, i),
      turns |-> IF new THEN acc.turns + 1 ELSE acc.turns,
      usage |-> IF new THEN Append(acc.usage, l.usage) ELSE acc.usage,
      error |-> acc.error]

Step(acc, i) ==
  LET l == script[i]
  IN CASE l.type = "assistant" -> Assistant(acc, l, i)
       [] l.type = "result" -> [acc EXCEPT !.error = l.error]
       [] l.type = "user" -> acc

parse_transcript[n \in Nat] ==
  IF n = 0 THEN Empty ELSE Step(parse_transcript[n - 1], n)

(***************************************************************************)
(* The child: it appends lines, and its Stop hook fires near the last.     *)
(***************************************************************************)
WriteLine ==
  /\ written < Len(script)
  /\ written' = written + 1
  /\ UNCHANGED <<script, payload, lag, readVars>>

StopFires ==
  /\ payload = "none"
  /\ Len(script) - written <= Lag
  /\ payload' \in {"path", "path and message", "message", "nothing"}
  /\ lag' = Len(script) - written
  /\ UNCHANGED <<script, written, readVars>>

(***************************************************************************)
(* read_transcript_after_stop                                              *)
(***************************************************************************)
HasPath == payload \in {"path", "path and message"}
HasMessage == payload \in {"path and message", "message"}

Exhausted == attempt > MaxRetries

Returned(r, error) ==          \* a result with is_error is no success
  [outcome |-> IF error THEN "assistant error" ELSE "ok",
   text |-> r.text, turns |-> r.turns, usage |-> r.usage]

ReadAttempt ==                 \* one turn of the loop
  /\ HasPath /\ result.outcome = "pending" /\ ~Exhausted
  /\ attempt' = attempt + 1
  /\ seen' = written
  /\ LET r == parse_transcript[written]
     IN /\ last_is_error' = r.error
        /\ result' = IF r.text # <<>> THEN Returned(r, r.error) ELSE result
  /\ UNCHANGED childVars

FallBack(outcome) ==
  [Pending EXCEPT !.outcome = outcome]

Fallbacks == {"fallback", "failed fallback"}

ForgetsError(error) ==         \* mutant: what partial reads saw is lost
  FallBack("fallback")

from_fallback(error) ==        \* the message is stripped in both cases
  FallBack(IF error THEN "failed fallback" ELSE "fallback")

GiveUp ==
  /\ HasPath /\ result.outcome = "pending" /\ Exhausted
  /\ result' = IF HasMessage THEN from_fallback(last_is_error)
                             ELSE FallBack("internal error")
  /\ UNCHANGED <<childVars, attempt, last_is_error, seen>>

SparsePayload ==               \* no path, and none can be derived
  /\ payload \in {"message", "nothing"}
  /\ result.outcome = "pending"
  /\ result' = IF HasMessage THEN from_fallback(FALSE)
                             ELSE FallBack("internal error")
  /\ UNCHANGED <<childVars, attempt, last_is_error, seen>>

Idle == written = Len(script) /\ payload # "none" /\ UNCHANGED vars

Next ==
  \/ WriteLine \/ StopFires
  \/ ReadAttempt \/ GiveUp \/ SparsePayload \/ Idle

Spec == Init /\ [][Next]_vars

(***************************************************************************)
(* Properties                                                              *)
(***************************************************************************)
(* The reference: a turn is the lines of one id, or of one usage where     *)
(* lines have none, and its text that of its lines in their order.         *)
Turn(l) == IF l.id # NoId THEN l.id ELSE l.usage

Identity(i) == Turn(script[i])

Assistants(n) == {i \in 1..n : script[i].type = "assistant"}
Identities(n) == {Identity(i) : i \in Assistants(n)}

(* A transcript whose answers all have an id or none has, and in which the *)
(* lines of a turn have one usage and no other turn's between them.        *)
Unmixed(s) ==
  \A i, j, k \in {n \in DOMAIN s : s[n].type = "assistant"} :
    /\ s[i].usage # NoId
    /\ s[i].id = NoId <=> s[k].id = NoId
    /\ Turn(s[i]) = Turn(s[k]) =>
         /\ s[i].usage = s[k].usage
         /\ i < j /\ j < k => Turn(s[j]) = Turn(s[i])

FinalTurn(n) ==
  {i \in Assistants(n) : Identity(i) = Identity(Max(Assistants(n)))}

Spoken(n) == {i \in FinalTurn(n) : script[i].text}

InOrder(s, T) ==               \* s lists T
  /\ ToSet(s) = T
  /\ \A i, j \in DOMAIN s : i < j => s[i] < s[j]

Answered == result.outcome \in {"ok", "assistant error"} /\ result.text # <<>>

(* What is reported is one turn's whole text, the last that the read       *)
(* found, its chunks in order and no earlier turn's; and tokens are summed *)
(* once per turn, however many chunks it came in.                          *)
FinalTurnText ==
  Answered =>
    /\ InOrder(result.text, Spoken(seen))
    /\ result.turns = Cardinality(Identities(seen))
    /\ ToSet(result.usage) = {script[i].usage : i \in Assistants(seen)}
    /\ Len(result.usage) = result.turns

(* A turn that the transcript's last result event flags as failed is never *)
(* reported as a success, not even through the fallback, and the message   *)
(* of the payload stands in, for an answer or for what went wrong, only    *)
(* where every read of the budget was made and the last one still found no *)
(* text.                                                                   *)
Results(n) == {i \in 1..n : script[i].type = "result"}

ErrorReported ==
  /\ result.outcome \in {"ok", "fallback"} /\ Results(seen) # {} =>
       ~script[Max(Results(seen))].error
  /\ result.outcome \in Fallbacks /\ HasPath =>
       /\ attempt = MaxRetries + 1
       /\ Assistants(seen) # {} => Spoken(seen) = {}
=============================================================================
