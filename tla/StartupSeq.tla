----------------------------- MODULE StartupSeq -----------------------------
(***************************************************************************)
(* The startup handshake with the Claude Code TUI (src/src/startup.rs):     *)
(* what StartupSeq makes of the output it captured and of the clock, and   *)
(* what the keys it sends do to the screen that is really there.           *)
(*                                                                         *)
(* The TUI paints a banner, then its trust dialog (or none, when the       *)
(* directory is trusted), frame over frame, as often as it likes, and      *)
(* reads keys only once a first frame is up.  A screen line is one of the words below, with the   *)
(* caret or without.  The quiet time is a rung of Rungs: what the code     *)
(* compares it with.                                                       *)
(***************************************************************************)
EXTENDS Integers, Sequences, FiniteSets, FiniteSetsExt

CONSTANTS
  Layouts,       (* the dialogs: sequences of "hint", "yes" and "no"       *)
  Banners,       (* how many lines may be painted before it                *)
  IdleLines,     (* IDLE_THRESHOLD_BYTES, in lines                         *)
  CaptureLines   (* CAPTURE_MAX_BYTES, in lines                            *)

ASSUME StartupSeqAssumption ==
  /\ \A l \in Layouts : l \in Seq({"hint", "yes", "no"})
  /\ Banners \subseteq Nat
  /\ {IdleLines, CaptureLines} \subseteq Nat

VARIABLES
  phase,         (* StartupPhase                                           *)
  quiet,         (* now - last_output_at                                   *)
  bytes_received,      (* in lines; no more than IdleLines are told apart  *)
  dialog_detected_at,  (* "never", "recent", or 15 s ago                   *)
  phase_start,   (* "recent", or 45 s ago                                  *)
  capture,       (* the lines retained                                     *)
  ended,         (* what the sequencer asked of the session: nothing yet,
                    "refuse" (it kills the child), or "hard timeout" (it
                    does nothing)                                          *)
  screen,        (* what the TUI shows: "banner", "dialog", "repl", or it
                    has "exited"                                           *)
  layout, sel,   (* its dialog, and the option highlighted                 *)
  drawn,         (* lines painted of this frame                            *)
  attached,      (* it reads its keys                                      *)
  banner,        (* lines of its banner                                    *)
  stalled        (* it fell silent for 400 ms with more to paint           *)

clockVars == <<quiet, dialog_detected_at, phase_start>>
seqVars == <<phase, bytes_received, capture, ended>>
tuiVars == <<screen, layout, sel, drawn, attached>>
tuiNature == <<banner, stalled>>
vars == <<clockVars, seqVars, tuiVars, tuiNature>>

Rungs == [dismiss |-> 1, gap |-> 2, settle |-> 3]   \* 400 ms, 1 s, 2 s

Init ==
  /\ phase = "Waiting"
  /\ quiet = 0
  /\ bytes_received = 0
  /\ dialog_detected_at = "never"
  /\ phase_start = "recent"
  /\ capture = <<>>
  /\ ended = "nothing"
  /\ screen = "banner"
  /\ layout \in Layouts \cup {<<>>}
  /\ sel \in {i \in DOMAIN layout : layout[i] # "hint"} \cup {0}
  /\ sel = 0 <=> layout = <<>>
  /\ drawn = 0
  /\ attached = FALSE
  /\ banner \in Banners
  /\ stalled = FALSE

(***************************************************************************)
(* analyze and plan_dismiss: a scan of a capture.                          *)
(***************************************************************************)
IsEntry(l) == l.caret \/ l.word \in {"yes", "no"}

(* The number of the line i among the entries. *)
Index(c, i) == Cardinality({j \in DOMAIN c : j <= i /\ IsEntry(c[j])})

Has(c, word) == \E i \in DOMAIN c : c[i].word = word

dialog_present(c) ==
  \/ Has(c, "hint")
  \/ Has(c, "yes") /\ Has(c, "no")
  \/ \E i \in DOMAIN c : c[i].caret /\ c[i].word \in {"yes", "no"}

Carets(c) == {i \in DOMAIN c : c[i].caret}
Trusting(c) == {i \in DOMAIN c : c[i].word = "yes"}

caret_index(c) == Index(c, Max(Carets(c)))
trusting_index(c) == Index(c, Max(Trusting(c)))

Identified(c) == Carets(c) # {} /\ Trusting(c) # {}

PlanConfirm(c) == 0            \* mutant: Enter on whatever is highlighted

plan_dismiss(c) == trusting_index(c) - caret_index(c)    \* 0 confirms

(***************************************************************************)
(* What keys do: arrows move among the options, and wrap or stay at an     *)
(* end; Enter chooses.  Keys sent to a TUI that does not read are dropped. *)
(***************************************************************************)
Options == {i \in DOMAIN layout : layout[i] # "hint"}

Place(i) == Cardinality({j \in Options : j <= i})

Landing(delta) ==
  LET aim == {i \in Options : Place(i) = Place(sel) + delta}
  IN IF aim # {} THEN aim
     ELSE {sel, IF delta > 0 THEN Min(Options) ELSE Max(Options)}

Press(delta) ==
  IF screen = "dialog" /\ attached
  THEN /\ sel' \in Landing(delta)
       /\ screen' = IF layout[sel'] = "yes" THEN "repl" ELSE "exited"
       /\ drawn' = 0
       /\ UNCHANGED <<layout, attached>>
  ELSE UNCHANGED tuiVars

(***************************************************************************)
(* waiting_step, at a quiet time q, over the capture c and b bytes.        *)
(***************************************************************************)
detected_at(c) ==
  IF dialog_present(c) /\ dialog_detected_at = "never"
  THEN "recent" ELSE dialog_detected_at

Ceiling == dialog_detected_at = "15 s ago"

RefusesNever(c, q) == FALSE    \* mutant: wait until the entry comes

RefusesUnsettled(c, q) ==      \* mutant: no time is left for it to come
  dialog_present(c) /\ ~Identified(c)

Refuses(c, q) ==
  /\ dialog_present(c)
  /\ IF Identified(c) THEN q < Rungs.dismiss /\ Ceiling
                      ELSE q >= Rungs.settle \/ Ceiling

HardTimesOut(c, b) ==
  ~dialog_present(c) /\ phase_start = "45 s ago" /\ b < IdleLines

verdict(c, q, b) ==
  IF Refuses(c, q) THEN "refuse"
  ELSE IF HardTimesOut(c, b) THEN "hard timeout" ELSE ended

Dismisses(c, q) ==
  dialog_present(c) /\ Identified(c) /\ q >= Rungs.dismiss

FallsBack(c, q, b) ==
  ~dialog_present(c) /\ b >= IdleLines /\ q >= Rungs.dismiss

SendKeys(delta) ==
  /\ phase' = "TrustDismissed"
  /\ quiet' = 0
  /\ Press(delta)

(***************************************************************************)
(* poll_timers, once per pass of the event loop.                           *)
(***************************************************************************)
PollWaiting ==
  /\ phase = "Waiting"
  /\ ended # "refuse"
  /\ dialog_detected_at' = detected_at(capture)
  /\ ended' = verdict(capture, quiet, bytes_received)
  /\ \/ /\ Dismisses(capture, quiet)
        /\ SendKeys(plan_dismiss(capture))
     \/ /\ FallsBack(capture, quiet, bytes_received)
        /\ SendKeys(0)
     \/ /\ ~Dismisses(capture, quiet)
        /\ ~FallsBack(capture, quiet, bytes_received)
        /\ UNCHANGED <<phase, quiet, tuiVars>>
  /\ UNCHANGED <<bytes_received, capture, phase_start, tuiNature>>

PollTrustDismissed ==          \* the payload ends in a carriage return
  /\ phase = "TrustDismissed"
  /\ ended # "refuse"
  /\ quiet >= Rungs.gap
  /\ phase' = "PromptInjected"
  /\ Press(0)
  /\ UNCHANGED <<bytes_received, capture, ended, clockVars, tuiNature>>

(***************************************************************************)
(* The TUI paints, and feed_at takes what it painted.                      *)
(***************************************************************************)
Lines ==                       \* what the current frame consists of
  CASE screen = "banner" ->
         [i \in 1..banner |-> [word |-> "text", caret |-> FALSE]]
    [] screen = "dialog" ->
         [i \in DOMAIN layout |-> [word |-> layout[i], caret |-> i = sel]]
    [] screen = "repl" -> <<[word |-> "text", caret |-> TRUE]>>
    [] screen = "exited" -> <<>>

Retained(c) == SubSeq(c, Max({1, Len(c) - CaptureLines + 1}), Len(c))

Paint ==                       \* no keys: nothing is due at a quiet time of 0
  /\ \E n \in drawn + 1..Len(Lines) :
       /\ drawn' = n
       /\ bytes_received' = Min({IdleLines, bytes_received + n - drawn})
       /\ IF phase = "Waiting" /\ ended # "refuse"
          THEN /\ capture' = Retained(capture \o SubSeq(Lines, drawn + 1, n))
               /\ dialog_detected_at' = detected_at(capture')
               /\ ended' = verdict(capture', 0, bytes_received')
          ELSE UNCHANGED <<capture, dialog_detected_at, ended>>
  /\ quiet' = 0
  /\ UNCHANGED <<phase, phase_start, screen, layout, sel, attached, tuiNature>>

LeaveBanner ==                 \* the first frame
  /\ screen = "banner"
  /\ screen' = IF layout = <<>> THEN "repl" ELSE "dialog"

Repaint ==                     \* the same again, however often
  /\ screen \in {"dialog", "repl"}
  /\ UNCHANGED screen

NextFrame ==
  /\ drawn = Len(Lines)
  /\ LeaveBanner \/ Repaint
  /\ drawn' = 0
  /\ UNCHANGED <<layout, sel, attached, seqVars, clockVars, tuiNature>>

(* By the time it has been quiet for DISMISS_SETTLE_MS it reads its keys.  *)
Attach ==
  /\ screen \in {"dialog", "repl"}
  /\ drawn = Len(Lines)
  /\ ~attached
  /\ attached' = TRUE
  /\ UNCHANGED <<screen, layout, sel, drawn, seqVars, clockVars,
                 tuiNature>>

(***************************************************************************)
(* Time.                                                                   *)
(***************************************************************************)
AtRest ==                      \* nothing more to paint before a key comes
  \/ screen \in {"repl", "exited"}
  \/ screen = "dialog" /\ attached /\ drawn = Len(Lines)

Quiet ==                       \* no output: at rest, or the TUI is held up
  /\ quiet < Rungs.settle
  /\ quiet' = quiet + 1
  /\ stalled' = (stalled \/ ~AtRest)
  /\ UNCHANGED <<dialog_detected_at, phase_start, seqVars, tuiVars, banner>>

PassCeiling ==
  /\ dialog_detected_at = "recent"
  /\ dialog_detected_at' = "15 s ago"
  /\ UNCHANGED <<quiet, phase_start, seqVars, tuiVars, tuiNature>>

PassHardTimeout ==
  /\ phase_start = "recent"
  /\ phase_start' = "45 s ago"
  /\ UNCHANGED <<quiet, dialog_detected_at, seqVars, tuiVars, tuiNature>>

Settled == ended # "nothing" \/ phase = "PromptInjected"

-----------------------------------------------------------------------------
(***************************************************************************)
(* Properties.                                                             *)
(***************************************************************************)
(* The settle time is what the code trusts: a TUI that is silent for       *)
(* DISMISS_SETTLE_MS has painted all it has to paint.  Of one that was     *)
(* not held up so long with more to come: no key the sequencer sends, the  *)
(* prompt's carriage return included, chooses "No, exit" (the keys         *)
(* computed from a capture of several frames land on the trusting entry of *)
(* the screen that is up when they are read), and the prompt is pasted     *)
(* into the REPL, never into a dialog that is up.                          *)
KeysLandAsMeant ==
  ~stalled =>
    /\ screen # "exited"
    /\ phase = "PromptInjected" => screen = "repl"

(* A session is refused only if its dialog has no trusting entry or the    *)
(* TUI did not come to rest in 15 s, never because the entry was late.     *)
TrustableIsNotRefused ==
  ended = "refuse" =>
    Ceiling \/ stalled \/ \A i \in DOMAIN layout : layout[i] # "yes"

(* Whatever the TUI shows, stalled or not, the sequencer comes to an end:  *)
(* the prompt, a refusal, or the report of the hard timeout.  A dialog in  *)
(* the capture is refused at the latest when the ceiling has passed,       *)
(* however the TUI repaints it; without one, and once the keys are sent,   *)
(* no ceiling stands against a TUI that never falls quiet (poll_timers_at, *)
(* waiting_step): only the session's own --timeout ends that wait.         *)
AwaitsQuiet ==
  \/ phase = "TrustDismissed"
  \/ ~dialog_present(capture) /\ bytes_received >= IdleLines

NeverQuiet == []<>(quiet = 0)

StartupEnds == <>Settled \/ (NeverQuiet /\ <>[]AwaitsQuiet)
=============================================================================
