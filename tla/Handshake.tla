----------------------------- MODULE Handshake -----------------------------
(***************************************************************************)
(* What a chunk of the TUI's output goes through: the terminal emulator    *)
(* (TerminalEmu), whose answers are written back, and the startup          *)
(* sequencer (StartupSeq).  The TUI queries the terminal before its first  *)
(* frame, in a burst of probes and other sequences that read(2) may cut    *)
(* anywhere, and hangs until it has an answer to each (docs/notes/         *)
(* terminal-probes.md).                                                    *)
(***************************************************************************)
EXTENDS StartupSeq, TerminalEmu

CONSTANT Burst   (* the bytes the TUI sends                                *)

ASSUME HandshakeAssumption ==
  Burst \in Seq(Final \cup Body \cup Others \cup {"["})

(* The kinds it asks for by its first n bytes: those that ESC [ and the    *)
(* bytes of a probe stand for, wherever they stand.                        *)
Probe(kind, i, j) ==
  /\ Burst[i] = "ESC" /\ i + 2 <= j /\ Burst[i + 1] = "["
  /\ SubSeq(Burst, i + 2, j) \in Spells(kind)

Asked ==
  [n \in 0..Len(Burst) |->
     {kind \in ProbeKind : \E i \in 1..n : \E j \in i..n : Probe(kind, i, j)}]

VARIABLES
  queried,       (* how many bytes of the burst were sent                  *)
  emu            (* the TerminalEmu                                        *)

queryVars == <<queried, emu>>
hvars == <<vars, queryVars>>

HInit ==
  /\ Init
  /\ queried = 0
  /\ emu = NewEmu

(* on_output: both are fed the chunk, one byte or all that there is; any   *)
(* other chunk does what several of one byte do.                           *)
Query ==
  /\ queried < Len(Burst)
  /\ \E n \in {queried + 1, Len(Burst)} :
       /\ emu' = feed(emu, SubSeq(Burst, queried + 1, n))
       /\ queried' = n
  /\ quiet' = 0
  /\ ended' = IF phase = "Waiting" /\ ended # "refuse"
              THEN verdict(capture, 0, bytes_received) ELSE ended
  /\ UNCHANGED <<phase, bytes_received, capture, dialog_detected_at, phase_start,
                 tuiVars, tuiNature>>

Answered ==
  /\ queried = Len(Burst)
  /\ Asked[queried] \subseteq ToSet(emu.replies)

TuiGoesOn == Answered /\ (Paint \/ NextFrame \/ Attach) /\ UNCHANGED queryVars

Polls ==
  /\ PollWaiting \/ PollTrustDismissed
  /\ UNCHANGED queryVars

Time ==
  /\ Quiet \/ PassCeiling \/ PassHardTimeout
  /\ UNCHANGED queryVars

HOver == Settled /\ UNCHANGED hvars

HNext == Query \/ TuiGoesOn \/ Polls \/ Time \/ HOver

(* The loop polls, time passes; the TUI goes on when it can, to its first  *)
(* frame and to the end of each, though it need not repaint.               *)
HSpec ==
  /\ HInit /\ [][HNext]_hvars
  /\ WF_hvars(Polls /\ PollWaiting) /\ WF_hvars(Polls /\ PollTrustDismissed)
  /\ WF_hvars(Time /\ Quiet) /\ WF_hvars(Time /\ PassHardTimeout)
  /\ WF_hvars(Time /\ PassCeiling) /\ WF_hvars(Query)
  /\ WF_hvars(TuiGoesOn /\ Paint) /\ WF_hvars(TuiGoesOn /\ NextFrame /\ LeaveBanner)
  /\ WF_hvars(TuiGoesOn /\ Attach)
-----------------------------------------------------------------------------
(***************************************************************************)
(* Properties.                                                             *)
(***************************************************************************)
(* The TUI never hangs on a query: wherever its burst is cut, and whatever *)
(* precedes a probe (a sequence nobody knows or that is overlong, an ESC   *)
(* that broke another off), each kind it asked for is answered once it has *)
(* been sent, once however often it asked, and no other.                   *)
ProbesAnswered ==
  /\ IsInjective(emu.replies)
  /\ ToSet(emu.replies) = Asked[queried]
=============================================================================
