---------------------------- MODULE TerminalEmu ----------------------------
(***************************************************************************)
(* The terminal emulator (src/src/terminal.rs): it looks for five probes   *)
(* in the output of the TUI, byte by byte, and answers each kind once.     *)
(* A byte is a string, those it does not compare with are any of Others.   *)
(***************************************************************************)
EXTENDS Naturals, SequencesExt

CONSTANT MAX_PROBE_LEN   (* 32 *)

(* No probe is longer than ESC [ and three bytes. *)
ASSUME TerminalEmuAssumption ==
  MAX_PROBE_LEN \in Nat /\ MAX_PROBE_LEN >= 5

ProbeKind == {"DA1", "DA2", "DSR", "XTVersion", "WinSize"}

Final == {"c", "n", "q", "t", "m"}               \* 0x40-0x7E, "[" apart
Body == {"0", "1", "6", "8", ">", ";"}           \* 0x20-0x3F
Others == {"ESC", "LF"}

(* TerminalEmu, and what it wrote back.                                    *)
NewEmu == [partial |-> <<>>, answered |-> {}, replies |-> <<>>]

check_state(buf) ==
  CASE Len(buf) = 1 -> "Incomplete"
    [] Len(buf) = 2 -> IF buf[2] = "[" THEN "Incomplete" ELSE "Invalid"
    [] Len(buf) > 2 ->
         CASE Last(buf) \in Final \cup {"["} -> "Complete"
           [] Last(buf) \in Body -> "Incomplete"
           [] OTHER -> "Invalid"

Spells(kind) ==                \* what may follow ESC [
  CASE kind = "DA1" -> {<<"c">>, <<"0", "c">>}
    [] kind = "DA2" -> {<<">", "c">>, <<">", "0", "c">>}
    [] kind = "DSR" -> {<<"6", "n">>}
    [] kind = "XTVersion" -> {<<">", "q">>, <<">", "0", "q">>}
    [] kind = "WinSize" -> {<<"1", "8", "t">>}

identify(buf) == {kind \in ProbeKind : SubSeq(buf, 3, Len(buf)) \in Spells(kind)}

emit_response(emu, buf) ==
  LET new == identify(buf) \ emu.answered
  IN [partial |-> <<>>,
      answered |-> emu.answered \cup new,
      replies |-> emu.replies \o SetToSeq(new)]

Reset(emu, bytes) == [emu EXCEPT !.partial = bytes]

feed_dropping(emu, byte) ==    \* mutant: a byte that invalidates is dropped
  LET buf == Append(emu.partial, byte)
  IN CASE emu.partial = <<>> -> Reset(emu, IF byte = "ESC" THEN buf ELSE <<>>)
       [] emu.partial # <<>> /\ Len(buf) <= MAX_PROBE_LEN /\ check_state(buf) = "Incomplete" -> Reset(emu, buf)
       [] emu.partial # <<>> /\ Len(buf) <= MAX_PROBE_LEN /\ check_state(buf) = "Complete" -> emit_response(emu, buf)
       [] OTHER -> Reset(emu, <<>>)

feed_byte(emu, byte) ==
  LET buf == Append(emu.partial, byte)
      started == emu.partial # <<>>
      fits == Len(buf) <= MAX_PROBE_LEN
  IN CASE ~started -> Reset(emu, IF byte = "ESC" THEN buf ELSE <<>>)
       [] started /\ ~fits -> Reset(emu, <<>>)
       [] started /\ fits ->
            CASE check_state(buf) = "Incomplete" -> Reset(emu, buf)
              [] check_state(buf) = "Complete" -> emit_response(emu, buf)
              [] check_state(buf) = "Invalid" ->
                   Reset(emu, IF byte = "ESC" THEN <<"ESC">> ELSE <<>>)

feed(emu, chunk) ==
  LET fed[n \in 0..Len(chunk)] ==
        IF n = 0 THEN emu ELSE feed_byte(fed[n - 1], chunk[n])
  IN fed[Len(chunk)]
=============================================================================
