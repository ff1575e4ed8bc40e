------------------------------ MODULE MCAnswer ------------------------------
(* Small instances of Answer for TLC: no transcript, and those of three    *)
(* lines, read at any length, in which a turn's lines are not mixed with   *)
(* another's; messages with one escape sequence of each kind.              *)
EXTENDS Answer

CONSTANTS m1, m2, k1, k2

Event(type, id, usage, text, error) ==
  [type |-> type, id |-> id, usage |-> usage, text |-> text, error |-> error]

User == Event("user", NoId, k1, FALSE, FALSE)
ResultLines == {Event("result", NoId, k1, FALSE, e) : e \in BOOLEAN}
WithIds ==
  {Event("assistant", id, IF id = m1 THEN k1 ELSE k2, t, FALSE) :
     id \in {m1, m2}, t \in BOOLEAN}
WithoutIds ==
  {Event("assistant", NoId, k, t, FALSE) : k \in {k1, k2}, t \in BOOLEAN}

Turns(A) == UNION {[1..n -> ResultLines \cup A] : n \in {0, 3}}

AllScripts ==
  {s \in Turns(WithIds) \cup Turns(WithoutIds) : Unmixed(s)}

(* A turn that calls a tool and one that answers. *)
ToolTurn ==
  {<<Event("assistant", m1, k1, TRUE, FALSE), User,
     Event("assistant", m2, k2, TRUE, FALSE)>>}

Character == <<"lead", "cont">>
Before == <<"final", "param">>
After == Character \o <<"[">>

Sequences ==
  {<<"esc", "[", "final">>, <<"esc", "[", "param", "intermediate", "final">>,
   <<"esc", "]", "param", "bel">>, <<"esc", "]", "lead", "cont", "esc", "\\">>,
   <<"esc", "intermediate", "final">>, <<"esc", "\\">>}

Framed == {<<Before, e, After>> : e \in Sequences}

(* Cut short, and an ESC that begins no sequence. *)
CutShort == {<<Before, e>> : e \in {<<"esc">>, <<"esc", "[", "param">>}}
Lone == {<<<<"final">>, <<"esc">>, Character>>}

AllMessages == Framed \cup CutShort \cup Lone
=============================================================================
