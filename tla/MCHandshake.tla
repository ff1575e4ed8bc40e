---------------------------- MODULE MCHandshake ----------------------------
(* Small instances of Handshake for TLC: dialogs in either order, with a   *)
(* hint between or around the options, and one with nothing to trust;      *)
(* banners below and at the idle threshold; the burst the documents        *)
(* measured, then probes between sequences that are none.                  *)
EXTENDS Handshake

AllLayouts ==
  {<<"hint", "yes", "no">>, <<"no", "yes">>, <<"hint", "no", "yes", "hint">>,
   <<"hint", "no">>}

TwoBanners == {1, 2}

Csi(rest) == <<"ESC", "[">> \o rest

Measured ==
  Csi(<<">", "0", "q">>) \o Csi(<<"c">>) \o Csi(<<"c">>)

Unknown ==
  Csi(<<"1", "6", "t">>) \o <<"ESC">> \o Csi(<<"1", "8", "t">>)
    \o <<"ESC", "[", "6">> \o Csi(<<"6", "n">>)

Overlong ==
  Csi(<<"0", ";", "0", ";", "0", ";", "m">>) \o Csi(<<">", "c">>) \o <<"LF", "c">>

EveryByte == Measured \o Unknown \o Overlong
=============================================================================
