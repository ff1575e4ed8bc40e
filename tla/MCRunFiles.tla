----------------------------- MODULE MCRunFiles -----------------------------
(* Three invocations at a time, each cast one of the meetings that matter. *)
EXTENDS RunFiles, TLC

CONSTANTS r1, r2, r3

Cast(a, b, c) == r1 :> a @@ r2 :> b @@ r3 :> c

Meetings ==
  {Cast("session", "session", "nobody"), Cast("pretrust", "pretrust", "nobody"),
   Cast("serve", "client", "sweeper"), Cast("session", "clean", "sweeper"),
   Cast("session", "check", "nobody")}
=============================================================================
