----------------------------- MODULE MCGoPoller -----------------------------
(* Two pages, a window of four seconds that holds two requests, and a      *)
(* ladder of three rungs.                                                  *)
EXTENDS GoPoller

CONSTANTS a, b

Pages == {a, b}
=============================================================================
