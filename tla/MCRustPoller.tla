---------------------------- MODULE MCRustPoller ----------------------------
(* Two pages, a window of four seconds that holds two requests, and a      *)
(* ladder of three rungs.                                                  *)
EXTENDS RustPoller

CONSTANTS a, b

Pages   == {a, b}
Patient == {None, 0, 2}
=============================================================================
