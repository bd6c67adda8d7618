----------------------------- MODULE MCJsPoller -----------------------------
(* Two calls that may overlap, two pages or one, a window of four seconds,  *)
(* and a ladder of three rungs.  A run has all the time in the world or no  *)
(* more than one tick.                                                     *)
EXTENDS JsPoller

CONSTANTS a, b, x, y

Pages    == {a, b}
Lone     == {a}
Two      == {x, y}
Patience == {None, 0}
=============================================================================
