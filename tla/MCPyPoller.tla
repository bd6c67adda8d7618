----------------------------- MODULE MCPyPoller -----------------------------
(* Two pages, a window of four seconds that holds two requests, a ladder of *)
(* three rungs, and a clock that has run for a while before the poller does. *)
EXTENDS PyPoller

CONSTANTS a, b

Pages    == {a, b}
Patience == {None, 0, 2}
=============================================================================
