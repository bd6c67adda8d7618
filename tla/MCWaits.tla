------------------------------ MODULE MCWaits ------------------------------
(***************************************************************************)
(* Two waits about one page, one in Rust and one in JavaScript.            *)
(***************************************************************************)
EXTENDS Waits

CONSTANTS r, j

MCLib   == [w \in Callers |-> IF w = r THEN "rust" ELSE "js"]
MCAbout == [w \in Callers |-> "page"]
MCTimeouts == {None, 2}
=============================================================================
