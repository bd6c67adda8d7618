--------------------------- MODULE RequestWindow ---------------------------
(***************************************************************************)
(* What a poller's request budget promises, and nothing of how it is kept: *)
(* requests go out one after another, each at a time of the clock, and in  *)
(* no stretch of the clock shorter than Window do more than Budget of them *)
(* go out.  The four clients state it in their READMEs ("spends at most 30 *)
(* requests a minute") and in the comment on the limiter of each.          *)
(*                                                                         *)
(* The sliding windows of the pollers refine this module; which times they *)
(* can be refined with, the stamps they book or the moments the requests   *)
(* really leave, is what tells the clients apart.                          *)
(***************************************************************************)
EXTENDS Integers, Sequences

CONSTANTS Budget,   \* requests a window may hold: 30 in the clients
          Window,   \* the length of the window: sixty seconds
          Times     \* the readings the clock can have

(* What a poller that refines this module has to say of its constants.     *)
WindowTypes == /\ Budget \in Nat
               /\ Window \in Nat \ {0}
               /\ Times \subseteq Nat

VARIABLE sends      \* the time of every request so far, oldest first

Init == sends = << >>

(* The clock does not run backwards, and the request Budget places back    *)
(* has left the window.                                                    *)
Request(t) == /\ Budget > 0
              /\ Len(sends) > 0 => sends[Len(sends)] <= t
              /\ Len(sends) >= Budget =>
                    t - sends[Len(sends) - Budget + 1] >= Window
              /\ sends' = Append(sends, t)

Next == \E t \in Times : Request(t)

Spec == Init /\ [][Next]_sends
-----------------------------------------------------------------------------
TypeOK == sends \in Seq(Times)

Sorted == \A i, j \in 1 .. Len(sends) : i <= j => sends[i] <= sends[j]

(* Any Budget + 1 requests in a row span a full window: no more than       *)
(* Budget of them fit into less.                                           *)
InWindow == \A i, j \in 1 .. Len(sends) :
                i + Budget <= j => sends[j] - sends[i] >= Window
=============================================================================
