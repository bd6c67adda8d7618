------------------------------- MODULE Answers -------------------------------
(***************************************************************************)
(* What a client can hear after it sent a request: the status, the human   *)
(* half of the body, and how the body ends: whole, short of its length, or *)
(* stalled with the connection open.  Shared by the four channel modules   *)
(* and by Delivery.                                                        *)
(*                                                                         *)
(* Mast nests its errors, {"error": {"code", "message"}}; other servers    *)
(* and proxies answer {"error": text}, {"message": text}, or no JSON.      *)
(***************************************************************************)
EXTENDS Naturals

NoSuchMessage == "No such message."
NoSuchChannel == "No such channel."
Absent        == "absent"
Texts         == { NoSuchMessage, NoSuchChannel, "another reason", "" }

(* nested: error.message; flat: error itself, a string; top: message. *)
Body == { b \in [nested : Texts \cup {Absent}, flat : Texts \cup {Absent},
                 top : Texts \cup {Absent}] :
            b.nested = Absent \/ b.flat = Absent }

NotJson     == [nested |-> Absent, flat |-> Absent, top |-> Absent]
Nested(txt) == [NotJson EXCEPT !.nested = txt]

Endings == {"whole", "short", "stalled"}
Answer  == [status : 100 .. 599, body : Body, ends : Endings]

Said(status, body) == [status |-> status, body |-> body, ends |-> "whole"]

Redirect(answer) == answer.status \in 300 .. 399

(* What a call can end in.  "Failed" is an error of no particular class     *)
(* (Go's bare error, MastError itself in Python and JavaScript), "Escaped" *)
(* an exception the library does not know.                                 *)
Refusals == {"Rejected", "RateLimited", "UnknownChannel", "UnknownMessage"}
Doubts   == {"Unreachable", "Unavailable", "Failed", "Escaped"}
Verdicts == {"ok"} \cup Refusals \cup Doubts

(* _request either raises one of these or hands on the status.             *)
Raises(verdict) == [raised |-> verdict, status |-> 0]
Passes(answer)  == [raised |-> "nothing", status |-> answer.status]
=============================================================================
