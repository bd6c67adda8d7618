---------------------------- MODULE RustChannel ----------------------------
(***************************************************************************)
(* How the Rust client reads an answer: rust/src/channel.rs and the        *)
(* bundled transport of rust/src/transport.rs.                             *)
(***************************************************************************)
EXTENDS Answers

\* Mutant: the error body is read as if Mast did not nest it.
MessageOfTop(body, fallback) ==
    IF body.top \notin {Absent, ""} THEN body.top ELSE fallback

(* An empty text is replaced by the fallback, wherever it was found.       *)
Message(body, fallback) ==
    LET found == CASE body.nested # Absent -> body.nested
                   [] body.flat # Absent   -> body.flat
                   [] OTHER                -> body.top
    IN  IF found \in {Absent, ""} THEN fallback ELSE found

(* The timeout of the transport is on the body too.                         *)
Returns(answer) == answer.ends \in Endings

(* A body that is not whole fails the transport, whatever the status was.  *)
Request(answer) ==
    CASE answer.ends # "whole" \/ Redirect(answer) -> Raises("Unreachable")
      [] answer.ends = "whole" /\ answer.status = 429 -> Raises("RateLimited")
      [] answer.ends = "whole" /\ answer.status = 404 ->
            Raises(IF Message(answer.body, NoSuchChannel) = NoSuchMessage
                   THEN "UnknownMessage" ELSE "UnknownChannel")
      [] OTHER -> Passes(answer)

Post(answer) ==
    LET heard == Request(answer)
    IN  CASE heard.raised # "nothing"     -> heard.raised
          [] heard.status \in {400, 413}  -> "Rejected"
          [] heard.status >= 500          -> "Unavailable"
          [] heard.status \in 400 .. 499  -> "Unreachable"
          [] OTHER                        -> "ok"

Get(answer) ==
    LET heard == Request(answer)
    IN  CASE heard.raised # "nothing" -> heard.raised
          [] heard.status >= 400      -> "Unreachable"
          [] OTHER                    -> "ok"

\* Mutant: every error of the read is handed on.
CheckHandsOn(answer) == IF Get(answer) = "ok" THEN "Unreachable" ELSE Get(answer)

(* The id "check" cannot exist: its own 404 is the proof of the key.        *)
Check(answer) ==
    CASE Get(answer) = "UnknownMessage" -> "ok"
      [] Get(answer) = "ok"             -> "Unreachable"
      [] OTHER                          -> Get(answer)
=============================================================================
