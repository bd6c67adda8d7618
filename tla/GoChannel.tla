------------------------------ MODULE GoChannel ------------------------------
(***************************************************************************)
(* How the Go client reads an answer: go/mast.go.                          *)
(***************************************************************************)
EXTENDS Answers

(* The first text that is not empty. *)
Message(body, fallback) ==
    CASE body.nested \notin {Absent, ""} -> body.nested
      [] body.nested \in {Absent, ""} /\ body.flat \notin {Absent, ""} -> body.flat
      [] /\ {body.nested, body.flat} \subseteq {Absent, ""}
         /\ body.top \notin {Absent, ""} -> body.top
      [] OTHER -> fallback

(* The timeout of the client is on the body too. *)
Returns(answer) == answer.ends \in Endings

(* A body that is not whole decodes to nothing. *)
Decode(answer) == IF answer.ends = "whole" THEN answer.body ELSE NotJson

Do(answer) ==
    CASE Redirect(answer)    -> Raises("Unreachable")
      [] answer.status = 429 -> Raises("RateLimited")
      [] answer.status = 404 ->
            Raises(IF Message(Decode(answer), NoSuchChannel) = NoSuchMessage
                   THEN "UnknownMessage" ELSE "UnknownChannel")
      [] OTHER               -> Passes(answer)

\* Mutant: every error status is a refused send.
PostRefuses(answer) ==
    LET heard == Do(answer)
    IN  CASE heard.raised # "nothing" -> heard.raised
          [] heard.status >= 400      -> "Rejected"
          [] OTHER                    -> "ok"

Post(answer) ==
    LET heard == Do(answer)
    IN  CASE heard.raised # "nothing"     -> heard.raised
          [] heard.status \in {400, 413}  -> "Rejected"
          [] heard.status >= 500          -> "Unavailable"
          [] heard.status \in 400 .. 499 \ {400, 413} -> "Failed"
          [] OTHER                        -> "ok"

Get(answer) ==
    LET heard == Do(answer)
    IN  CASE heard.raised # "nothing" -> heard.raised
          [] heard.status >= 400      -> "Failed"
          [] OTHER                    -> "ok"

Check(answer) ==
    CASE Get(answer) = "UnknownMessage" -> "ok"
      [] Get(answer) = "ok"             -> "Failed"
      [] OTHER                          -> Get(answer)
=============================================================================
