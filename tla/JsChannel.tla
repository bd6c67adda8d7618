------------------------------ MODULE JsChannel ------------------------------
(***************************************************************************)
(* How the JavaScript client reads an answer: javascript/src/mast.js.      *)
(***************************************************************************)
EXTENDS Answers

(* An empty nested or top-level text counts, an empty flat one does not.   *)
ErrorMessage(body, fallback) ==
    CASE body.nested # Absent -> body.nested
      [] body.nested = Absent /\ body.flat \notin {Absent, ""} -> body.flat
      [] body.nested = Absent /\ body.flat \in {Absent, ""} /\ body.top # Absent -> body.top
      [] OTHER -> fallback

(* The timer is cleared with the headers: nothing ends the wait for a body. *)
(* A redirect is given up before its body is read.                         *)
Returns(answer) == answer.ends # "stalled" \/ Redirect(answer)

(* A body that breaks off is no JSON. *)
ReadJson(answer) == IF answer.ends = "whole" THEN answer.body ELSE NotJson

Request(answer) ==
    CASE Redirect(answer)    -> Raises("Unreachable")
      [] answer.status = 429 -> Raises("RateLimited")
      [] answer.status = 404 ->
            Raises(IF ErrorMessage(ReadJson(answer), NoSuchChannel) = NoSuchMessage
                   THEN "UnknownMessage" ELSE "UnknownChannel")
      [] OTHER               -> Passes(answer)

\* Mutant: a 5xx is not an answer to worry about.
PostShrugs(answer) ==
    LET heard == Request(answer)
    IN  CASE heard.raised # "nothing"    -> heard.raised
          [] heard.status \in {400, 413} -> "Rejected"
          [] OTHER                       -> "ok"

(* A status from 401 to 499 that is none of the above is handed on as sent. *)
Post(answer) ==
    LET heard == Request(answer)
    IN  CASE heard.raised # "nothing"    -> heard.raised
          [] heard.status \in {400, 413} -> "Rejected"
          [] heard.status >= 500         -> "Failed"
          [] OTHER                       -> "ok"

Get(answer) ==
    LET heard == Request(answer)
    IN  CASE heard.raised # "nothing" -> heard.raised
          [] heard.status >= 400      -> "Failed"
          [] OTHER                    -> "ok"

Check(answer) ==
    CASE Get(answer) = "UnknownMessage" -> "ok"
      [] Get(answer) = "ok"             -> "Failed"
      [] OTHER                          -> Get(answer)
=============================================================================
