------------------------------ MODULE PyChannel ------------------------------
(***************************************************************************)
(* How the Python client reads an answer: python/mast_pager/client.py,     *)
(* behind the default opener of urllib, which follows redirects.           *)
(***************************************************************************)
EXTENDS Answers

(* An empty nested or top-level text counts, an empty flat one does not.   *)
Message(body, default) ==
    CASE body.nested # Absent -> body.nested
      [] body.nested = Absent /\ body.flat \notin {Absent, ""} -> body.flat
      [] body.nested = Absent /\ body.flat \in {Absent, ""} /\ body.top # Absent -> body.top
      [] OTHER -> default

(* The timeout is on every read of the socket, the body's included. *)
Returns(answer) == answer.ends \in Endings

(* A body that stalls, an OSError, is read as no JSON. *)
ReadBody(answer) == IF answer.ends = "whole" THEN answer.body ELSE NotJson

(* urllib: a redirect is followed with a GET, which drops a form, so that   *)
(* what comes back is the target's answer to a question nobody asked.  The  *)
(* redirect's own body is taken to be whole.                               *)
Elsewhere == { Said(status, NotJson) : status \in {200, 404, 405} }

Opened(method, answer) ==
    LET followed == IF method = "GET" THEN {301, 302, 303, 307, 308}
                                      ELSE {301, 302, 303}
    IN  IF answer.status \in followed THEN Elsewhere ELSE {answer}

\* Mutant: a server that is down is taken for one that asks to slow down.
RequestSlowsDown(answer) ==
    IF answer.status \in {429, 503} THEN Raises("RateLimited") ELSE Passes(answer)

(* A body short of its length is an HTTPException, which nothing catches.  *)
Request(answer) ==
    CASE answer.ends = "short" -> Raises("Escaped")
      [] answer.ends # "short" /\ answer.status = 429 -> Raises("RateLimited")
      [] answer.ends # "short" /\ answer.status = 404 ->
            Raises(IF Message(ReadBody(answer), NoSuchChannel) = NoSuchMessage
                   THEN "UnknownMessage" ELSE "UnknownChannel")
      [] OTHER -> Passes(answer)

(* A status from 401 to 499 that is none of the above is handed on as sent. *)
Post(answer) ==
    LET heard == Request(answer)
    IN  CASE heard.raised # "nothing"    -> heard.raised
          [] heard.status \in {400, 413} -> "Rejected"
          [] heard.status >= 500         -> "Failed"
          [] OTHER                       -> "ok"

Get(answer) ==
    LET heard == Request(answer)
    IN  CASE heard.raised # "nothing" -> heard.raised
          [] heard.status >= 400      -> "Failed"
          [] OTHER                    -> "ok"

Check(answer) ==
    CASE Get(answer) = "UnknownMessage" -> "ok"
      [] Get(answer) = "ok"             -> "Failed"
      [] OTHER                          -> Get(answer)
=============================================================================
