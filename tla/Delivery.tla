------------------------------ MODULE Delivery ------------------------------
(***************************************************************************)
(* One message on its way to Mast.  A caller sends it through one of the   *)
(* four clients, and sends it again as the clients' documents allow: at    *)
(* will after a refusal, with a dedupe key after anything that leaves it   *)
(* open whether the message was stored.  Mast, the proxies before it and   *)
(* the network are not in this repository; they are what the clients' code *)
(* and comments expect of them.                                            *)
(*                                                                         *)
(* A request the client gave up on may still be on the wire, and reach     *)
(* Mast later.                                                             *)
(***************************************************************************)
EXTENDS Answers, FiniteSets

CONSTANTS
    Clients,            \* the clients a message may go through
    ProxyStatuses,      \* what the proxy before each answers in Mast's place
    BodyEnds,           \* how the bodies each is sent may end
    None,               \* no answer yet
    Attempts            \* bound: calls one caller makes

ASSUME ClientAssumption == Clients \subseteq {"rust", "go", "js", "py"}
ASSUME NetworkAssumption == /\ ProxyStatuses \in [Clients -> SUBSET (300 .. 599)]
                            /\ BodyEnds \in [Clients -> SUBSET Endings]
ASSUME BoundAssumption  == Attempts \in Nat /\ None \notin Answer

VARIABLES
    lib,            \* the client this message goes through
    keyed,          \* whether the message carries a dedupe key
    key,            \* Mast: the channel's key is "good" or "gone"
    stored,         \* Mast: the calls whose message it stored
    cards,          \* Mast: how many cards these opened on the phone
    wire,           \* calls whose request is on its way to Mast
    pc,             \* "idle" or "calling"
    op,             \* op[n]: what call n is, "send" or "check"
    verdict,        \* verdict[n]: what call n ended in, or "none"
    calls,          \* calls made so far
    answer,         \* what came back for the call in flight, or None
    witness         \* history: the key when the call in flight began, and
                    \* whether its answer is Mast's own, whole

server == << lib, keyed, key, stored, cards >>
client == << pc, op, verdict, calls, answer >>
vars   == << server, wire, client, witness >>

Rust == INSTANCE RustChannel
Go   == INSTANCE GoChannel
Js   == INSTANCE JsChannel
Py   == INSTANCE PyChannel

-----------------------------------------------------------------------------
(* The client's part, which the four channel modules define.               *)

Ends(a) == CASE lib = "rust" -> Rust!Returns(a) [] lib = "go" -> Go!Returns(a)
             [] lib = "js"   -> Js!Returns(a)   [] lib = "py" -> Py!Returns(a)

Posted(a) == CASE lib = "rust" -> Rust!Post(a) [] lib = "go" -> Go!Post(a)
               [] lib = "js"   -> Js!Post(a)   [] lib = "py" -> Py!Post(a)

Checked(a) == CASE lib = "rust" -> Rust!Check(a) [] lib = "go" -> Go!Check(a)
                [] lib = "js"   -> Js!Check(a)   [] lib = "py" -> Py!Check(a)

Heard(a) == IF lib # "py" THEN {a}
            ELSE Py!Opened(IF op[calls] = "send" THEN "POST" ELSE "GET", a)

-----------------------------------------------------------------------------
Init == /\ lib \in Clients /\ keyed \in BOOLEAN /\ key = "good"
        /\ stored = {} /\ cards = 0
        /\ wire = {}
        /\ pc = "idle" /\ calls = 0 /\ answer = None
        /\ op = [n \in 1 .. Attempts |-> "none"]
        /\ verdict = [n \in 1 .. Attempts |-> "none"]
        /\ witness = [key |-> "good", mast |-> FALSE]

Sends == { n \in 1 .. calls : op[n] = "send" }

(* The caller: no more once a send was taken, and after a doubt only with   *)
(* a dedupe key.                                                           *)
MaySend == \A n \in Sends : verdict[n] \in Refusals \/ (keyed /\ verdict[n] \in Doubts)

Call(what) ==
    /\ pc = "idle" /\ calls < Attempts
    /\ what = "send" => MaySend
    /\ pc' = "calling" /\ calls' = calls + 1 /\ answer' = None
    /\ op' = [op EXCEPT ![calls + 1] = what]
    /\ wire' = wire \cup {calls + 1}
    /\ witness' = [key |-> key, mast |-> FALSE]
    /\ UNCHANGED << server, verdict >>

(* The call ends with an error the transport raises: no connection, or no   *)
(* answer in time.  What became of the request is anybody's guess.         *)
GiveUp ==
    /\ pc = "calling" /\ answer = None
    /\ verdict' = [verdict EXCEPT ![calls] = "Unreachable"]
    /\ pc' = "idle"
    /\ UNCHANGED << server, wire, op, calls, answer, witness >>

(* The call ends with what the client makes of the answer.  One that reads  *)
(* a body which never ends, with nothing to stop it, does not end.         *)
Return ==
    /\ pc = "calling" /\ answer # None /\ Ends(answer)
    /\ \E heard \in Heard(answer) :
          verdict' = [verdict EXCEPT ![calls] =
              IF op[calls] = "send" THEN Posted(heard) ELSE Checked(heard)]
    /\ pc' = "idle" /\ answer' = None
    /\ UNCHANGED << server, wire, op, calls, witness >>

-----------------------------------------------------------------------------
(* The network and Mast.                                                    *)

Waiting(n) == pc = "calling" /\ n = calls /\ answer = None

(* A reply reaches the call that waits for it; any other goes nowhere.      *)
Reply(n, said, mast) ==
    IF Waiting(n)
    THEN \E ends \in BodyEnds[lib] :
            /\ answer' = [said EXCEPT !.ends = ends]
            /\ witness' = [witness EXCEPT !.mast = mast /\ ends = "whole"]
    ELSE UNCHANGED << answer, witness >>

Lose(n) == /\ n \in wire /\ wire' = wire \ {n}
           /\ UNCHANGED << server, client, witness >>

RevokeKey == /\ key = "good" /\ key' = "gone"
             /\ UNCHANGED << lib, keyed, stored, cards, wire, client, witness >>

Store(n) == /\ stored' = stored \cup {n}
            /\ cards' = IF keyed /\ cards > 0 THEN cards ELSE cards + 1

Arrives(n) == /\ n \in wire /\ wire' = wire \ {n}
              /\ UNCHANGED << lib, keyed, key, pc, op, verdict, calls >>

(* Mast answers without storing: over the limit, a key that does not        *)
(* resolve, a field it will not take, or a fault on this side of the store. *)
MastRefuses(n) ==
    /\ Arrives(n)
    /\ \/ \E status \in {429, 503} : Reply(n, Said(status, Nested("another reason")), TRUE)
       \/ key = "gone" /\ Reply(n, Said(404, Nested(NoSuchChannel)), TRUE)
       \/ /\ key = "good" /\ op[n] = "check"
          /\ Reply(n, Said(404, Nested(NoSuchMessage)), TRUE)
       \/ /\ key = "good" /\ op[n] = "send"
          /\ \E status \in {400, 413} : Reply(n, Said(status, Nested("another reason")), TRUE)
    /\ UNCHANGED << stored, cards >>

(* Mast stores the message, and answers so or fails on the far side.        *)
MastStores(n) ==
    /\ Arrives(n) /\ key = "good" /\ op[n] = "send"
    /\ Store(n)
    /\ \/ Reply(n, Said(200, NotJson), TRUE)
       \/ Reply(n, Said(503, Nested("another reason")), TRUE)

(* A proxy answers.  With a 4xx or a redirect the request went no further;  *)
(* with a 5xx it may be on its way all the same.                           *)
ProxyAnswers(n) ==
    /\ n \in wire /\ Waiting(n)
    /\ \E status \in ProxyStatuses[lib] :
          /\ Reply(n, Said(status, NotJson), FALSE)
          /\ IF status >= 500 THEN wire' \in {wire, wire \ {n}} ELSE wire' = wire \ {n}
    /\ UNCHANGED << server, pc, op, verdict, calls >>

-----------------------------------------------------------------------------
ClientStep == GiveUp \/ Return

Next == \/ \E what \in {"send", "check"} : Call(what)
        \/ ClientStep
        \/ RevokeKey
        \/ \E n \in wire : \/ Lose(n) \/ MastRefuses(n) \/ MastStores(n)
                           \/ ProxyAnswers(n)

Spec == Init /\ [][Next]_vars
-----------------------------------------------------------------------------
(* The verdicts are the client's own; check() never ends in UnknownMessage, *)
(* which it takes for the proof it is after.                               *)
TypeOK ==
    /\ lib \in Clients /\ keyed \in BOOLEAN /\ key \in {"good", "gone"}
    /\ stored \subseteq 1 .. calls /\ wire \subseteq 1 .. calls
    /\ cards \in Nat /\ calls \in 0 .. Attempts
    /\ pc \in {"idle", "calling"}
    /\ op \in [1 .. Attempts -> {"none", "send", "check"}]
    /\ verdict \in [1 .. Attempts -> {"none"} \cup Verdicts]
    /\ \A n \in 1 .. Attempts : op[n] = "check" => verdict[n] # "UnknownMessage"
    /\ answer \in Answer \cup {None}
    /\ witness \in [key : {"good", "gone"}, mast : BOOLEAN]

(* "Returns once Mast has stored it": a send that is told to have been      *)
(* taken was stored.                                                       *)
SentMeansStored == \A n \in Sends : verdict[n] = "ok" => n \in stored

(* A send that is told to have been refused was not stored and never will   *)
(* be, so that it can be mended and sent again.                            *)
RefusedMeansNotStored == \A n \in Sends : verdict[n] \in Refusals => n \notin stored \cup wire

(* Whoever retries as the documents say wakes somebody once: without a      *)
(* dedupe key only what was refused is sent again, and with one the copies  *)
(* fold, the late ones included.                                           *)
AtMostOneCard == cards <= 1

(* check() proves the key: what it passes was good when it was asked.  And  *)
(* it condemns no good key on Mast's own word.                             *)
CheckTellsTheKey ==
    (pc = "idle" /\ calls > 0 /\ op[calls] = "check") =>
        /\ verdict[calls] = "ok" => witness.key = "good" /\ witness.mast
        /\ verdict[calls] = "UnknownChannel" /\ witness.mast => key = "gone"
=============================================================================
