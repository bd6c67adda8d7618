------------------------------ MODULE Messages ------------------------------
(***************************************************************************)
(* What a caller says of a message and what leaves for Mast:               *)
(* rust/src/message.rs, and the operations of rust/src/channel.rs that     *)
(* send.  A message is built call by call, in any order; the operation     *)
(* adds to it, into_form() checks it, and either refuses it here or hands  *)
(* over the form of one request.                                           *)
(*                                                                         *)
(* A text is its length in characters and the scheme it begins with.       *)
(* Durations are in halves of a second.                                    *)
(***************************************************************************)
EXTENDS Integers, Sequences

CONSTANTS
    Offers,         \* Offers[field]: what callers pass to that builder method
    Keys,           \* what they pass to resolve_key
    MessageIds,     \* what they pass to resolve_message
    Void,           \* a field that is not set
    Off,            \* a duration that is turned off
    Setters         \* bound: builder calls on one message

Text       == [chars : Nat, scheme : {"http", "https", "none"}]
Priorities == {"quiet", "normal", "loud", "page"}
Sounds     == {"default", "bleep", "chirp", "klaxon", "pager", "rising"}

Message == [title : Text \cup {Void}, body : Text \cup {Void},
            priority : Priorities \cup {Void}, sound : Sounds \cup {Void},
            url : Text \cup {Void}, url_title : Text \cup {Void},
            callback : Text \cup {Void}, dedupe_key : Text \cup {Void},
            retry : Nat \cup {Off, Void}, expire : Nat \cup {Off, Void},
            ack : BOOLEAN, silent : BOOLEAN,
            timestamp : Int \cup {Void}, resolve : {"1", "id", Void}]

Fields == { "title", "body", "priority", "sound", "url", "url_title", "callback",
            "dedupe_key", "retry", "expire", "ack", "silent", "timestamp" }

Operations == {"send", "page", "ping", "fail", "resolve_key", "resolve_message"}

Forms == [title : Text \cup {Void}, body : Text \cup {Void}, url_title : Text \cup {Void},
          key : Text \cup {Void}, priority : Priorities \cup {Void},
          sound : Sounds \cup {Void}, url : Text \cup {Void}, callback : Text \cup {Void},
          retry : Nat \cup {Void}, expire : Nat \cup {Void}, ack : {"required", Void},
          silent : {"1", Void}, timestamp : Int \cup {Void}, resolve : {"1", "id", Void}]

(* What a refusal names: a field of the form, or the operation's argument.  *)
Refusals == { "title", "body", "url_title", "key", "url", "callback", "retry",
              "expire", "silent", "argument" }

Outcome == [op : Operations, refused : Refusals \cup {Void}, form : Forms \cup {Void}]

Literals == Refusals \cup Priorities \cup Sounds \cup {"1", "id", "required"}

(* An id or a key on paper: its prefix, how many digits follow, and whether *)
(* all of them are small hexadecimal digits.                               *)
Name == [prefix : {"mm_", "mk_", "other"}, digits : Nat, hex : BOOLEAN]

ASSUME OfferAssumption ==
    /\ DOMAIN Offers = Fields
    /\ \A f \in {"title", "body", "url", "url_title", "callback", "dedupe_key"} :
          Offers[f] \subseteq Text
    /\ Offers["priority"] \subseteq Priorities /\ Offers["sound"] \subseteq Sounds
    /\ \A f \in {"retry", "expire"} : Offers[f] \subseteq Nat \cup {Off}
    /\ \A f \in {"ack", "silent"} : Offers[f] \subseteq {TRUE}
    /\ Offers["timestamp"] \subseteq Int
ASSUME ArgumentAssumption == Keys \subseteq Text /\ MessageIds \subseteq Name
                             /\ Setters \in Nat
ASSUME VoidAssumption ==
    /\ Void # Off
    /\ {Void, Off} \cap (Text \cup Literals \cup Int) = {}
    /\ Void \notin Outcome

VARIABLES
    message,        \* the message as far as it is built
    setters,        \* builder calls made
    outcome,        \* what became of it, or Void
    requests        \* requests it cost the channel

vars == << message, setters, outcome, requests >>
-----------------------------------------------------------------------------
MaxTitle == 250
MaxBody  == 4096
MaxUrl   == 512
MaxKey   == 120
MinRetry  == 30
MaxRetry  == 86400
MinExpire == 60
MaxExpire == 604800

Matches(name, prefix, digits) == name.prefix = prefix /\ name.digits = digits /\ name.hex

IsMessageId(name) == Matches(name, "mm_", 32)

Seconds(d) == IF d = Void THEN Void ELSE IF d = Off THEN 0 ELSE d \div 2

\* Mutant: a text of the very length the server takes is refused.
AtLimit(text, limit) == text # Void /\ text.chars >= limit

Over(text, limit) == text # Void /\ text.chars > limit

Barred(text, schemes) == text # Void /\ text.scheme \notin schemes

Timed(d) == d \notin {Void, Off}

Broken(d) == Timed(d) /\ d % 2 # 0

Outside(d, low, high) == Timed(d) /\ (d < 2 * low \/ d > 2 * high)

\* Mutant: silence is weighed against ack alone.
NoisyByAck(m) == m.ack

Noisy(m) == m.ack \/ m.priority = "page"

(* What into_form looks at, in its order, by the name a refusal has.        *)
Checked == << "title", "body", "url_title", "key", "url", "callback",
              "retry", "expire", "silent" >>

Fails(m, name) ==
    \/ name = "title"     /\ Over(m.title, MaxTitle)
    \/ name = "body"      /\ Over(m.body, MaxBody)
    \/ name = "url_title" /\ Over(m.url_title, MaxTitle)
    \/ name = "key"       /\ Over(m.dedupe_key, MaxKey)
    \/ name = "url"       /\ (Over(m.url, MaxUrl) \/ Barred(m.url, {"http", "https"}))
    \/ name = "callback"  /\ (Over(m.callback, MaxUrl) \/ Barred(m.callback, {"https"}))
    \/ name = "retry"     /\ (Broken(m.retry) \/ Outside(m.retry, MinRetry, MaxRetry))
    \/ name = "expire"    /\ (Broken(m.expire) \/ Outside(m.expire, MinExpire, MaxExpire))
    \/ name = "silent"    /\ m.silent /\ Noisy(m)

(* The first that fails, or Void.                                           *)
Refusal(m) ==
    LET failed == { i \in DOMAIN Checked : Fails(m, Checked[i]) }
    IN  IF failed = {} THEN Void
        ELSE Checked[CHOOSE i \in failed : \A j \in failed : i <= j]

(* The form, Void for a field that is left out: a field that was set to an  *)
(* empty text is in it.                                                    *)
Form(m) ==
    [title |-> m.title, body |-> m.body, url_title |-> m.url_title,
     key |-> m.dedupe_key, priority |-> m.priority, sound |-> m.sound,
     url |-> m.url, callback |-> m.callback,
     retry |-> Seconds(m.retry), expire |-> Seconds(m.expire),
     ack |-> IF m.ack THEN "required" ELSE Void,
     silent |-> IF m.silent THEN "1" ELSE Void,
     timestamp |-> m.timestamp, resolve |-> m.resolve]
-----------------------------------------------------------------------------
New == [title |-> Void, body |-> Void, priority |-> Void, sound |-> Void,
        url |-> Void, url_title |-> Void, callback |-> Void, dedupe_key |-> Void,
        retry |-> Void, expire |-> Void, ack |-> FALSE, silent |-> FALSE,
        timestamp |-> Void, resolve |-> Void]

Init == message = New /\ setters = 0 /\ outcome = Void /\ requests = 0

(* A builder method: the last word on a field is the one that counts.       *)
Set(field, value) ==
    /\ outcome = Void /\ setters < Setters
    /\ message' = [message EXCEPT ![field] = value]
    /\ setters' = setters + 1
    /\ UNCHANGED << outcome, requests >>

(* into_form and what the operation does with it: a request, or none.       *)
Finish(op, m) ==
    LET refused == Refusal(m)
    IN  /\ outcome = Void
        /\ message' = m
        /\ outcome' = [op |-> op, refused |-> refused,
                       form |-> IF refused = Void THEN Form(m) ELSE Void]
        /\ requests' = IF refused = Void THEN requests + 1 ELSE requests
        /\ UNCHANGED setters

(* An argument the operation refuses before it looks at the message.        *)
Refuse(op, argument) ==
    /\ outcome = Void
    /\ outcome' = [op |-> op, refused |-> argument, form |-> Void]
    /\ UNCHANGED << message, setters, requests >>

Send == Finish("send", message)
Ping == Finish("ping", message)
Fail == Finish("fail", message)

Page == Finish("page", [message EXCEPT !.priority = "page"])

ResolveKey(key) ==
    IF key.chars = 0 THEN Refuse("resolve_key", "argument")
    ELSE Finish("resolve_key", [message EXCEPT !.dedupe_key = key, !.resolve = "1"])

ResolveMessage(id) ==
    IF ~ IsMessageId(id) THEN Refuse("resolve_message", "argument")
    ELSE Finish("resolve_message", [message EXCEPT !.resolve = "id"])

Next == \/ \E field \in Fields : \E value \in Offers[field] : Set(field, value)
        \/ Send \/ Page \/ Ping \/ Fail
        \/ \E key \in Keys : ResolveKey(key)
        \/ \E id \in MessageIds : ResolveMessage(id)

Spec == Init /\ [][Next]_vars
-----------------------------------------------------------------------------
(* Mast, as the READMEs and the comments of the clients describe what it    *)
(* takes.  The limit of 16 KiB on the whole form is not among it: nothing   *)
(* here looks at the size of a form.                                       *)
Within(text, limit) == text = Void \/ text.chars \in 0 .. limit

TextsFit(form) ==
    /\ Within(form.title, 250) /\ Within(form.url_title, 250)
    /\ Within(form.body, 4096) /\ Within(form.key, 120)
    /\ Within(form.url, 512) /\ Within(form.callback, 512)

LinksFit(form) ==
    /\ form.url # Void => form.url.scheme \in {"http", "https"}
    /\ form.callback # Void => form.callback.scheme \in {"https"}

TimesFit(form) ==
    /\ form.retry \in {Void, 0} \/ (30 <= form.retry /\ form.retry <= 86400)
    /\ form.expire \in {Void, 0} \/ (60 <= form.expire /\ form.expire <= 604800)

SilenceFits(form) == form.silent = "1" => form.ack = Void /\ form.priority # "page"

ResolveFits(form) == form.resolve = "1" => form.key # Void /\ form.key.chars > 0

Takes(form) == /\ TextsFit(form) /\ LinksFit(form) /\ TimesFit(form)
               /\ SilenceFits(form) /\ ResolveFits(form)

Sent == outcome # Void /\ outcome.refused = Void

(* Types, and that a message costs the channel one request or none.         *)
TypeOK ==
    /\ message \in Message /\ setters \in 0 .. Setters
    /\ outcome \in Outcome \cup {Void}
    /\ requests = IF Sent THEN 1 ELSE 0

(* "Anything the server would refuse is refused here first, so a doomed     *)
(* send does not spend one of the channel's requests": whatever was set, in *)
(* whatever order, and whatever the operation adds at the end.             *)
DoomedStayHere == Sent => Takes(outcome.form)

(* And nothing else is refused: a message that stays here is one Mast would *)
(* not take, or has a duration no whole number of seconds says, or one of  *)
(* no time at all, which on the wire would turn it off, or went with an    *)
(* argument that cannot be.                                                *)
RefusedWereDoomed ==
    outcome # Void /\ ~ Sent =>
        \/ outcome.refused = "argument"
        \/ \E f \in {"retry", "expire"} :
               outcome.refused = f /\ (Broken(message[f]) \/ message[f] = 0)
        \/ ~ Takes(Form(message))

(* What page() and the resolves say they do is what the form says, over     *)
(* anything the builder was told: a page rings, a resolve has its target.   *)
OperationPrevails ==
    Sent =>
        /\ outcome.op = "page" => outcome.form.priority = "page" /\ outcome.form.silent = Void
        /\ outcome.op = "resolve_key" => outcome.form.resolve = "1" /\ outcome.form.key \in Keys
        /\ outcome.op = "resolve_message" => outcome.form.resolve = "id"
=============================================================================
