--------------------------- MODULE DeliveryProofs ---------------------------
(***************************************************************************)
(* What is proved of one message on its way to Mast, for any number of     *)
(* calls, whatever the proxies answer, and however the bodies end.         *)
(***************************************************************************)
EXTENDS Delivery, TLAPS

USE DEF server, client, vars

LEMMA Bounds == /\ Attempts \in Nat /\ None \notin Answer
                /\ Clients \subseteq {"rust", "go", "js", "py"}
BY BoundAssumption, ClientAssumption

-----------------------------------------------------------------------------
(* How the clients read an answer, one lemma for each question about it.    *)

(* What a call can end in at all: check never ends in UnknownMessage.       *)
LEMMA VerdictsOfAnswers ==
    ASSUME NEW a \in Answer
    PROVE  /\ {Rust!Post(a), Go!Post(a), Js!Post(a), Py!Post(a)} \subseteq Verdicts
           /\ {Rust!Check(a), Go!Check(a), Js!Check(a), Py!Check(a)}
                 \subseteq Verdicts \ {"UnknownMessage"}
<1>1. a.status \in 100 .. 599
  BY DEF Answer
<1>2. /\ Rust!Post(a) \in Verdicts /\ Rust!Check(a) \in Verdicts \ {"UnknownMessage"}
  BY <1>1 DEF Rust!Post, Rust!Check, Rust!Get, Rust!Request, Rust!Raises, Rust!Passes,
              Verdicts, Refusals, Doubts
<1>3. /\ Go!Post(a) \in Verdicts /\ Go!Check(a) \in Verdicts \ {"UnknownMessage"}
  BY <1>1 DEF Go!Post, Go!Check, Go!Get, Go!Do, Go!Raises, Go!Passes,
              Verdicts, Refusals, Doubts
<1>4. /\ Js!Post(a) \in Verdicts /\ Js!Check(a) \in Verdicts \ {"UnknownMessage"}
  BY <1>1 DEF Js!Post, Js!Check, Js!Get, Js!Request, Js!Raises, Js!Passes,
              Verdicts, Refusals, Doubts
<1>5. /\ Py!Post(a) \in Verdicts /\ Py!Check(a) \in Verdicts \ {"UnknownMessage"}
  BY <1>1 DEF Py!Post, Py!Check, Py!Get, Py!Request, Py!Raises, Py!Passes,
              Verdicts, Refusals, Doubts
<1> QED
  BY <1>2, <1>3, <1>4, <1>5

(* Only an answer with one of four statuses tells a sender of a refusal.    *)
LEMMA RefusalsOfAnswers ==
    ASSUME NEW a \in Answer, a.status \notin {400, 404, 413, 429}
    PROVE  {Rust!Post(a), Go!Post(a), Js!Post(a), Py!Post(a)} \cap Refusals = {}
<1>1. a.status \in 100 .. 599
  BY DEF Answer
<1>2. Rust!Post(a) \notin Refusals
  BY <1>1 DEF Rust!Post, Rust!Request, Rust!Raises, Rust!Passes, Refusals
<1>3. Go!Post(a) \notin Refusals
  BY <1>1 DEF Go!Post, Go!Do, Go!Raises, Go!Passes, Refusals
<1>4. Js!Post(a) \notin Refusals
  BY <1>1 DEF Js!Post, Js!Request, Js!Raises, Js!Passes, Refusals
<1>5. Py!Post(a) \notin Refusals
  BY <1>1 DEF Py!Post, Py!Request, Py!Raises, Py!Passes, Refusals
<1> QED
  BY <1>2, <1>3, <1>4, <1>5

(* The texts Mast and the proxies use: nested, or none.                     *)
Plain(body) == body = NotJson \/ \E text \in Texts : body = Nested(text)

(* check passes on the text of Mast's 404 alone, read to its end, and it     *)
(* tells of an unknown channel, of an answer read to its end, only if that  *)
(* text is not the one.                                                    *)
LEMMA ChecksOfAnswers ==
    ASSUME NEW a \in Answer, Plain(a.body),
           NEW v \in {Rust!Check(a), Go!Check(a), Js!Check(a), Py!Check(a)}
    PROVE  /\ v = "ok" => /\ a.status = 404 /\ a.ends = "whole"
                          /\ a.body = Nested(NoSuchMessage)
           /\ v = "UnknownChannel" /\ a.ends = "whole"
                 => a.status = 404 /\ a.body # Nested(NoSuchMessage)
<1>1. a.status \in 100 .. 599
  BY DEF Answer
<1>2. /\ a.body.flat = "absent" /\ a.body.top = "absent"
      /\ a.body.nested = "No such message." <=> a.body = Nested(NoSuchMessage)
  <2>1. ASSUME NEW text PROVE /\ Nested(text).nested = text
                              /\ Nested(text).flat = "absent" /\ Nested(text).top = "absent"
    BY DEF Nested, NotJson, Absent
  <2>2. /\ NotJson.nested = "absent" /\ NotJson.flat = "absent" /\ NotJson.top = "absent"
    BY DEF NotJson, Absent
  <2>3. CASE a.body = NotJson
    BY <2>1, <2>2, <2>3 DEF NoSuchMessage
  <2>4. CASE \E text \in Texts : a.body = Nested(text)
    <3>1. PICK text \in Texts : a.body = Nested(text)
      BY <2>4
    <3>2. a.body.nested = text /\ a.body.flat = "absent" /\ a.body.top = "absent"
      BY <2>1, <3>1
    <3>3. Nested(NoSuchMessage).nested = "No such message."
      BY <2>1 DEF NoSuchMessage
    <3>4. NoSuchMessage = "No such message."
      BY DEF NoSuchMessage
    <3> QED
      BY <3>1, <3>2, <3>3, <3>4
  <2> QED
    BY <2>3, <2>4 DEF Plain
<1>3. CASE v = Rust!Check(a)
  <2>1. Rust!Message(a.body, Rust!NoSuchChannel) = Rust!NoSuchMessage
           <=> a.body.nested = "No such message."
    BY <1>2 DEF Rust!Message, Rust!Absent, Rust!NoSuchChannel, Rust!NoSuchMessage
  <2>2. /\ Rust!Request(a).raised = "UnknownMessage" =>
             a.status = 404 /\ a.ends = "whole" /\ a.body.nested = "No such message."
        /\ Rust!Request(a).raised = "UnknownChannel" /\ a.ends = "whole" =>
             a.status = 404 /\ a.body.nested # "No such message."
    <3>1. CASE a.status = 404
      <4>1. ~ Rust!Redirect(a)
        BY <3>1 DEF Rust!Redirect
      <4> QED
        BY <2>1, <3>1, <4>1 DEF Rust!Request, Rust!Raises
    <3>2. CASE a.status # 404
      BY <3>2 DEF Rust!Request, Rust!Raises, Rust!Passes
    <3> QED
      BY <3>1, <3>2
  <2>3. /\ v = "ok" => Rust!Request(a).raised = "UnknownMessage"
        /\ v = "UnknownChannel" => Rust!Request(a).raised = "UnknownChannel"
    BY <1>3 DEF Rust!Check, Rust!Get
  <2> QED
    BY <1>2, <2>2, <2>3
<1>4. CASE v = Go!Check(a)
  <2>1. Go!Message(Go!Decode(a), Go!NoSuchChannel) = Go!NoSuchMessage
           <=> a.ends = "whole" /\ a.body.nested = "No such message."
    BY <1>2 DEF Go!Message, Go!Decode, Go!NotJson, Go!Absent, Go!NoSuchChannel, Go!NoSuchMessage
  <2>2. /\ Go!Do(a).raised = "UnknownMessage" =>
             a.status = 404 /\ a.ends = "whole" /\ a.body.nested = "No such message."
        /\ Go!Do(a).raised = "UnknownChannel" /\ a.ends = "whole" =>
             a.status = 404 /\ a.body.nested # "No such message."
    <3>1. CASE a.status = 404
      <4>1. ~ Go!Redirect(a)
        BY <3>1 DEF Go!Redirect
      <4> QED
        BY <2>1, <3>1, <4>1 DEF Go!Do, Go!Raises
    <3>2. CASE a.status # 404
      BY <3>2 DEF Go!Do, Go!Raises, Go!Passes
    <3> QED
      BY <3>1, <3>2
  <2>3. /\ v = "ok" => Go!Do(a).raised = "UnknownMessage"
        /\ v = "UnknownChannel" => Go!Do(a).raised = "UnknownChannel"
    BY <1>4 DEF Go!Check, Go!Get
  <2> QED
    BY <1>2, <2>2, <2>3
<1>5. CASE v = Js!Check(a)
  <2>1. Js!ErrorMessage(Js!ReadJson(a), Js!NoSuchChannel) = Js!NoSuchMessage
           <=> a.ends = "whole" /\ a.body.nested = "No such message."
    BY <1>2 DEF Js!ErrorMessage, Js!ReadJson, Js!NotJson, Js!Absent, Js!NoSuchChannel, Js!NoSuchMessage
  <2>2. /\ Js!Request(a).raised = "UnknownMessage" =>
             a.status = 404 /\ a.ends = "whole" /\ a.body.nested = "No such message."
        /\ Js!Request(a).raised = "UnknownChannel" /\ a.ends = "whole" =>
             a.status = 404 /\ a.body.nested # "No such message."
    <3>1. CASE a.status = 404
      <4>1. ~ Js!Redirect(a)
        BY <3>1 DEF Js!Redirect
      <4> QED
        BY <2>1, <3>1, <4>1 DEF Js!Request, Js!Raises
    <3>2. CASE a.status # 404
      BY <3>2 DEF Js!Request, Js!Raises, Js!Passes
    <3> QED
      BY <3>1, <3>2
  <2>3. /\ v = "ok" => Js!Request(a).raised = "UnknownMessage"
        /\ v = "UnknownChannel" => Js!Request(a).raised = "UnknownChannel"
    BY <1>5 DEF Js!Check, Js!Get
  <2> QED
    BY <1>2, <2>2, <2>3
<1>6. CASE v = Py!Check(a)
  <2>1. Py!Message(Py!ReadBody(a), Py!NoSuchChannel) = Py!NoSuchMessage
           <=> a.ends = "whole" /\ a.body.nested = "No such message."
    BY <1>2 DEF Py!Message, Py!ReadBody, Py!NotJson, Py!Absent, Py!NoSuchChannel, Py!NoSuchMessage
  <2>2. /\ Py!Request(a).raised = "UnknownMessage" =>
             a.status = 404 /\ a.ends = "whole" /\ a.body.nested = "No such message."
        /\ Py!Request(a).raised = "UnknownChannel" /\ a.ends = "whole" =>
             a.status = 404 /\ a.body.nested # "No such message."
    BY <1>1, <2>1 DEF Py!Request, Py!Raises, Py!Passes
  <2>3. /\ v = "ok" => Py!Request(a).raised = "UnknownMessage"
        /\ v = "UnknownChannel" => Py!Request(a).raised = "UnknownChannel"
    BY <1>6 DEF Py!Check, Py!Get
  <2> QED
    BY <1>2, <2>2, <2>3
<1> QED
  BY <1>3, <1>4, <1>5, <1>6

(* What the clients take for a message that was stored: in Rust and in Go   *)
(* a status of success, in JavaScript and Python some others too.           *)
LEMMA PostsOfAnswers ==
    ASSUME NEW a \in Answer
    PROVE  /\ Rust!Post(a) = "ok" => a.status < 300
           /\ Go!Post(a) = "ok" => a.status < 300
           /\ Js!Post(a) = "ok" =>
                 a.status < 300 \/ a.status \in 401 .. 499 \ {404, 413, 429}
           /\ Py!Post(a) = "ok" =>
                 a.status < 400 \/ a.status \in 401 .. 499 \ {404, 413, 429}
<1>1. a.status \in 100 .. 599
  BY DEF Answer
<1>2. Rust!Post(a) = "ok" => a.status < 300
  BY <1>1 DEF Rust!Post, Rust!Request, Rust!Raises, Rust!Passes, Rust!Redirect
<1>3. Go!Post(a) = "ok" => a.status < 300
  BY <1>1 DEF Go!Post, Go!Do, Go!Raises, Go!Passes, Go!Redirect
<1>4. Js!Post(a) = "ok" => a.status < 300 \/ a.status \in 401 .. 499 \ {404, 413, 429}
  BY <1>1 DEF Js!Post, Js!Request, Js!Raises, Js!Passes, Js!Redirect
<1>5. Py!Post(a) = "ok" => a.status < 400 \/ a.status \in 401 .. 499 \ {404, 413, 429}
  BY <1>1 DEF Py!Post, Py!Request, Py!Raises, Py!Passes
<1> QED
  BY <1>2, <1>3, <1>4, <1>5

(* What the client reads is what came back, but for the redirects that      *)
(* urllib follows by itself.                                               *)
LEMMA WhatIsHeard ==
    ASSUME NEW a \in Answer, NEW h \in Heard(a)
    PROVE  /\ h \in Answer
           /\ \/ h = a
              \/ lib = "py" /\ a.status \in 300 .. 399 /\ h.body = NotJson
<1>1. CASE lib # "py"
  BY <1>1 DEF Heard
<1>2. CASE lib = "py"
  <2>1. \/ h = a
        \/ a.status \in 300 .. 399 /\ h \in Py!Elsewhere
    BY <1>2 DEF Heard, Py!Opened
  <2>2. ASSUME h \in Py!Elsewhere PROVE h \in Answer /\ h.body = NotJson
    <3>1. PICK status \in {200, 404, 405} :
             h = [status |-> status, body |-> NotJson, ends |-> "whole"]
      BY <2>2 DEF Py!Elsewhere, Py!Said, Py!NotJson, Py!Absent, NotJson, Absent
    <3>2. NotJson \in Body
      BY DEF NotJson, Body, Texts, Absent
    <3> QED
      BY <3>1, <3>2 DEF Answer, Endings
  <2> QED
    BY <1>2, <2>1, <2>2
<1> QED
  BY <1>1, <1>2
-----------------------------------------------------------------------------
(* What a step of the network brings the caller: nothing, or an answer with *)
(* this status and body, whole or not, that is Mast's own or a proxy's.     *)

Brought(n, status, body, by) ==
    \/ UNCHANGED << answer, witness >>
    \/ /\ Waiting(n) /\ answer' \in Answer
       /\ answer'.status = status /\ answer'.body = body /\ Plain(body)
       /\ witness' \in [key : {"good", "gone"}, mast : BOOLEAN]
       /\ witness'.key = witness.key
       /\ witness'.mast <=> by = "mast" /\ answer'.ends = "whole"

LEMMA WhatIsSaid ==
    ASSUME NEW status \in 100 .. 599, NEW body, Plain(body)
    PROVE  /\ Said(status, body) \in Answer
           /\ Said(status, body).status = status /\ Said(status, body).body = body
<1>1. NotJson \in Body /\ \A t \in Texts : Nested(t) \in Body
  BY DEF NotJson, Nested, Body, Texts, Absent
<1> QED
  BY <1>1 DEF Said, Answer, Endings, Plain

LEMMA Arriving ==
    ASSUME TypeOK, NEW said \in Answer, NEW ends \in BodyEnds[lib],
           answer' = [said EXCEPT !.ends = ends]
    PROVE  /\ answer' \in Answer /\ answer'.status = said.status
           /\ answer'.body = said.body /\ answer'.ends = ends
<1>1. lib \in Clients
  BY DEF TypeOK
<1>2. ends \in Endings
  BY <1>1, NetworkAssumption
<1> QED
  BY <1>2 DEF Answer

(* Reply, of Mast and of a proxy, without its truth-valued parameter.       *)
MastReplies(n, said) ==
    IF Waiting(n)
    THEN \E ends \in BodyEnds[lib] :
            /\ answer' = [said EXCEPT !.ends = ends]
            /\ witness' = [witness EXCEPT !.mast = TRUE /\ ends = "whole"]
    ELSE UNCHANGED << answer, witness >>

ProxyReplies(n, said) ==
    IF Waiting(n)
    THEN \E ends \in BodyEnds[lib] :
            /\ answer' = [said EXCEPT !.ends = ends]
            /\ witness' = [witness EXCEPT !.mast = FALSE /\ ends = "whole"]
    ELSE UNCHANGED << answer, witness >>

LEMMA MastBrings ==
    ASSUME TypeOK, NEW n, NEW status \in 100 .. 599, NEW body, Plain(body),
           MastReplies(n, Said(status, body))
    PROVE  Brought(n, status, body, "mast")
<1>1. CASE ~ Waiting(n)
  BY <1>1 DEF MastReplies, Brought
<1>2. CASE Waiting(n)
  <2>1. PICK ends \in BodyEnds[lib] :
           /\ answer' = [Said(status, body) EXCEPT !.ends = ends]
           /\ witness' = [witness EXCEPT !.mast = TRUE /\ ends = "whole"]
    BY <1>2 DEF MastReplies
  <2>2. /\ answer' \in Answer /\ answer'.status = status /\ answer'.body = body
        /\ answer'.ends = ends
    <3>1. /\ Said(status, body) \in Answer
          /\ Said(status, body).status = status /\ Said(status, body).body = body
      BY WhatIsSaid
    <3>2. answer' = [Said(status, body) EXCEPT !.ends = ends]
      BY <2>1
    <3> QED
      BY <3>1, <3>2, Arriving
  <2>3. /\ witness' \in [key : {"good", "gone"}, mast : BOOLEAN]
        /\ witness'.key = witness.key /\ (witness'.mast <=> ends = "whole")
    BY <2>1 DEF TypeOK
  <2> QED
    BY <1>2, <2>2, <2>3 DEF Brought
<1> QED
  BY <1>1, <1>2

LEMMA ProxyBrings ==
    ASSUME TypeOK, NEW n, NEW status \in 100 .. 599,
           ProxyReplies(n, Said(status, NotJson))
    PROVE  Brought(n, status, NotJson, "proxy")
<1>1. CASE ~ Waiting(n)
  BY <1>1 DEF ProxyReplies, Brought
<1>2. CASE Waiting(n)
  <2>0. Plain(NotJson)
    BY DEF Plain
  <2>1. PICK ends \in BodyEnds[lib] :
           /\ answer' = [Said(status, NotJson) EXCEPT !.ends = ends]
           /\ witness' = [witness EXCEPT !.mast = FALSE /\ ends = "whole"]
    BY <1>2 DEF ProxyReplies
  <2>2. answer' \in Answer /\ answer'.status = status /\ answer'.body = NotJson
    <3>1. /\ Said(status, NotJson) \in Answer
          /\ Said(status, NotJson).status = status /\ Said(status, NotJson).body = NotJson
      BY <2>0, WhatIsSaid
    <3>2. answer' = [Said(status, NotJson) EXCEPT !.ends = ends]
      BY <2>1
    <3> QED
      BY <3>1, <3>2, Arriving
  <2>3. /\ witness' \in [key : {"good", "gone"}, mast : BOOLEAN]
        /\ witness'.key = witness.key /\ ~ witness'.mast
    BY <2>1 DEF TypeOK
  <2> QED
    BY <1>2, <2>0, <2>2, <2>3 DEF Brought
<1> QED
  BY <1>1, <1>2

LEMMA TextsDiffer ==
    /\ NotJson # Nested(NoSuchMessage) /\ Nested(NoSuchChannel) # Nested(NoSuchMessage)
    /\ Nested("another reason") # Nested(NoSuchMessage)
<1>1. /\ Nested(NoSuchMessage).nested = "No such message."
      /\ Nested(NoSuchChannel).nested = "No such channel."
      /\ Nested("another reason").nested = "another reason" /\ NotJson.nested = "absent"
  BY DEF Nested, NotJson, Absent, NoSuchMessage, NoSuchChannel
<1> QED
  BY <1>1

(* What Mast says tells of the key as it is then, what a proxy says does    *)
(* not have Mast's words.                                                  *)
Honest(status, body) ==
    /\ status \notin 300 .. 399
    /\ body = Nested(NoSuchMessage) => key = "good"
    /\ status = 404 /\ body # Nested(NoSuchMessage) => key = "gone"

(* Mast's words, when it does not store and when it does.                   *)
Refusing(status, body) ==
    \/ status \in {400, 413, 429, 503} /\ body = Nested("another reason")
    \/ status = 404 /\ key = "gone" /\ body = Nested(NoSuchChannel)
    \/ status = 404 /\ key = "good" /\ body = Nested(NoSuchMessage)

Storing(status, body) ==
    \/ status = 200 /\ body = NotJson
    \/ status = 503 /\ body = Nested("another reason")

LEMMA WordsAreHonest ==
    ASSUME NEW status, NEW body, Refusing(status, body) \/ Storing(status, body)
    PROVE  status \in 100 .. 599 /\ Plain(body) /\ Honest(status, body)
<1>1. /\ Plain(NotJson) /\ Plain(Nested("another reason"))
      /\ Plain(Nested(NoSuchChannel)) /\ Plain(Nested(NoSuchMessage))
  BY DEF Plain, Texts
<1>2. Plain(body)
  BY <1>1, Zenon DEF Refusing, Storing
<1>3. status \in {200, 400, 404, 413, 429, 503}
  BY Zenon DEF Refusing, Storing
<1>4. status \in 100 .. 599
  BY <1>3
<1>5. status \notin 300 .. 399
  BY <1>3
<1>6. body = Nested(NoSuchMessage) => key = "good"
  BY TextsDiffer, Zenon DEF Refusing, Storing
<1>7. ASSUME status = 404, body # Nested(NoSuchMessage) PROVE key = "gone"
  <2>1. status \notin {400, 413, 429, 503} /\ status # 200 /\ status # 503
    BY <1>7
  <2> QED
    BY <1>7, <2>1, Zenon DEF Refusing, Storing
<1> QED
  BY <1>2, <1>4, <1>5, <1>6, <1>7, Zenon DEF Honest

LEMMA WordsArrive ==
    ASSUME TypeOK, NEW n, NEW status, NEW body,
           Refusing(status, body) \/ Storing(status, body),
           MastReplies(n, Said(status, body))
    PROVE  Brought(n, status, body, "mast") /\ Honest(status, body)
<1>1. status \in 100 .. 599
  BY WordsAreHonest, Zenon
<1>2. Plain(body) /\ Honest(status, body)
  BY WordsAreHonest, Zenon
<1>3. Brought(n, status, body, "mast")
  BY <1>1, <1>2, MastBrings, Zenon
<1> QED
  BY <1>2, <1>3, Zenon

LEMMA WhatMastRefuses ==
    ASSUME TypeOK, NEW n, MastRefuses(n)
    PROVE  \E status, body : /\ Brought(n, status, body, "mast")
                             /\ Honest(status, body) /\ Refusing(status, body)
<1> DEFINE reason == Nested("another reason")
<1>1. \/ \E status \in {429, 503} : Reply(n, Said(status, reason), TRUE)
      \/ key = "gone" /\ Reply(n, Said(404, Nested(NoSuchChannel)), TRUE)
      \/ key = "good" /\ Reply(n, Said(404, Nested(NoSuchMessage)), TRUE)
      \/ \E status \in {400, 413} : Reply(n, Said(status, reason), TRUE)
  BY Zenon DEF MastRefuses
<1>2. CASE key = "gone" /\ Reply(n, Said(404, Nested(NoSuchChannel)), TRUE)
  <2>1. MastReplies(n, Said(404, Nested(NoSuchChannel)))
    BY <1>2 DEF Reply, MastReplies
  <2>2. Refusing(404, Nested(NoSuchChannel))
    BY <1>2, Zenon DEF Refusing
  <2> QED
    BY <2>1, <2>2, WordsArrive, Zenon
<1>3. CASE key = "good" /\ Reply(n, Said(404, Nested(NoSuchMessage)), TRUE)
  <2>1. MastReplies(n, Said(404, Nested(NoSuchMessage)))
    BY <1>3 DEF Reply, MastReplies
  <2>2. Refusing(404, Nested(NoSuchMessage))
    BY <1>3, Zenon DEF Refusing
  <2> QED
    BY <2>1, <2>2, WordsArrive, Zenon
<1>4. CASE \E status \in {429, 503} : Reply(n, Said(status, reason), TRUE)
  <2>1. PICK status \in {429, 503} : Reply(n, Said(status, reason), TRUE)
    BY <1>4
  <2>2. Refusing(status, reason)
    BY <2>1, Zenon DEF Refusing
  <2>3. MastReplies(n, Said(status, reason))
    BY <2>1 DEF Reply, MastReplies
  <2> QED
    BY <2>2, <2>3, WordsArrive, Zenon
<1>5. CASE \E status \in {400, 413} : Reply(n, Said(status, reason), TRUE)
  <2>1. PICK status \in {400, 413} : Reply(n, Said(status, reason), TRUE)
    BY <1>5
  <2>2. Refusing(status, reason)
    BY <2>1, Zenon DEF Refusing
  <2>3. MastReplies(n, Said(status, reason))
    BY <2>1 DEF Reply, MastReplies
  <2> QED
    BY <2>2, <2>3, WordsArrive, Zenon
<1> QED
  BY <1>1, <1>2, <1>3, <1>4, <1>5, Zenon

LEMMA WhatMastStores ==
    ASSUME TypeOK, NEW n, MastStores(n)
    PROVE  \E status \in {200, 503} : \E body :
              Brought(n, status, body, "mast") /\ Honest(status, body)
<1>1. \/ Reply(n, Said(200, NotJson), TRUE)
      \/ Reply(n, Said(503, Nested("another reason")), TRUE)
  BY Zenon DEF MastStores
<1>2. CASE Reply(n, Said(200, NotJson), TRUE)
  <2>1. MastReplies(n, Said(200, NotJson))
    BY <1>2 DEF Reply, MastReplies
  <2>2. Storing(200, NotJson)
    BY Zenon DEF Storing
  <2>3. Brought(n, 200, NotJson, "mast") /\ Honest(200, NotJson)
    BY <2>1, <2>2, WordsArrive, Zenon
  <2> QED
    BY <2>3, Zenon
<1>3. CASE Reply(n, Said(503, Nested("another reason")), TRUE)
  <2>1. MastReplies(n, Said(503, Nested("another reason")))
    BY <1>3 DEF Reply, MastReplies
  <2>2. Storing(503, Nested("another reason"))
    BY Zenon DEF Storing
  <2>3. /\ Brought(n, 503, Nested("another reason"), "mast")
        /\ Honest(503, Nested("another reason"))
    BY <2>1, <2>2, WordsArrive, Zenon
  <2> WITNESS 503 \in {200, 503}
  <2> WITNESS Nested("another reason")
  <2> QED
    BY <2>3, Zenon
<1> QED
  BY <1>1, <1>2, <1>3, Zenon

LEMMA WhatProxiesSay ==
    ASSUME TypeOK, NEW n, ProxyAnswers(n)
    PROVE  \E status \in ProxyStatuses[lib] :
             /\ status \in 300 .. 599 /\ Brought(n, status, NotJson, "proxy")
             /\ IF status >= 500 THEN wire' \in {wire, wire \ {n}} ELSE wire' = wire \ {n}
<1>1. PICK status \in ProxyStatuses[lib] :
         /\ ProxyReplies(n, Said(status, NotJson))
         /\ IF status >= 500 THEN wire' \in {wire, wire \ {n}} ELSE wire' = wire \ {n}
  BY DEF ProxyAnswers, Reply, ProxyReplies
<1>2. status \in 300 .. 599 /\ status \in 100 .. 599
  <2>1. lib \in Clients
    BY DEF TypeOK
  <2> QED
    BY <2>1, NetworkAssumption
<1> QED
  BY <1>1, <1>2, ProxyBrings
-----------------------------------------------------------------------------
(* The state has its type; check() never ends in UnknownMessage.  Invariant: *)
(* a call that was not made has no verdict.                                 *)

Counted == \A n \in 1 .. Attempts : n > calls => verdict[n] = "none"

LEMMA OneOfFour ==
    ASSUME TypeOK, NEW a
    PROVE  /\ Posted(a) \in {Rust!Post(a), Go!Post(a), Js!Post(a), Py!Post(a)}
           /\ Checked(a) \in {Rust!Check(a), Go!Check(a), Js!Check(a), Py!Check(a)}
<1>1. lib \in {"rust", "go", "js", "py"}
  BY Bounds DEF TypeOK
<1> QED
  BY <1>1 DEF Posted, Checked

LEMMA WhatReturns ==
    ASSUME TypeOK, Return
    PROVE  \E h \in Heard(answer) :
             /\ answer \in Answer /\ h \in Answer
             /\ verdict' = [verdict EXCEPT ![calls] =
                               IF op[calls] = "send" THEN Posted(h) ELSE Checked(h)]
             /\ Posted(h) \in Verdicts /\ Checked(h) \in Verdicts \ {"UnknownMessage"}
<1>1. answer \in Answer
  BY DEF Return, TypeOK
<1>2. PICK h \in Heard(answer) :
         verdict' = [verdict EXCEPT ![calls] =
                        IF op[calls] = "send" THEN Posted(h) ELSE Checked(h)]
  BY DEF Return
<1>3. h \in Answer
  BY <1>1, WhatIsHeard
<1>4. Posted(h) \in Verdicts /\ Checked(h) \in Verdicts \ {"UnknownMessage"}
  BY <1>3, OneOfFour, VerdictsOfAnswers
<1> QED
  BY <1>1, <1>2, <1>3, <1>4

LEMMA NetworkTypes ==
    ASSUME TypeOK, NEW n, MastRefuses(n) \/ MastStores(n) \/ ProxyAnswers(n)
    PROVE  /\ answer' \in Answer \cup {None}
           /\ witness' \in [key : {"good", "gone"}, mast : BOOLEAN]
<1>1. \E status, body, by : Brought(n, status, body, by)
  <2>1. CASE MastRefuses(n)
    BY <2>1, WhatMastRefuses
  <2>2. CASE MastStores(n)
    BY <2>2, WhatMastStores
  <2>3. CASE ProxyAnswers(n)
    BY <2>3, WhatProxiesSay, Zenon
  <2> QED
    BY <2>1, <2>2, <2>3
<1> QED
  BY <1>1 DEF Brought, TypeOK

LEMMA TypeCounted == Spec => [](TypeOK /\ Counted)
<1>1. Init => TypeOK /\ Counted
  <2> SUFFICES ASSUME Init PROVE TypeOK /\ Counted
    OBVIOUS
  <2> QED
    BY Bounds DEF Init, TypeOK, Counted
<1>2. TypeOK /\ Counted /\ [Next]_vars => TypeOK' /\ Counted'
  <2> SUFFICES ASSUME TypeOK, Counted, [Next]_vars PROVE TypeOK' /\ Counted'
    OBVIOUS
  <2>1. ASSUME NEW what \in {"send", "check"}, Call(what) PROVE TypeOK' /\ Counted'
    <3>1. calls' = calls + 1 /\ calls + 1 \in 1 .. Attempts /\ 1 .. calls \subseteq 1 .. calls'
      BY <2>1, Bounds DEF Call, TypeOK, Counted
    <3>2. /\ op' \in [1 .. Attempts -> {"none", "send", "check"}]
          /\ \A m \in 1 .. Attempts : op'[m] = "check" => verdict[m] # "UnknownMessage"
      <4>1. op' = [op EXCEPT ![calls + 1] = what]
        BY <2>1 DEF Call
      <4> QED
        BY <2>1, <3>1, <4>1 DEF TypeOK, Counted
    <3> QED
      BY <2>1, <3>1, <3>2 DEF Call, TypeOK, Counted
  <2>2. CASE GiveUp
    <3>1. verdict' \in [1 .. Attempts -> {"none"} \cup Verdicts]
      BY <2>2 DEF GiveUp, TypeOK, Verdicts, Doubts
    <3>2. \A m \in 1 .. Attempts : op[m] = "check" => verdict'[m] # "UnknownMessage"
      BY <2>2 DEF GiveUp, TypeOK, Counted
    <3> QED
      BY <2>2, <3>1, <3>2 DEF GiveUp, TypeOK, Counted
  <2>3. CASE Return
    <3>1. PICK h \in Heard(answer) :
             /\ verdict' = [verdict EXCEPT ![calls] =
                               IF op[calls] = "send" THEN Posted(h) ELSE Checked(h)]
             /\ Posted(h) \in Verdicts /\ Checked(h) \in Verdicts \ {"UnknownMessage"}
      BY <2>3, WhatReturns
    <3>2. /\ verdict' \in [1 .. Attempts -> {"none"} \cup Verdicts]
          /\ \A m \in 1 .. Attempts : op[m] = "check" => verdict'[m] # "UnknownMessage"
      BY <3>1 DEF TypeOK, Counted
    <3> QED
      BY <2>3, <3>2 DEF Return, TypeOK, Counted
  <2>4. CASE RevokeKey
    BY <2>4 DEF RevokeKey, TypeOK, Counted
  <2>5. ASSUME NEW n \in wire, Lose(n) PROVE TypeOK' /\ Counted'
    BY <2>5 DEF Lose, TypeOK, Counted
  <2>6. ASSUME NEW n \in wire, MastRefuses(n) \/ ProxyAnswers(n) PROVE TypeOK' /\ Counted'
    <3>1. /\ answer' \in Answer \cup {None}
          /\ witness' \in [key : {"good", "gone"}, mast : BOOLEAN]
      BY <2>6, NetworkTypes
    <3>2. wire' \subseteq wire /\ UNCHANGED << server, pc, op, verdict, calls >>
      BY <2>6 DEF MastRefuses, Arrives, ProxyAnswers
    <3> QED
      BY <3>1, <3>2 DEF TypeOK, Counted
  <2>7. ASSUME NEW n \in wire, MastStores(n) PROVE TypeOK' /\ Counted'
    <3>1. /\ answer' \in Answer \cup {None}
          /\ witness' \in [key : {"good", "gone"}, mast : BOOLEAN]
      BY <2>7, NetworkTypes
    <3>2. /\ wire' = wire \ {n} /\ stored' = stored \cup {n}
          /\ cards' = IF keyed /\ cards > 0 THEN cards ELSE cards + 1
          /\ UNCHANGED << lib, keyed, key, pc, op, verdict, calls >>
      BY <2>7 DEF MastStores, Arrives, Store
    <3>3. cards' \in Nat
      BY <3>2 DEF TypeOK, Counted
    <3> QED
      BY <3>1, <3>2, <3>3 DEF TypeOK, Counted
  <2>8. CASE UNCHANGED vars
    BY <2>8 DEF TypeOK, Counted
  <2> QED
    BY <2>1, <2>2, <2>3, <2>4, <2>5, <2>6, <2>7, <2>8 DEF Next, ClientStep
<1> QED
  BY <1>1, <1>2, PTL DEF Spec

THEOREM TypeCorrect == Spec => []TypeOK
BY TypeCounted, PTL

-----------------------------------------------------------------------------
(* Refusals.  Invariant: a message is on the wire or stored, not both; an   *)
(* answer that may be read as a refusal is to a request that is neither;    *)
(* and without a dedupe key no two requests are out or stored at all.       *)

Tellable == {400, 404, 413, 429} \cup 300 .. 399

Out == stored \cup wire

FoldInv ==
    /\ \A n \in 1 .. calls : op[n] # "none"
    /\ pc = "calling" => calls > 0
    /\ answer # None => pc = "calling"
    /\ stored \subseteq Sends /\ stored \cap wire = {}
    /\ answer # None /\ answer.status \in Tellable => calls \notin Out
    /\ RefusedMeansNotStored
    /\ cards <= 1 /\ (cards = 0 <=> stored = {})
    /\ ~ keyed => \A m, n \in Sends \cap Out : m = n

LEMMA FoldInvInit == Init => FoldInv
BY Bounds DEF Init, FoldInv, Sends, Out, RefusedMeansNotStored

(* A step of the network leaves the calls and their verdicts alone.         *)
LEMMA NetworkKeepsSends ==
    ASSUME UNCHANGED << calls, op, verdict >>
    PROVE  Sends' = Sends
BY DEF Sends

LEMMA CallKeepsFold ==
    ASSUME TypeOK, Counted, FoldInv, NEW what \in {"send", "check"}, Call(what)
    PROVE  FoldInv'
<1>1. /\ pc' = "calling" /\ calls' = calls + 1 /\ answer' = None
      /\ op' = [op EXCEPT ![calls + 1] = what] /\ wire' = wire \cup {calls + 1}
      /\ calls < Attempts
      /\ UNCHANGED << lib, keyed, key, stored, cards, verdict >>
  BY DEF Call
<1>2. calls \in Nat /\ calls + 1 \in 1 .. Attempts /\ calls + 1 \notin 1 .. calls
      /\ 1 .. calls' = (1 .. calls) \cup {calls + 1}
  BY <1>1, Bounds DEF TypeOK
<1>3. /\ op'[calls + 1] = what /\ \A n \in 1 .. calls : op'[n] = op[n]
      /\ Sends' = IF what = "send" THEN Sends \cup {calls + 1} ELSE Sends
  BY <1>1, <1>2 DEF TypeOK, Sends
<1>4. Out' = Out \cup {calls + 1} /\ calls + 1 \notin Out /\ verdict[calls + 1] = "none"
  BY <1>1, <1>2 DEF Out, TypeOK, Counted
<1>5. RefusedMeansNotStored'
  BY <1>1, <1>3, <1>4 DEF FoldInv, RefusedMeansNotStored, Refusals, Out
<1>6. ~ keyed' => \A m, n \in (Sends \cap Out)' : m = n
  <2> SUFFICES ASSUME ~ keyed, what = "send" PROVE Sends \cap Out = {}
    BY <1>1, <1>2, <1>3, <1>4 DEF FoldInv, Sends
  <2>1. \A n \in Sends : verdict[n] \in Refusals
    BY DEF Call, MaySend
  <2> QED
    BY <2>1 DEF FoldInv, RefusedMeansNotStored, Out
<1>7. \A n \in 1 .. calls' : op'[n] # "none"
  BY <1>2, <1>3 DEF FoldInv
<1>8. stored' \subseteq Sends' /\ stored' \cap wire' = {}
  BY <1>1, <1>2, <1>3 DEF FoldInv, TypeOK
<1> QED
  BY <1>1, <1>2, <1>5, <1>6, <1>7, <1>8 DEF FoldInv

LEMMA EndKeepsFold ==
    ASSUME TypeOK, FoldInv, GiveUp \/ Return
    PROVE  FoldInv'
<1>1. UNCHANGED << stored, cards, keyed, wire, op, calls >> /\ pc = "calling"
      /\ pc' = "idle" /\ answer' = None
  BY DEF GiveUp, Return, FoldInv
<1>2. RefusedMeansNotStored'
  <2> SUFFICES ASSUME NEW n \in Sends, verdict'[n] \in Refusals PROVE n \notin stored \cup wire
    BY <1>1 DEF RefusedMeansNotStored, Sends
  <2>1. n \in 1 .. calls /\ n \in 1 .. Attempts /\ op[n] = "send"
    BY Bounds DEF Sends, TypeOK
  <2>2. CASE GiveUp
    BY <2>1, <2>2 DEF GiveUp, TypeOK, FoldInv, RefusedMeansNotStored, Refusals
  <2>3. CASE Return
    <3>1. PICK h \in Heard(answer) :
             /\ answer \in Answer /\ h \in Answer
             /\ verdict' = [verdict EXCEPT ![calls] =
                               IF op[calls] = "send" THEN Posted(h) ELSE Checked(h)]
      BY <2>3, WhatReturns
    <3>2. CASE n # calls
      BY <2>1, <3>1, <3>2 DEF TypeOK, FoldInv, RefusedMeansNotStored
    <3>3. CASE n = calls
      <4>1. Posted(h) \in Refusals
        BY <2>1, <3>1, <3>3 DEF TypeOK
      <4>2. h.status \in {400, 404, 413, 429}
        BY <3>1, <4>1, OneOfFour, RefusalsOfAnswers
      <4>3. answer.status \in Tellable
        BY <3>1, <4>2, WhatIsHeard DEF Tellable
      <4>4. answer # None
        BY <2>3 DEF Return
      <4> QED
        BY <3>3, <4>3, <4>4 DEF FoldInv, Out
    <3> QED
      BY <3>2, <3>3
  <2> QED
    BY <2>2, <2>3
<1>3. Sends' = Sends /\ Out' = Out
  BY <1>1 DEF Sends, Out
<1> QED
  BY <1>1, <1>2, <1>3 DEF FoldInv

(* Nothing is stored and something may leave the wire.                      *)
LEMMA WithdrawalKeepsFold ==
    ASSUME TypeOK, FoldInv, wire' \subseteq wire,
           UNCHANGED << stored, cards, keyed, pc, op, verdict, calls >>,
           answer' # None => pc = "calling",
           answer' # None /\ answer'.status \in Tellable => calls \notin stored \cup wire'
    PROVE  FoldInv'
<1>1. Sends' = Sends /\ Out' = stored \cup wire' /\ Out' \subseteq Out
  BY NetworkKeepsSends DEF Out
<1>2. RefusedMeansNotStored'
  BY <1>1 DEF FoldInv, RefusedMeansNotStored
<1>3. ~ keyed' => \A m, n \in (Sends \cap Out)' : m = n
  BY <1>1 DEF FoldInv
<1> QED
  BY <1>1, <1>2, <1>3 DEF FoldInv

LEMMA RefusalKeepsFold ==
    ASSUME TypeOK, FoldInv, NEW n \in wire, MastRefuses(n) \/ ProxyAnswers(n) \/ Lose(n)
    PROVE  FoldInv'
<1>1. /\ wire' \subseteq wire
      /\ UNCHANGED << stored, cards, keyed, pc, op, verdict, calls >>
  BY DEF MastRefuses, ProxyAnswers, Arrives, Lose
<1>2. n \notin stored
  BY DEF FoldInv
<1>3. /\ answer' # None => pc = "calling"
      /\ answer' # None /\ answer'.status \in Tellable => calls \notin stored \cup wire'
  <2>1. CASE Lose(n)
    BY <1>1, <2>1 DEF Lose, FoldInv, Out
  <2>2. ASSUME NEW status, NEW body, NEW by, Brought(n, status, body, by),
               status \in Tellable => wire' = wire \ {n}
        PROVE  /\ answer' # None => pc = "calling"
               /\ answer' # None /\ answer'.status \in Tellable => calls \notin stored \cup wire'
    BY <1>1, <1>2, <2>2 DEF Brought, Waiting, FoldInv, Out
  <2>3. CASE MastRefuses(n)
    <3>1. wire' = wire \ {n}
      BY <2>3 DEF MastRefuses, Arrives
    <3>2. \E status, body, by : Brought(n, status, body, by)
      BY <2>3, WhatMastRefuses
    <3> QED
      BY <2>2, <3>1, <3>2
  <2>4. CASE ProxyAnswers(n)
    <3>1. PICK status : /\ Brought(n, status, NotJson, "proxy") /\ status \in 300 .. 599
                        /\ IF status >= 500 THEN wire' \in {wire, wire \ {n}}
                                            ELSE wire' = wire \ {n}
      BY <2>4, WhatProxiesSay
    <3>2. status \in Tellable => wire' = wire \ {n}
      BY <3>1 DEF Tellable
    <3> QED
      BY <2>2, <3>1, <3>2
  <2> QED
    BY <2>1, <2>3, <2>4
<1> QED
  BY <1>1, <1>3, WithdrawalKeepsFold

LEMMA StoreKeepsFold ==
    ASSUME TypeOK, FoldInv, NEW n \in wire, MastStores(n)
    PROVE  FoldInv'
<1>1. /\ wire' = wire \ {n} /\ stored' = stored \cup {n} /\ op[n] = "send"
      /\ cards' = IF keyed /\ cards > 0 THEN cards ELSE cards + 1
      /\ UNCHANGED << lib, keyed, key, pc, op, verdict, calls >>
  BY DEF MastStores, Arrives, Store
<1>2. Sends' = Sends /\ Out' = Out /\ n \in Sends /\ n \in Out /\ n \notin stored
  BY <1>1, NetworkKeepsSends DEF Out, Sends, TypeOK, FoldInv
<1>3. /\ answer' # None => pc = "calling"
      /\ answer' # None /\ answer'.status \in Tellable => calls \notin Out
  <2>1. ASSUME NEW status, NEW body, Brought(n, status, body, "mast"), status \notin Tellable
        PROVE  /\ answer' # None => pc = "calling"
               /\ answer' # None /\ answer'.status \in Tellable => calls \notin Out
    BY <2>1 DEF Brought, Waiting, FoldInv
  <2>2. PICK status, body : Brought(n, status, body, "mast") /\ status \in {200, 503}
    BY WhatMastStores
  <2>3. status \notin Tellable
    BY <2>2 DEF Tellable
  <2> QED
    BY <2>1, <2>2, <2>3
<1>4. RefusedMeansNotStored'
  BY <1>1, <1>2 DEF FoldInv, RefusedMeansNotStored, Out
<1>5. cards' <= 1 /\ cards' # 0
  <2>1. CASE keyed
    BY <1>1, <2>1 DEF FoldInv, TypeOK
  <2>2. CASE ~ keyed
    <3>1. stored = {}
      BY <1>2, <2>2 DEF FoldInv, Out
    <3> QED
      BY <1>1, <2>2, <3>1 DEF FoldInv, TypeOK
  <2> QED
    BY <2>1, <2>2
<1>6. ~ keyed' => \A m, k \in (Sends \cap Out)' : m = k
  BY <1>1, <1>2 DEF FoldInv
<1> QED
  BY <1>1, <1>2, <1>3, <1>4, <1>5, <1>6 DEF FoldInv

LEMMA FoldInvariant == Spec => [](TypeOK /\ FoldInv)
<1>1. TypeOK /\ Counted /\ FoldInv /\ [Next]_vars => FoldInv'
  <2> SUFFICES ASSUME TypeOK, Counted, FoldInv, [Next]_vars PROVE FoldInv'
    OBVIOUS
  <2>1. CASE RevokeKey \/ UNCHANGED vars
    BY <2>1 DEF RevokeKey, FoldInv, RefusedMeansNotStored, Sends, Out
  <2> QED
    BY <2>1, CallKeepsFold, EndKeepsFold, RefusalKeepsFold, StoreKeepsFold
       DEF Next, ClientStep
<1> QED
  BY <1>1, FoldInvInit, TypeCounted, PTL DEF Spec

(* A send that is told to have been refused was not stored and never will   *)
(* be, whichever client hears it.                                          *)
THEOREM RefusalIsFinal == Spec => []RefusedMeansNotStored
<1>1. FoldInv => RefusedMeansNotStored
  BY DEF FoldInv
<1> QED
  BY <1>1, FoldInvariant, PTL

(* Whoever retries as the documents say wakes somebody once, however often  *)
(* that is.                                                                *)
THEOREM OneCard == Spec => []AtMostOneCard
<1>1. FoldInv => AtMostOneCard
  BY DEF FoldInv, AtMostOneCard
<1> QED
  BY <1>1, FoldInvariant, PTL
-----------------------------------------------------------------------------
(* check().  Invariant: Mast's words about a message were said of a key     *)
(* that was good, and its 404 without them of one that is gone.             *)

KeyInv ==
    /\ key = "good" => witness.key = "good"
    /\ answer # None => pc = "calling" /\ Plain(answer.body)
    /\ answer # None /\ answer.body = Nested(NoSuchMessage) =>
          witness.key = "good" /\ (answer.ends = "whole" => witness.mast)
    /\ answer # None /\ witness.mast =>
          answer.ends = "whole" /\ answer.status \notin 300 .. 399
    /\ answer # None /\ witness.mast /\ answer.status = 404
             /\ answer.body # Nested(NoSuchMessage) => key = "gone"
    /\ CheckTellsTheKey

LEMMA KeyInvInit == Init => KeyInv
BY DEF Init, KeyInv, CheckTellsTheKey

LEMMA ReturnTellsTheKey ==
    ASSUME TypeOK, KeyInv, Return
    PROVE  KeyInv'
<1>1. /\ UNCHANGED << key, witness, op, calls >> /\ answer' = None /\ pc' = "idle"
      /\ pc = "calling" /\ answer # None
  BY DEF Return
<1>2. PICK h \in Heard(answer) :
         /\ answer \in Answer /\ h \in Answer
         /\ verdict' = [verdict EXCEPT ![calls] =
                           IF op[calls] = "send" THEN Posted(h) ELSE Checked(h)]
  BY WhatReturns
<1>3. Plain(h.body)
  BY <1>1, <1>2, WhatIsHeard DEF KeyInv, Plain
<1>4. CheckTellsTheKey'
  <2> SUFFICES ASSUME calls > 0, op[calls] = "check"
               PROVE  /\ verdict'[calls] = "ok" => witness.key = "good" /\ witness.mast
                      /\ verdict'[calls] = "UnknownChannel" /\ witness.mast => key = "gone"
    BY <1>1 DEF CheckTellsTheKey
  <2>1. verdict'[calls] = Checked(h)
    BY <1>2, Bounds DEF TypeOK
  <2>2. /\ Checked(h) = "ok" => h.status = 404 /\ h.ends = "whole"
                                /\ h.body = Nested(NoSuchMessage)
        /\ Checked(h) = "UnknownChannel" /\ h.ends = "whole"
              => h.status = 404 /\ h.body # Nested(NoSuchMessage)
    BY <1>2, <1>3, OneOfFour, ChecksOfAnswers
  <2>3. \/ h = answer
        \/ answer.status \in 300 .. 399 /\ h.body = NotJson
    BY <1>2, WhatIsHeard
  <2>4. witness.mast => answer.ends = "whole"
    BY <1>1 DEF KeyInv
  <2>5. CASE h = answer
    BY <1>1, <2>1, <2>2, <2>4, <2>5 DEF KeyInv
  <2>6. CASE answer.status \in 300 .. 399 /\ h.body = NotJson
    BY <1>1, <2>1, <2>2, <2>6, TextsDiffer DEF KeyInv
  <2> QED
    BY <2>3, <2>5, <2>6
<1> QED
  BY <1>1, <1>4 DEF KeyInv

(* What the network brings tells of the key as it is then.                  *)
LEMMA ReplyTellsTheKey ==
    ASSUME TypeOK, KeyInv, NEW n, NEW status, NEW body, NEW by, Brought(n, status, body, by),
           UNCHANGED << key, pc, op, verdict, calls >>,
           \/ by = "mast" /\ Honest(status, body)
           \/ by = "proxy" /\ body # Nested(NoSuchMessage)
    PROVE  KeyInv'
<1>1. CASE UNCHANGED << answer, witness >>
  BY <1>1 DEF KeyInv, CheckTellsTheKey
<1>2. CASE ~ UNCHANGED << answer, witness >>
  <2>1. /\ pc = "calling" /\ answer' \in Answer
        /\ answer'.status = status /\ answer'.body = body /\ Plain(body)
        /\ witness'.key = witness.key
        /\ witness'.mast <=> by = "mast" /\ answer'.ends = "whole"
    BY <1>2 DEF Brought, Waiting
  <2> QED
    BY <2>1 DEF KeyInv, CheckTellsTheKey, Honest
<1> QED
  BY <1>1, <1>2

LEMMA NetworkTellsTheKey ==
    ASSUME TypeOK, KeyInv, NEW n \in wire,
           MastRefuses(n) \/ MastStores(n) \/ ProxyAnswers(n) \/ Lose(n)
    PROVE  KeyInv'
<1>1. UNCHANGED << key, pc, op, verdict, calls >>
  BY DEF MastRefuses, MastStores, ProxyAnswers, Arrives, Lose
<1>2. CASE Lose(n)
  BY <1>2 DEF Lose, KeyInv, CheckTellsTheKey
<1>3. CASE MastRefuses(n) \/ MastStores(n)
  <2>1. PICK status, body : Brought(n, status, body, "mast") /\ Honest(status, body)
    BY <1>3, WhatMastRefuses, WhatMastStores
  <2> QED
    BY <1>1, <2>1, ReplyTellsTheKey
<1>4. CASE ProxyAnswers(n)
  <2>1. PICK status : Brought(n, status, NotJson, "proxy")
    BY <1>4, WhatProxiesSay
  <2> QED
    BY <1>1, <2>1, ReplyTellsTheKey, TextsDiffer
<1> QED
  BY <1>2, <1>3, <1>4

(* check() proves the key: what it passes was good when it was asked, and   *)
(* it condemns no good key on Mast's own word.                             *)
THEOREM CheckIsProof == Spec => []CheckTellsTheKey
<1>1. TypeOK /\ KeyInv /\ [Next]_vars => KeyInv'
  <2> SUFFICES ASSUME TypeOK, KeyInv, [Next]_vars PROVE KeyInv'
    OBVIOUS
  <2>1. ASSUME NEW what \in {"send", "check"}, Call(what) PROVE KeyInv'
    BY <2>1 DEF Call, KeyInv, CheckTellsTheKey
  <2>2. CASE GiveUp
    <3>1. verdict'[calls] \notin {"ok", "UnknownChannel"} \/ calls = 0
      BY <2>2, Bounds DEF GiveUp, TypeOK
    <3> QED
      BY <2>2, <3>1 DEF GiveUp, KeyInv, CheckTellsTheKey
  <2>3. CASE RevokeKey \/ UNCHANGED vars
    BY <2>3 DEF RevokeKey, KeyInv, CheckTellsTheKey
  <2> QED
    BY <2>1, <2>2, <2>3, ReturnTellsTheKey, NetworkTellsTheKey DEF Next, ClientStep
<1>2. KeyInv => CheckTellsTheKey
  BY DEF KeyInv
<1> QED
  BY <1>1, <1>2, KeyInvInit, TypeCorrect, PTL DEF Spec
-----------------------------------------------------------------------------
(* What a send is told.  JavaScript and Python take statuses for "stored"   *)
(* that Mast does not answer with; so a proxy must not answer with them     *)
(* either.                                                                 *)

TakesFor(who, status) ==
    \/ status < 300
    \/ who = "py" /\ status \in 300 .. 399
    \/ who \in {"js", "py"} /\ status \in 401 .. 499 \ {404, 413, 429}

LEMMA WhatIsTaken ==
    ASSUME TypeOK, NEW a \in Answer, NEW h \in Heard(a), Posted(h) = "ok"
    PROVE  TakesFor(lib, a.status)
<1>1. lib \in {"rust", "go", "js", "py"}
  BY Bounds DEF TypeOK
<1>2. /\ h \in Answer
      /\ \/ h = a
         \/ lib = "py" /\ a.status \in 300 .. 399 /\ h.body = NotJson
  BY WhatIsHeard
<1>3. h.status \in 100 .. 599 /\ a.status \in 100 .. 599
  BY <1>2 DEF Answer
<1>4. CASE lib \in {"rust", "go"}
  <2>1. h = a /\ h.status < 300
    BY <1>2, <1>4, PostsOfAnswers DEF Posted
  <2> QED
    BY <2>1 DEF TakesFor
<1>5. CASE lib = "js"
  <2>1. h = a /\ (h.status < 300 \/ h.status \in 401 .. 499 \ {404, 413, 429})
    BY <1>2, <1>5, PostsOfAnswers DEF Posted
  <2> QED
    BY <1>5, <2>1 DEF TakesFor
<1>6. CASE lib = "py"
  <2>1. h.status < 400 \/ h.status \in 401 .. 499 \ {404, 413, 429}
    BY <1>2, <1>6, PostsOfAnswers DEF Posted
  <2> QED
    BY <1>2, <1>3, <1>6, <2>1 DEF TakesFor
<1> QED
  BY <1>1, <1>4, <1>5, <1>6

ProxiesDeny ==
    \A who \in Clients : \A status \in ProxyStatuses[who] : ~ TakesFor(who, status)

(* Invariant: an answer that is taken for "stored" follows the storing.     *)
SentInv ==
    /\ answer # None /\ op[calls] = "send" /\ TakesFor(lib, answer.status) => calls \in stored
    /\ SentMeansStored

LEMMA ReturnTellsOfStoring ==
    ASSUME TypeOK, SentInv, Return
    PROVE  SentInv'
<1>1. UNCHANGED << stored, op, calls >> /\ answer' = None /\ answer # None
  BY DEF Return
<1>2. PICK h \in Heard(answer) :
         /\ answer \in Answer
         /\ verdict' = [verdict EXCEPT ![calls] =
                           IF op[calls] = "send" THEN Posted(h) ELSE Checked(h)]
  BY WhatReturns
<1>3. SentMeansStored'
  <2> SUFFICES ASSUME NEW n \in Sends, verdict'[n] = "ok" PROVE n \in stored
    BY <1>1 DEF SentMeansStored, Sends
  <2>1. n \in 1 .. Attempts /\ op[n] = "send"
    BY Bounds DEF Sends, TypeOK
  <2>2. CASE n # calls
    BY <1>2, <2>1, <2>2 DEF TypeOK, SentInv, SentMeansStored
  <2>3. CASE n = calls
    <3>1. Posted(h) = "ok"
      BY <1>2, <2>1, <2>3 DEF TypeOK
    <3> QED
      BY <1>1, <1>2, <2>1, <2>3, <3>1, WhatIsTaken DEF SentInv
  <2> QED
    BY <2>2, <2>3
<1> QED
  BY <1>1, <1>3 DEF SentInv

LEMMA ReplyTellsOfStoring ==
    ASSUME TypeOK, SentInv, NEW n, NEW status, NEW body, NEW by, Brought(n, status, body, by),
           UNCHANGED << lib, op, verdict, calls >>, stored \subseteq stored',
           TakesFor(lib, status) => n \in stored'
    PROVE  SentInv'
<1>1. SentMeansStored'
  BY DEF SentInv, SentMeansStored, Sends
<1>2. CASE UNCHANGED << answer, witness >>
  BY <1>1, <1>2 DEF SentInv
<1>3. CASE ~ UNCHANGED << answer, witness >>
  <2>1. n = calls /\ answer'.status = status
    BY <1>3 DEF Brought, Waiting
  <2> QED
    BY <1>1, <2>1 DEF SentInv
<1> QED
  BY <1>2, <1>3

LEMMA NetworkTellsOfStoring ==
    ASSUME TypeOK, SentInv, ProxiesDeny, NEW n \in wire,
           MastRefuses(n) \/ MastStores(n) \/ ProxyAnswers(n) \/ Lose(n)
    PROVE  SentInv'
<1>1. UNCHANGED << lib, op, verdict, calls >> /\ stored \subseteq stored'
  BY DEF MastRefuses, MastStores, Store, ProxyAnswers, Arrives, Lose
<1>2. CASE Lose(n)
  BY <1>2 DEF Lose, SentInv, SentMeansStored, Sends
<1>3. CASE MastRefuses(n)
  <2>1. PICK status, body : Brought(n, status, body, "mast") /\ Refusing(status, body)
    BY <1>3, WhatMastRefuses
  <2>2. status \in {400, 404, 413, 429, 503}
    BY <2>1, Zenon DEF Refusing
  <2>3. ~ TakesFor(lib, status)
    BY <2>2 DEF TakesFor
  <2> QED
    BY <1>1, <2>1, <2>3, ReplyTellsOfStoring
<1>4. CASE MastStores(n)
  <2>1. PICK status, body : Brought(n, status, body, "mast")
    BY <1>4, WhatMastStores
  <2>2. n \in stored'
    BY <1>4 DEF MastStores, Store
  <2> QED
    BY <1>1, <2>1, <2>2, ReplyTellsOfStoring
<1>5. CASE ProxyAnswers(n)
  <2>1. PICK status \in ProxyStatuses[lib] : Brought(n, status, NotJson, "proxy")
    BY <1>5, WhatProxiesSay
  <2>2. ~ TakesFor(lib, status)
    BY DEF ProxiesDeny, TypeOK
  <2> QED
    BY <1>1, <2>1, <2>2, ReplyTellsOfStoring
<1> QED
  BY <1>2, <1>3, <1>4, <1>5

(* "Returns once Mast has stored it", as long as no proxy answers in Mast's *)
(* place with what the client takes for Mast's word.                       *)
THEOREM SentIsStored ==
    ASSUME ProxiesDeny
    PROVE  Spec => []SentMeansStored
<1>1. Init => SentInv
  BY DEF Init, SentInv, SentMeansStored, Sends
<1>2. TypeOK /\ Counted /\ SentInv /\ [Next]_vars => SentInv'
  <2> SUFFICES ASSUME TypeOK, Counted, SentInv, [Next]_vars PROVE SentInv'
    OBVIOUS
  <2>1. ASSUME NEW what \in {"send", "check"}, Call(what) PROVE SentInv'
    <3>1. /\ answer' = None /\ calls' = calls + 1 /\ UNCHANGED << stored, verdict >>
          /\ op' = [op EXCEPT ![calls + 1] = what] /\ calls + 1 \in 1 .. Attempts
      BY <2>1, Bounds DEF Call, TypeOK
    <3>2. \A n \in Sends' : n \in Sends \/ verdict[n] = "none"
      BY <3>1, Bounds DEF Sends, TypeOK, Counted
    <3> QED
      BY <3>1, <3>2 DEF SentInv, SentMeansStored
  <2>2. CASE GiveUp
    <3>1. answer' = None /\ UNCHANGED << stored, op, calls >>
      BY <2>2 DEF GiveUp
    <3>2. \A n \in Sends : verdict'[n] = "ok" => verdict[n] = "ok"
      BY <2>2, Bounds DEF GiveUp, Sends, TypeOK
    <3> QED
      BY <3>1, <3>2 DEF SentInv, SentMeansStored, Sends
  <2>3. CASE RevokeKey \/ UNCHANGED vars
    BY <2>3 DEF RevokeKey, SentInv, SentMeansStored, Sends
  <2> QED
    BY <2>1, <2>2, <2>3, ReturnTellsOfStoring, NetworkTellsOfStoring DEF Next, ClientStep
<1>3. SentInv => SentMeansStored
  BY DEF SentInv
<1> QED
  BY <1>1, <1>2, <1>3, TypeCounted, PTL DEF Spec
=============================================================================
