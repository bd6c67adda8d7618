---------------------------- MODULE ValuesProofs ----------------------------
(***************************************************************************)
(* What is proved of the parts of the Rust client that have no clock, for   *)
(* all values of their constants.  Messages: what leaves is what Mast       *)
(* takes, and nothing else stays, whatever the callers say.  Statuses: the  *)
(* days are counted right, for every year there is.  ChannelUrls: a text    *)
(* opens the channel it spells, and no other.                              *)
(***************************************************************************)
EXTENDS Messages, Calendar, ChannelUrls, PlaceLemmas, SequenceTheorems, TLAPS

-----------------------------------------------------------------------------
(* The checks of a message, and the first that fails.                       *)
Names == Refusals \ {"argument"}

LEMMA CheckedByName ==
    /\ DOMAIN Checked = 1 .. 9
    /\ \A i \in 1 .. 9 : Checked[i] \in Names
    /\ \A name \in Names : \E i \in 1 .. 9 : Checked[i] = name
<1>1. DOMAIN Checked = 1 .. 9 /\ \A i \in 1 .. 9 : Checked[i] \in Names
  BY DEF Checked, Names, Refusals
<1>2. /\ Checked[1] = "title" /\ Checked[2] = "body" /\ Checked[3] = "url_title"
      /\ Checked[4] = "key" /\ Checked[5] = "url" /\ Checked[6] = "callback"
      /\ Checked[7] = "retry" /\ Checked[8] = "expire" /\ Checked[9] = "silent"
  BY DEF Checked
<1> QED
  BY <1>1, <1>2 DEF Names, Refusals

LEMMA RefusalNames ==
    ASSUME NEW m
    PROVE  \/ Refusal(m) = Void /\ \A name \in Names : ~ Fails(m, name)
           \/ Refusal(m) \in Names /\ Fails(m, Refusal(m))
<1> DEFINE failed == { i \in DOMAIN Checked : Fails(m, Checked[i]) }
<1>1. CASE failed = {}
  BY <1>1, CheckedByName DEF Refusal
<1>2. CASE failed # {}
  <2>1. failed \in SUBSET (1 .. 9)
    BY CheckedByName
  <2>2. \E i \in failed : \A j \in failed : i <= j
    BY <1>2, <2>1, LeastOf
  <2> DEFINE first == CHOOSE i \in failed : \A j \in failed : i <= j
  <2>3. first \in failed
    BY <2>2
  <2>4. Refusal(m) = Checked[first]
    BY <1>2 DEF Refusal
  <2> HIDE DEF first
  <2> QED
    BY <2>3, <2>4, CheckedByName
<1> QED
  BY <1>1, <1>2

(* A field that is not set is told from one that is.                        *)
LEMMA VoidApart ==
    /\ Void # Off /\ Void \notin Text /\ Off \notin Text
    /\ \A word \in Literals : word # Void /\ word # Off
    /\ \A n \in Int : n # Void /\ n # Off
<1>1. Void \notin Text \cup Literals \cup Int /\ Off \notin Text \cup Literals \cup Int
  BY VoidAssumption
<1> QED
  BY <1>1, VoidAssumption

LEMMA NamesAreWords == \A name \in Names : name # Void
BY VoidApart DEF Names, Literals

LEMMA RefusalIsNamed ==
    ASSUME NEW m
    PROVE  Refusal(m) \in Refusals \cup {Void}
BY RefusalNames DEF Names

-----------------------------------------------------------------------------
(* The fields of a message, and the form they make.                         *)
LEMMA MessageFields ==
    ASSUME NEW m \in Message
    PROVE  /\ m.title \in Text \cup {Void} /\ m.body \in Text \cup {Void}
           /\ m.url \in Text \cup {Void} /\ m.url_title \in Text \cup {Void}
           /\ m.callback \in Text \cup {Void} /\ m.dedupe_key \in Text \cup {Void}
           /\ m.priority \in Priorities \cup {Void} /\ m.sound \in Sounds \cup {Void}
           /\ m.retry \in Nat \cup {Off, Void} /\ m.expire \in Nat \cup {Off, Void}
           /\ m.ack \in BOOLEAN /\ m.silent \in BOOLEAN
           /\ m.timestamp \in Int \cup {Void} /\ m.resolve \in {"1", "id", Void}
BY DEF Message

LEMMA FormFields ==
    ASSUME NEW m
    PROVE  /\ Form(m).title = m.title /\ Form(m).body = m.body
           /\ Form(m).url_title = m.url_title /\ Form(m).key = m.dedupe_key
           /\ Form(m).url = m.url /\ Form(m).callback = m.callback
           /\ Form(m).priority = m.priority /\ Form(m).resolve = m.resolve
           /\ Form(m).retry = Seconds(m.retry) /\ Form(m).expire = Seconds(m.expire)
           /\ Form(m).ack = (IF m.ack THEN "required" ELSE Void)
           /\ Form(m).silent = (IF m.silent THEN "1" ELSE Void)
BY DEF Form

LEMMA WholeSeconds ==
    ASSUME NEW d \in Nat \cup {Off, Void}
    PROVE  Seconds(d) \in Nat \cup {Void}
BY VoidApart DEF Seconds

LEMMA FormHasType ==
    ASSUME NEW m \in Message
    PROVE  Form(m) \in Forms
<1>1. Seconds(m.retry) \in Nat \cup {Void} /\ Seconds(m.expire) \in Nat \cup {Void}
  BY MessageFields, WholeSeconds
<1> QED
  BY <1>1, MessageFields DEF Form, Forms

(* A text that is not over its limit is within it, and the other way.       *)
LEMMA OverOrWithin ==
    ASSUME NEW text \in Text \cup {Void}, NEW limit \in Nat
    PROVE  Within(text, limit) <=> ~ Over(text, limit)
BY DEF Over, Within, Text

(* A duration of whole seconds that is not outside its range is taken, and  *)
(* one that is outside is not, if it is any time at all.                   *)
Fitting(seconds, low, high) ==
    seconds \in {Void, 0} \/ (low <= seconds /\ seconds <= high)

LEMMA OutsideOrTaken ==
    ASSUME NEW d \in Nat \cup {Off, Void}, NEW low \in Nat \ {0}, NEW high \in Nat
    PROVE  /\ ~ Outside(d, low, high) /\ ~ Broken(d) => Fitting(Seconds(d), low, high)
           /\ Outside(d, low, high) /\ ~ Broken(d) /\ d # 0 =>
                 ~ Fitting(Seconds(d), low, high)
<1>1. CASE d \in {Off, Void}
  BY <1>1, VoidApart DEF Outside, Timed, Seconds, Fitting
<1>2. CASE d \in Nat
  <2>1. d # Off /\ d # Void /\ d \div 2 # Void
    BY <1>2, VoidApart
  <2> QED
    BY <1>2, <2>1 DEF Outside, Broken, Timed, Seconds, Fitting
<1> QED
  BY <1>1, <1>2

(* The parts of what Mast takes, said of the message.                       *)
TextsPass(m) ==
    /\ ~ Over(m.title, 250) /\ ~ Over(m.url_title, 250)
    /\ ~ Over(m.body, 4096) /\ ~ Over(m.dedupe_key, 120)
    /\ ~ Over(m.url, 512) /\ ~ Over(m.callback, 512)

LinksPass(m) == ~ Barred(m.url, {"http", "https"}) /\ ~ Barred(m.callback, {"https"})

SilencePasses(m) == ~ (m.silent /\ Noisy(m))

Keyed(m) == m.resolve = "1" => m.dedupe_key # Void /\ m.dedupe_key.chars > 0

LEMMA TextsByMessage ==
    ASSUME NEW m \in Message
    PROVE  TextsFit(Form(m)) <=> TextsPass(m)
<1>1. /\ m.title \in Text \cup {Void} /\ m.body \in Text \cup {Void}
      /\ m.url \in Text \cup {Void} /\ m.url_title \in Text \cup {Void}
      /\ m.callback \in Text \cup {Void} /\ m.dedupe_key \in Text \cup {Void}
  BY MessageFields
<1>2. /\ Form(m).title = m.title /\ Form(m).body = m.body
      /\ Form(m).url_title = m.url_title /\ Form(m).key = m.dedupe_key
      /\ Form(m).url = m.url /\ Form(m).callback = m.callback
  BY FormFields
<1>3. /\ Within(m.title, 250) <=> ~ Over(m.title, 250)
      /\ Within(m.url_title, 250) <=> ~ Over(m.url_title, 250)
  BY <1>1, OverOrWithin
<1>4. /\ Within(m.body, 4096) <=> ~ Over(m.body, 4096)
      /\ Within(m.dedupe_key, 120) <=> ~ Over(m.dedupe_key, 120)
  BY <1>1, OverOrWithin
<1>5. /\ Within(m.url, 512) <=> ~ Over(m.url, 512)
      /\ Within(m.callback, 512) <=> ~ Over(m.callback, 512)
  BY <1>1, OverOrWithin
<1> QED
  BY <1>2, <1>3, <1>4, <1>5 DEF TextsFit, TextsPass

LEMMA LinksByMessage ==
    ASSUME NEW m \in Message
    PROVE  LinksFit(Form(m)) <=> LinksPass(m)
<1>1. Form(m).url = m.url /\ Form(m).callback = m.callback
  BY FormFields
<1> QED
  BY <1>1 DEF LinksFit, LinksPass, Barred

LEMMA SilenceByMessage ==
    ASSUME NEW m \in Message
    PROVE  SilenceFits(Form(m)) <=> SilencePasses(m)
<1>1. "1" # Void /\ "required" # Void
  BY VoidApart DEF Literals
<1>2. /\ Form(m).silent = (IF m.silent THEN "1" ELSE Void)
      /\ Form(m).ack = (IF m.ack THEN "required" ELSE Void)
      /\ Form(m).priority = m.priority
  BY FormFields
<1>3. m.ack \in BOOLEAN /\ m.silent \in BOOLEAN
  BY MessageFields
<1> QED
  BY <1>1, <1>2, <1>3 DEF SilenceFits, SilencePasses, Noisy

LEMMA KeyByMessage ==
    ASSUME NEW m \in Message
    PROVE  ResolveFits(Form(m)) <=> Keyed(m)
<1>1. Form(m).resolve = m.resolve /\ Form(m).key = m.dedupe_key
  BY FormFields
<1> QED
  BY <1>1 DEF ResolveFits, Keyed

(* What passes every check.                                                 *)
Passes(m) == \A name \in Names : ~ Fails(m, name)

LEMMA NamesAreNine ==
    /\ "title" \in Names /\ "body" \in Names /\ "url_title" \in Names /\ "key" \in Names
    /\ "url" \in Names /\ "callback" \in Names /\ "retry" \in Names
    /\ "expire" \in Names /\ "silent" \in Names
BY DEF Names, Refusals

LEMMA TextsChecked ==
    ASSUME NEW m \in Message, Passes(m)
    PROVE  TextsPass(m) /\ LinksPass(m)
<1>1. ~ Over(m.title, 250) /\ ~ Over(m.body, 4096)
  BY NamesAreNine DEF Passes, Fails, MaxTitle, MaxBody
<1>2. ~ Over(m.url_title, 250) /\ ~ Over(m.dedupe_key, 120)
  BY NamesAreNine DEF Passes, Fails, MaxTitle, MaxKey
<1>3. ~ Over(m.url, 512) /\ ~ Over(m.callback, 512)
  BY NamesAreNine DEF Passes, Fails, MaxUrl
<1>4. ~ Barred(m.url, {"http", "https"}) /\ ~ Barred(m.callback, {"https"})
  BY NamesAreNine DEF Passes, Fails
<1> QED
  BY <1>1, <1>2, <1>3, <1>4 DEF TextsPass, LinksPass

LEMMA TimesAreFitting ==
    ASSUME NEW form
    PROVE  TimesFit(form) <=> /\ Fitting(form.retry, MinRetry, MaxRetry)
                              /\ Fitting(form.expire, MinExpire, MaxExpire)
BY DEF TimesFit, Fitting, MinRetry, MaxRetry, MinExpire, MaxExpire

LEMMA LimitsInOrder == MinRetry \in Nat \ {0} /\ MaxRetry \in Nat
                       /\ MinExpire \in Nat \ {0} /\ MaxExpire \in Nat
BY DEF MinRetry, MaxRetry, MinExpire, MaxExpire

LEMMA TimesChecked ==
    ASSUME NEW m \in Message, Passes(m)
    PROVE  TimesFit(Form(m)) /\ SilencePasses(m)
<1>1. m.retry \in Nat \cup {Off, Void} /\ m.expire \in Nat \cup {Off, Void}
  BY MessageFields
<1>2. ~ Outside(m.retry, MinRetry, MaxRetry) /\ ~ Broken(m.retry)
  BY NamesAreNine DEF Passes, Fails
<1>3. ~ Outside(m.expire, MinExpire, MaxExpire) /\ ~ Broken(m.expire)
  BY NamesAreNine DEF Passes, Fails
<1>4. Fitting(Seconds(m.retry), MinRetry, MaxRetry)
  BY <1>1, <1>2, OutsideOrTaken, LimitsInOrder
<1>5. Fitting(Seconds(m.expire), MinExpire, MaxExpire)
  BY <1>1, <1>3, OutsideOrTaken, LimitsInOrder
<1>6. Form(m).retry = Seconds(m.retry) /\ Form(m).expire = Seconds(m.expire)
  BY FormFields
<1>7. TimesFit(Form(m))
  BY <1>4, <1>5, <1>6, TimesAreFitting
<1>8. SilencePasses(m)
  BY NamesAreNine DEF Passes, Fails, SilencePasses
<1> QED
  BY <1>7, <1>8

(* A message without a refusal is one Mast takes, if its resolve has a key. *)
LEMMA PassedIsTaken ==
    ASSUME NEW m \in Message, Refusal(m) = Void, Keyed(m)
    PROVE  Takes(Form(m))
<1>1. Passes(m)
  BY NamesAreWords, RefusalNames DEF Passes
<1>2. TextsPass(m) /\ LinksPass(m) /\ TimesFit(Form(m)) /\ SilencePasses(m)
  BY <1>1, TextsChecked, TimesChecked
<1> QED
  BY <1>2, TextsByMessage, LinksByMessage, SilenceByMessage, KeyByMessage DEF Takes

(* A message with a refusal is one Mast does not take, but for durations    *)
(* that are not whole seconds or are nothing.                              *)
Excused(m, name) == \E f \in {"retry", "expire"} : name = f /\ (Broken(m[f]) \/ m[f] = 0)

LEMMA TimeIsExcused ==
    ASSUME NEW m \in Message, TimesFit(Form(m))
    PROVE  /\ Fails(m, "retry") => Excused(m, "retry")
           /\ Fails(m, "expire") => Excused(m, "expire")
<1>1. m.retry \in Nat \cup {Off, Void} /\ m.expire \in Nat \cup {Off, Void}
  BY MessageFields
<1>2. Form(m).retry = Seconds(m.retry) /\ Form(m).expire = Seconds(m.expire)
  BY FormFields
<1>3. Outside(m.retry, MinRetry, MaxRetry) => Broken(m.retry) \/ m.retry = 0
  BY <1>1, <1>2, OutsideOrTaken, TimesAreFitting, LimitsInOrder
<1>4. Outside(m.expire, MinExpire, MaxExpire) => Broken(m.expire) \/ m.expire = 0
  BY <1>1, <1>2, OutsideOrTaken, TimesAreFitting, LimitsInOrder
<1>5. Fails(m, "retry") => Excused(m, "retry")
  BY <1>3 DEF Fails, Excused
<1>6. Fails(m, "expire") => Excused(m, "expire")
  BY <1>4 DEF Fails, Excused
<1> QED
  BY <1>5, <1>6

LEMMA OthersAreDoomed ==
    ASSUME NEW m \in Message, NEW name \in Names, Fails(m, name)
    PROVE  \/ name \in {"retry", "expire"}
           \/ ~ TextsPass(m) \/ ~ LinksPass(m) \/ ~ SilencePasses(m)
<1>1. CASE name \in {"title", "body", "url_title", "key"}
  BY <1>1 DEF Fails, TextsPass, MaxTitle, MaxBody, MaxKey
<1>2. CASE name \in {"url", "callback"}
  BY <1>2 DEF Fails, TextsPass, LinksPass, MaxUrl
<1>3. CASE name = "silent"
  BY <1>3 DEF Fails, SilencePasses
<1> QED
  BY <1>1, <1>2, <1>3 DEF Names, Refusals

LEMMA RefusedIsNotTaken ==
    ASSUME NEW m \in Message, Refusal(m) # Void
    PROVE  Excused(m, Refusal(m)) \/ ~ Takes(Form(m))
<1> SUFFICES ASSUME Takes(Form(m)) PROVE Excused(m, Refusal(m))
  OBVIOUS
<1>1. Refusal(m) \in Names /\ Fails(m, Refusal(m))
  BY RefusalNames
<1>2. TextsPass(m) /\ LinksPass(m) /\ SilencePasses(m) /\ TimesFit(Form(m))
  BY TextsByMessage, LinksByMessage, SilenceByMessage DEF Takes
<1>3. Refusal(m) \in {"retry", "expire"}
  BY <1>1, <1>2, OthersAreDoomed
<1> QED
  BY <1>1, <1>2, <1>3, TimeIsExcused

-----------------------------------------------------------------------------
(* What the operation adds at the end is on the message it checked.         *)
Said(op, m) ==
    /\ op = "page" => m.priority = "page"
    /\ op = "resolve_key" => m.resolve = "1" /\ m.dedupe_key \in Keys
    /\ op = "resolve_message" => m.resolve = "id"

AsChecked(o, m) ==
    /\ o.refused = Refusal(m)
    /\ o.form = IF Refusal(m) = Void THEN Form(m) ELSE Void
    /\ Keyed(m) /\ Said(o.op, m)

Ended(o, m, n) ==
    /\ o \in Outcome /\ o # Void
    /\ n = IF o.refused = Void THEN 1 ELSE 0
    /\ o.refused = "argument" \/ AsChecked(o, m)

(* The inductive invariant: a message under way has cost nothing and has no *)
(* resolve on it, and one that ended was refused for its argument or is     *)
(* what its checks say of the message as it then was.                      *)
IInv ==
    /\ message \in Message /\ setters \in 0 .. Setters
    /\ outcome = Void => message.resolve = Void /\ requests = 0
    /\ outcome # Void => Ended(outcome, message, requests)

LEMMA OutcomeIsSet == \A o \in Outcome : o # Void
BY VoidAssumption

LEMMA FinishEnds ==
    ASSUME IInv, NEW op \in Operations, NEW m \in Message, Keyed(m), Said(op, m),
           Finish(op, m)
    PROVE  IInv'
<1> DEFINE o == [op |-> op, refused |-> Refusal(m),
                 form |-> IF Refusal(m) = Void THEN Form(m) ELSE Void]
<1>1. /\ outcome = Void /\ message' = m /\ outcome' = o /\ setters' = setters
      /\ requests' = IF Refusal(m) = Void THEN requests + 1 ELSE requests
  BY DEF Finish
<1>2. Refusal(m) \in Refusals \cup {Void} /\ Form(m) \in Forms
  BY RefusalIsNamed, FormHasType
<1>3. o.op = op /\ o.refused = Refusal(m)
      /\ o.form = IF Refusal(m) = Void THEN Form(m) ELSE Void
  OBVIOUS
<1>4. o \in Outcome
  BY <1>2 DEF Outcome
<1> HIDE DEF o
<1>5. o # Void
  BY <1>4, OutcomeIsSet
<1>6. requests' = IF o.refused = Void THEN 1 ELSE 0
  BY <1>1, <1>3 DEF IInv
<1>7. AsChecked(o, m)
  BY <1>3 DEF AsChecked
<1>8. Ended(o, m, requests')
  BY <1>4, <1>5, <1>6, <1>7 DEF Ended
<1>9. setters' \in 0 .. Setters
  BY <1>1 DEF IInv
<1> QED
  BY <1>1, <1>5, <1>8, <1>9 DEF IInv

LEMMA RefuseEnds ==
    ASSUME IInv, NEW op \in Operations, Refuse(op, "argument")
    PROVE  IInv'
<1> DEFINE o == [op |-> op, refused |-> "argument", form |-> Void]
<1>1. outcome' = o /\ UNCHANGED << message, setters, requests >> /\ outcome = Void
  BY DEF Refuse
<1>2. o.refused = "argument" /\ o \in Outcome
  BY DEF Outcome, Refusals
<1> HIDE DEF o
<1>3. o # Void /\ "argument" # Void
  BY <1>2, OutcomeIsSet, VoidApart DEF Literals, Refusals
<1>4. requests' = IF o.refused = Void THEN 1 ELSE 0
  BY <1>1, <1>2, <1>3 DEF IInv
<1>5. Ended(o, message', requests')
  BY <1>2, <1>3, <1>4 DEF Ended
<1> QED
  BY <1>1, <1>3, <1>5 DEF IInv

(* A builder call keeps the message a message, without a resolve.           *)
LEMMA SetKeeps ==
    ASSUME IInv, NEW field \in Fields, NEW value \in Offers[field], Set(field, value)
    PROVE  IInv'
<1>1. /\ outcome = Void /\ outcome' = Void /\ requests' = requests
      /\ setters < Setters /\ setters' = setters + 1
      /\ message' = [message EXCEPT ![field] = value]
  BY DEF Set
<1>2. message' \in Message
  <2>1. CASE field \in {"title", "body", "url", "url_title", "callback", "dedupe_key"}
    <3>1. value \in Text
      BY <2>1, OfferAssumption
    <3> QED
      BY <1>1, <2>1, <3>1 DEF IInv, Message
  <2>2. CASE field \in {"priority", "sound"}
    BY <1>1, <2>2, OfferAssumption DEF IInv, Message
  <2>3. CASE field \in {"retry", "expire"}
    <3>1. value \in Nat \cup {Off}
      BY <2>3, OfferAssumption
    <3> QED
      BY <1>1, <2>3, <3>1 DEF IInv, Message
  <2>4. CASE field \in {"ack", "silent"}
    <3>1. value \in BOOLEAN
      BY <2>4, OfferAssumption
    <3> QED
      BY <1>1, <2>4, <3>1 DEF IInv, Message
  <2>5. CASE field = "timestamp"
    <3>1. value \in Int
      BY <2>5, OfferAssumption
    <3> QED
      BY <1>1, <2>5, <3>1 DEF IInv, Message
  <2> QED
    BY <2>1, <2>2, <2>3, <2>4, <2>5 DEF Fields
<1>3. message'.resolve = Void
  <2>1. message.resolve = Void /\ message \in Message
    BY <1>1 DEF IInv
  <2>2. field # "resolve"
    BY DEF Fields
  <2> QED
    BY <1>1, <2>1, <2>2 DEF Message
<1>4. setters' \in 0 .. Setters
  BY <1>1, ArgumentAssumption DEF IInv
<1> QED
  BY <1>1, <1>2, <1>3, <1>4 DEF IInv

LEMMA Invariance == Spec => []IInv
<1>1. Init => IInv
  <2> SUFFICES ASSUME Init PROVE IInv
    OBVIOUS
  <2>1. New \in Message /\ New.resolve = Void
    BY DEF New, Message
  <2> QED
    BY <2>1, ArgumentAssumption DEF Init, IInv
<1>2. IInv /\ [Next]_vars => IInv'
  <2> SUFFICES ASSUME IInv, [Next]_vars PROVE IInv'
    OBVIOUS
  <2>0. message \in Message
    BY DEF IInv
  <2>1. ASSUME NEW field \in Fields, NEW value \in Offers[field], Set(field, value)
        PROVE  IInv'
    BY <2>1, SetKeeps
  <2>2. ASSUME outcome = Void PROVE Keyed(message)
    <3>1. message.resolve = Void /\ "1" # Void
      BY <2>2, VoidApart DEF IInv, Literals
    <3> QED
      BY <3>1 DEF Keyed
  <2>3. CASE Send
    <3>1. outcome = Void /\ Finish("send", message)
      BY <2>3 DEF Send, Finish
    <3> QED
      BY <2>0, <2>2, <3>1, FinishEnds DEF Said, Operations
  <2>4. CASE Ping
    <3>1. outcome = Void /\ Finish("ping", message)
      BY <2>4 DEF Ping, Finish
    <3> QED
      BY <2>0, <2>2, <3>1, FinishEnds DEF Said, Operations
  <2>5. CASE Fail
    <3>1. outcome = Void /\ Finish("fail", message)
      BY <2>5 DEF Fail, Finish
    <3> QED
      BY <2>0, <2>2, <3>1, FinishEnds DEF Said, Operations
  <2>6. CASE Page
    <3> DEFINE m == [message EXCEPT !.priority = "page"]
    <3>1. outcome = Void /\ Finish("page", m)
      BY <2>6 DEF Page, Finish
    <3>2. m \in Message
      BY <2>0 DEF Message, Priorities
    <3>3. m.priority = "page" /\ m.resolve = message.resolve
      BY <2>0 DEF Message
    <3>4. "1" # Void /\ message.resolve = Void
      BY <3>1, VoidApart DEF IInv, Literals
    <3>5. Keyed(m) /\ Said("page", m)
      BY <3>3, <3>4 DEF Keyed, Said
    <3> HIDE DEF m
    <3> QED
      BY <3>1, <3>2, <3>5, FinishEnds DEF Operations
  <2>7. ASSUME NEW key \in Keys, ResolveKey(key) PROVE IInv'
    <3>1. CASE key.chars = 0
      BY <2>7, <3>1, RefuseEnds DEF ResolveKey, Operations
    <3>2. CASE key.chars # 0
      <4> DEFINE m == [message EXCEPT !.dedupe_key = key, !.resolve = "1"]
      <4>1. Finish("resolve_key", m)
        BY <2>7, <3>2 DEF ResolveKey
      <4>2. key \in Text /\ key.chars > 0 /\ key # Void
        <5>1. key \in Text
          BY ArgumentAssumption
        <5>2. key.chars \in Nat
          BY <5>1 DEF Text
        <5> QED
          BY <3>2, <5>1, <5>2, VoidApart
      <4>3. m \in Message
        BY <2>0, <4>2 DEF Message
      <4>4. m.dedupe_key = key /\ m.resolve = "1"
        BY <2>0 DEF Message
      <4>5. Keyed(m) /\ Said("resolve_key", m)
        BY <4>2, <4>4 DEF Keyed, Said
      <4> HIDE DEF m
      <4> QED
        BY <4>1, <4>3, <4>5, FinishEnds DEF Operations
    <3> QED
      BY <3>1, <3>2
  <2>8. ASSUME NEW id \in MessageIds, ResolveMessage(id) PROVE IInv'
    <3>1. CASE ~ IsMessageId(id)
      BY <2>8, <3>1, RefuseEnds DEF ResolveMessage, Operations
    <3>2. CASE IsMessageId(id)
      <4> DEFINE m == [message EXCEPT !.resolve = "id"]
      <4>1. Finish("resolve_message", m)
        BY <2>8, <3>2 DEF ResolveMessage
      <4>2. m \in Message
        BY <2>0 DEF Message
      <4>3. m.resolve = "id"
        BY <2>0 DEF Message
      <4>4. Keyed(m) /\ Said("resolve_message", m)
        BY <4>3 DEF Keyed, Said
      <4> HIDE DEF m
      <4> QED
        BY <4>1, <4>2, <4>4, FinishEnds DEF Operations
    <3> QED
      BY <3>1, <3>2
  <2>9. CASE UNCHANGED vars
    BY <2>9 DEF vars, IInv
  <2> QED
    BY <2>1, <2>3, <2>4, <2>5, <2>6, <2>7, <2>8, <2>9 DEF Next
<1> QED
  BY <1>1, <1>2, PTL DEF Spec

-----------------------------------------------------------------------------
(* A message is a message throughout, and costs a request or none, for all  *)
(* callers (rust/src/message.rs, rust/src/channel.rs:55-99).               *)
THEOREM MessageTypes == Spec => []TypeOK
<1>1. IInv => TypeOK
  <2> SUFFICES ASSUME IInv PROVE TypeOK
    OBVIOUS
  <2>1. CASE outcome = Void
    BY <2>1 DEF IInv, TypeOK, Sent
  <2>2. CASE outcome # Void
    <3>1. outcome \in Outcome /\ requests = IF outcome.refused = Void THEN 1 ELSE 0
      BY <2>2 DEF IInv, Ended
    <3> QED
      BY <2>2, <3>1 DEF IInv, TypeOK, Sent
  <2> QED
    BY <2>1, <2>2
<1> QED
  BY <1>1, Invariance, PTL

LEMMA SentWasChecked ==
    ASSUME IInv, Sent
    PROVE  /\ message \in Message /\ Refusal(message) = Void
           /\ outcome.form = Form(message)
           /\ Keyed(message) /\ Said(outcome.op, message)
<1>1. outcome # Void /\ outcome.refused = Void
  BY DEF Sent
<1>2. outcome.refused # "argument"
  BY <1>1, VoidApart DEF Literals, Refusals
<1>3. AsChecked(outcome, message) /\ message \in Message
  BY <1>1, <1>2 DEF IInv, Ended
<1> QED
  BY <1>1, <1>3 DEF AsChecked

(* Whatever is set on a message in whatever order, what is sent is what     *)
(* Mast takes: every limit of message.rs:57-66 is checked on the message    *)
(* the operation completes, not on the one it was handed.                  *)
THEOREM WhatIsSentIsTaken == Spec => []DoomedStayHere
<1>1. IInv => DoomedStayHere
  <2> SUFFICES ASSUME IInv, Sent PROVE Takes(outcome.form)
    BY DEF DoomedStayHere
  <2> QED
    BY SentWasChecked, PassedIsTaken
<1> QED
  BY <1>1, Invariance, PTL

(* And what is refused is refused for a reason Mast has too, or for a       *)
(* duration that is not whole seconds or no time at all.                   *)
THEOREM WhatIsRefusedIsNot == Spec => []RefusedWereDoomed
<1>1. IInv => RefusedWereDoomed
  <2> SUFFICES ASSUME IInv, outcome # Void, ~ Sent, outcome.refused # "argument"
               PROVE  \/ Excused(message, outcome.refused)
                      \/ ~ Takes(Form(message))
    BY DEF RefusedWereDoomed, Excused
  <2>1. AsChecked(outcome, message) /\ message \in Message
    BY DEF IInv, Ended
  <2>2. outcome.refused = Refusal(message) /\ Refusal(message) # Void
    BY <2>1 DEF AsChecked, Sent
  <2> QED
    BY <2>1, <2>2, RefusedIsNotTaken
<1> QED
  BY <1>1, Invariance, PTL

(* page() rings and the resolves have their target, over anything the       *)
(* builder was told (channel.rs:63-86).                                    *)
THEOREM OperationHasTheLastWord == Spec => []OperationPrevails
<1>1. IInv => OperationPrevails
  <2> SUFFICES ASSUME IInv, Sent PROVE OperationPrevails
    BY DEF OperationPrevails
  <2>1. /\ message \in Message /\ outcome.form = Form(message)
        /\ Said(outcome.op, message)
    BY SentWasChecked
  <2>2. SilenceFits(outcome.form)
    BY SentWasChecked, PassedIsTaken DEF Takes
  <2>3. /\ outcome.form.priority = message.priority
        /\ outcome.form.resolve = message.resolve
        /\ outcome.form.key = message.dedupe_key
        /\ outcome.form.silent \in {"1", Void}
    BY <2>1, FormFields
  <2>4. outcome.op = "page" => outcome.form.priority = "page" /\ outcome.form.silent = Void
    BY <2>1, <2>2, <2>3 DEF Said, SilenceFits
  <2>5. outcome.op = "resolve_key" =>
          outcome.form.resolve = "1" /\ outcome.form.key \in Keys
    BY <2>1, <2>3 DEF Said
  <2>6. outcome.op = "resolve_message" => outcome.form.resolve = "id"
    BY <2>1, <2>3 DEF Said
  <2> QED
    BY <2>4, <2>5, <2>6 DEF OperationPrevails
<1> QED
  BY <1>1, Invariance, PTL

-----------------------------------------------------------------------------
(* The calendar.                                                            *)

(* A number of years is eras of four hundred and a year of the era.         *)
LEMMA EraOfYear ==
    ASSUME NEW y \in Int, NEW q \in Int, q = y \div 400
    PROVE  y - 400 * q \in 0 .. 399 /\ y - 400 * q = y % 400
OBVIOUS

(* Division towards zero of what the code divides is division downwards.    *)
LEMMA EraIsFloor ==
    ASSUME NEW y \in Int
    PROVE  Quotient(IF y >= 0 THEN y ELSE y - 399, 400) = y \div 400
<1>1. CASE y >= 0
  BY <1>1 DEF Quotient
<1>2. CASE y < 0
  <2>1. PICK q \in Int : q = y \div 400
    OBVIOUS
  <2>2. (- (y - 399)) \div 400 = - q
    BY <2>1, EraOfYear
  <2> QED
    BY <1>2, <2>1, <2>2 DEF Quotient
<1> QED
  BY <1>1, <1>2

(* The days of so many eras and so many years, without the sign.            *)
DaysInEras(q, r) == q * 146097 + r * 365 + r \div 4 - r \div 100

LEMMA YearsInEras ==
    ASSUME NEW y \in Int
    PROVE  DaysOfYears(y) = DaysInEras(y \div 400, y % 400) /\ DaysOfYears(y) \in Int
<1>0. y \div 400 \in Int
  OBVIOUS
<1>1. PICK q \in Int : q = y \div 400
  BY <1>0, Zenon
<1>2. Quotient(IF y >= 0 THEN y ELSE y - 399, 400) = q
  BY <1>1, EraIsFloor
<1>3. DaysOfYears(y) = DaysInEras(q, y - q * 400)
  BY <1>2 DEF DaysOfYears, DaysInEras
<1>4. y - q * 400 = y % 400 /\ y % 400 \in 0 .. 399
  BY <1>1, EraOfYear
<1> QED
  BY <1>1, <1>3, <1>4 DEF DaysInEras

(* From one first of March to the next there are 365 days, and one more     *)
(* when the February between them is long.                                 *)
LEMMA YearIsCounted ==
    ASSUME NEW y \in Int
    PROVE  DaysOfYears(y) = DaysOfYears(y - 1) + 337 + Length(y, 2)
<1>1. PICK q \in Int, r \in 0 .. 399 :
          q = y \div 400 /\ r = y % 400 /\ y = 400 * q + r
  <2>0. y \div 400 \in Int
    OBVIOUS
  <2>1. PICK q \in Int : q = y \div 400
    BY <2>0, Zenon
  <2>2. y - 400 * q \in 0 .. 399 /\ y - 400 * q = y % 400
    BY <2>1, EraOfYear
  <2> QED
    BY <2>1, <2>2
<1>2. DaysOfYears(y) = DaysInEras(q, r)
  BY <1>1, YearsInEras
<1>3. y % 4 = r % 4 /\ y % 100 = r % 100 /\ y % 400 = r
  BY <1>1
<1>4. Length(y, 2) = IF r % 4 = 0 /\ (r % 100 # 0 \/ r = 0) THEN 29 ELSE 28
  BY <1>1, <1>3 DEF Length, Leap
<1> DEFINE z == y - 1
<1>z. z \in Int /\ DaysOfYears(z) = DaysInEras(z \div 400, z % 400)
  <2>1. z \in Int
    OBVIOUS
  <2> HIDE DEF z
  <2> QED
    BY <2>1, YearsInEras
<1>5. CASE r = 0
  <2>1. (y - 1) \div 400 = q - 1 /\ (y - 1) % 400 = 399
    BY <1>1, <1>5
  <2>2. DaysOfYears(y - 1) = DaysInEras(q - 1, 399)
    BY <1>z, <2>1
  <2> QED
    BY <1>1, <1>2, <1>4, <1>5, <2>1, <2>2 DEF DaysInEras
<1>6. CASE r # 0
  <2>1. (y - 1) \div 400 = q /\ (y - 1) % 400 = r - 1
    BY <1>1, <1>6
  <2>2. DaysOfYears(y - 1) = DaysInEras(q, r - 1)
    BY <1>z, <2>1
  <2>3. r \div 4 - (r - 1) \div 4 = IF r % 4 = 0 THEN 1 ELSE 0
    BY <1>1, <1>6
  <2>4. r \div 100 - (r - 1) \div 100 = IF r % 100 = 0 THEN 1 ELSE 0
    BY <1>1, <1>6
  <2>5. r % 100 = 0 => r % 4 = 0
    BY <1>1
  <2> QED
    BY <1>1, <1>2, <1>4, <1>6, <2>1, <2>2, <2>3, <2>4, <2>5 DEF DaysInEras
<1> QED
  BY <1>1, <1>5, <1>6

(* The month after a month, wherever the year ends.                         *)
LEMMA MonthIsCounted ==
    ASSUME NEW y \in Int, NEW m \in 1 .. 12
    PROVE  IF m = 12
           THEN DaysFromCivil(y + 1, 1, 1) = DaysFromCivil(y, m, 1) + Length(y, m)
           ELSE DaysFromCivil(y, m + 1, 1) = DaysFromCivil(y, m, 1) + Length(y, m)
<1>1. DaysOfYears(y) \in Int /\ DaysOfYears(y - 1) \in Int
  BY YearsInEras
<1>2. CASE m = 12
  <2>1. MarchYear(y + 1, 1) = y /\ MarchYear(y, 12) = y
    BY DEF MarchYear
  <2>2. DayOfYear(1, 1) = DayOfYear(12, 1) + 31 /\ DayOfYear(12, 1) \in Int
    BY DEF DayOfYear
  <2> QED
    BY <1>1, <1>2, <2>1, <2>2 DEF DaysFromCivil, Length
<1>3. CASE m = 2
  <2>1. MarchYear(y, 3) = y /\ MarchYear(y, 2) = y - 1
    BY DEF MarchYear
  <2>2. DayOfYear(3, 1) = 0 /\ DayOfYear(2, 1) = 337
    BY DEF DayOfYear
  <2>3. Length(y, 2) \in Int
    BY DEF Length
  <2> QED
    BY <1>1, <1>3, <2>1, <2>2, <2>3, YearIsCounted DEF DaysFromCivil
<1>4. CASE m \notin {2, 12}
  <2>1. MarchYear(y, m + 1) = MarchYear(y, m) /\ MarchYear(y, m) \in {y, y - 1}
    BY <1>4 DEF MarchYear
  <2>2. DayOfYear(m + 1, 1) = DayOfYear(m, 1) + Length(y, m) /\ DayOfYear(m, 1) \in Int
    BY <1>4 DEF DayOfYear, Length
  <2>3. Length(y, m) \in Int
    BY <1>4 DEF Length
  <2> QED
    BY <1>1, <1>4, <2>1, <2>2, <2>3 DEF DaysFromCivil
<1> QED
  BY <1>2, <1>3, <1>4

(* A day of a month is as many days on as it says.                          *)
LEMMA DayIsCounted ==
    ASSUME NEW y \in Int, NEW m \in 1 .. 12, NEW d \in Int
    PROVE  /\ DaysFromCivil(y, m, d) = DaysFromCivil(y, m, 1) + d - 1
           /\ DaysFromCivil(y, m, d) \in Int
<1>1. MarchYear(y, m) \in Int
  BY DEF MarchYear
<1>2. DaysOfYears(MarchYear(y, m)) \in Int
  BY <1>1, YearsInEras
<1>3. DayOfYear(m, d) = DayOfYear(m, 1) + d - 1 /\ DayOfYear(m, 1) \in Int
  BY DEF DayOfYear
<1> QED
  BY <1>2, <1>3 DEF DaysFromCivil

LEMMA LengthIsNat ==
    ASSUME NEW y, NEW m \in 1 .. 12
    PROVE  Length(y, m) \in 28 .. 31
BY DEF Length

LEMMA FirstIsInt ==
    ASSUME NEW y \in Int, NEW m \in 1 .. 12
    PROVE  DaysFromCivil(y, m, 1) \in Int
BY 1 \in Int, DayIsCounted

(* The page of the calendar is a month, and the count is at its first.      *)
OnThePage ==
    /\ year \in Int /\ month \in 1 .. 12
    /\ days = DaysFromCivil(year, month, 1)

LEMMA OnThePageInductive == CivilSpec => []OnThePage
<1>1. CivilInit => OnThePage
  BY DEF CivilInit, OnThePage, DaysFromCivil, DaysOfYears, MarchYear, DayOfYear, Quotient
<1>2. OnThePage /\ [CivilNext]_civilVars => OnThePage'
  <2> SUFFICES ASSUME OnThePage, [CivilNext]_civilVars
               PROVE  OnThePage'
    OBVIOUS
  <2>1. year \in Int /\ month \in 1 .. 12 /\ days = DaysFromCivil(year, month, 1)
    BY DEF OnThePage
  <2>2. CASE TurnForward
    <3>1. days' = DaysFromCivil(year, month, 1) + Length(year, month)
      BY <2>1, <2>2 DEF TurnForward
    <3>2. CASE month = 12
      BY <2>1, <2>2, <3>1, <3>2, MonthIsCounted DEF TurnForward, OnThePage
    <3>3. CASE month # 12
      BY <2>1, <2>2, <3>1, <3>3, MonthIsCounted DEF TurnForward, OnThePage
    <3> QED
      BY <3>2, <3>3
  <2>3. CASE TurnBack
    <3>1. days' = DaysFromCivil(year, month, 1) - Length(year', month')
      BY <2>1, <2>3 DEF TurnBack
    <3>2. CASE month = 1
      <4>1. PICK z \in Int : z = year - 1 /\ z + 1 = year
        BY <2>1
      <4>2. year' = z /\ month' = 12
        BY <2>3, <3>2, <4>1 DEF TurnBack, Before
      <4>3. DaysFromCivil(z + 1, 1, 1) = DaysFromCivil(z, 12, 1) + Length(z, 12)
        BY MonthIsCounted
      <4>4. DaysFromCivil(z, 12, 1) \in Int
        BY 12 \in 1 .. 12, FirstIsInt
      <4>5. Length(z, 12) \in Int
        BY DEF Length
      <4> QED
        BY <2>1, <3>1, <3>2, <4>1, <4>2, <4>3, <4>4, <4>5 DEF OnThePage
    <3>3. CASE month # 1
      <4>1. year' = year /\ month' = month - 1
        BY <2>3, <3>3 DEF TurnBack, Before
      <4>2. PICK m \in 1 .. 11 : m = month - 1 /\ m + 1 = month
        BY <2>1, <3>3
      <4>3. DaysFromCivil(year, m + 1, 1) = DaysFromCivil(year, m, 1) + Length(year, m)
        BY <2>1, MonthIsCounted
      <4>4. m \in 1 .. 12
        OBVIOUS
      <4>5. DaysFromCivil(year, m, 1) \in Int
        BY <2>1, <4>4, FirstIsInt
      <4>6. Length(year, m) \in Int
        BY <4>4, LengthIsNat
      <4> QED
        BY <2>1, <3>1, <4>1, <4>2, <4>3, <4>5, <4>6 DEF OnThePage
    <3> QED
      BY <3>2, <3>3
  <2>4. CASE Receive \/ Acknowledge \/ Resolve
    BY <2>4 DEF Receive, Acknowledge, Resolve, OnThePage
  <2>5. CASE UNCHANGED civilVars
    BY <2>5 DEF civilVars, OnThePage
  <2> QED
    BY <2>2, <2>3, <2>4, <2>5 DEF CivilNext
<1> QED
  BY <1>1, <1>2, PTL DEF CivilSpec

(* For every year there is, before the year 0 too: a day of the calendar    *)
(* has the number days_from_civil gives it.  The run counts some thousands *)
(* of years; this holds of all.                                            *)
THEOREM CalendarIsCounted == CivilSpec => []DaysCounted
<1>1. OnThePage => DaysCounted
  <2> SUFFICES ASSUME OnThePage, NEW d \in 1 .. Length(year, month)
               PROVE  DaysFromCivil(year, month, d) = days + d - 1
    BY DEF DaysCounted
  <2>1. d \in Int
    BY LengthIsNat DEF OnThePage
  <2> QED
    BY <2>1, DayIsCounted DEF OnThePage
<1> QED
  BY <1>1, OnThePageInductive, PTL

-----------------------------------------------------------------------------
(* A card has instants of the calendar, which the client reads as they were *)
(* counted.                                                                *)
IsRead(instant) ==
    /\ instant \in Instant /\ instant.stamp.utc
    /\ EpochSeconds(instant.stamp) = [days |-> instant.days, seconds |-> instant.seconds]

CardIsRead ==
    /\ card \in [{"received", "acked", "resolved"} -> Instant \cup {None}]
    /\ \A f \in {"received", "acked", "resolved"} : card[f] = None \/ IsRead(card[f])

LEMMA InstantIsRead ==
    ASSUME OnThePage, NEW now \in Instants
    PROVE  IsRead(now)
<1>1. PICK d \in MonthDays \cap 1 .. Length(year, month), c \in Clocks :
          now = [stamp |-> [year |-> year, month |-> month, day |-> d, hour |-> c.hour,
                            minute |-> c.minute, second |-> c.second, utc |-> TRUE],
                 days    |-> days + d - 1,
                 seconds |-> c.hour * 3600 + c.minute * 60 + c.second]
  BY DEF Instants
<1>2. /\ year \in Int /\ month \in 1 .. 12 /\ days = DaysFromCivil(year, month, 1)
      /\ Length(year, month) \in 28 .. 31
  BY LengthIsNat DEF OnThePage
<1>3. d \in 1 .. 31 /\ d \in Int
  BY <1>2
<1>4. c.hour \in Int /\ c.minute \in Int /\ c.second \in Int
  BY StampAssumption DEF Clock
<1>5. DaysFromCivil(year, month, d) = days + d - 1 /\ days + d - 1 \in Int
  BY <1>2, <1>3, DayIsCounted, FirstIsInt
<1>6. now \in Instant /\ now.stamp.utc
  BY <1>1, <1>2, <1>3, <1>4, <1>5 DEF Instant, Stamp
<1>7. EpochSeconds(now.stamp) = [days |-> now.days, seconds |-> now.seconds]
  BY <1>1, <1>2, <1>3, <1>5 DEF EpochSeconds
<1> QED
  BY <1>6, <1>7 DEF IsRead

LEMMA CardIsReadInductive == CivilSpec => []CardIsRead
<1>1. CivilInit => CardIsRead
  BY DEF CivilInit, CardIsRead, Unstamped
<1>2. OnThePage /\ CardIsRead /\ [CivilNext]_civilVars => CardIsRead'
  <2> SUFFICES ASSUME OnThePage, CardIsRead, [CivilNext]_civilVars
               PROVE  CardIsRead'
    OBVIOUS
  <2>1. ASSUME NEW f \in {"received", "acked", "resolved"}, NEW now \in Instants,
               card' = [card EXCEPT ![f] = now]
        PROVE  CardIsRead'
    <3>1. IsRead(now) /\ now \in Instant
      BY InstantIsRead DEF IsRead
    <3> QED
      BY <2>1, <3>1 DEF CardIsRead, IsRead
  <2>2. CASE TurnForward \/ TurnBack \/ UNCHANGED civilVars
    <3>1. card' = card
      BY <2>2 DEF TurnForward, TurnBack, civilVars
    <3> QED
      BY <3>1 DEF CardIsRead, IsRead
  <2>3. CASE Receive
    BY <2>1, <2>3 DEF Receive
  <2>4. CASE Acknowledge
    BY <2>1, <2>4 DEF Acknowledge
  <2>5. CASE Resolve
    BY <2>1, <2>5 DEF Resolve
  <2> QED
    BY <2>2, <2>3, <2>4, <2>5 DEF CivilNext
<1> QED
  BY <1>1, <1>2, OnThePageInductive, PTL DEF CivilSpec

(* What the client reads of a stamp Mast may have left out or garbled.      *)
LEMMA ReadOfWritten ==
    ASSUME NEW i \in Instant \cup {None}, i = None \/ IsRead(i),
           NEW f, NEW omitted, NEW garbled
    PROVE  /\ Written(i, f, omitted, garbled) = None <=> i = None \/ f \in omitted
           /\ Read(Written(i, f, omitted, garbled)) =
                 IF i = None \/ f \in omitted \cup garbled THEN None
                 ELSE [days |-> i.days, seconds |-> i.seconds]
<1>1. CASE i = None \/ f \in omitted
  BY <1>1 DEF Written, Read
<1>2. CASE i # None /\ f \notin omitted
  <2>1. IsRead(i) /\ i.stamp \in Stamp /\ i.stamp # None
    BY <1>2, UnknownAssumption, UnstampedAssumption DEF IsRead, Instant
  <2>2. CASE f \in garbled
    <3> DEFINE w == [i.stamp EXCEPT !.utc = FALSE]
    <3>1. w \in Stamp /\ ~ w.utc
      BY <2>1 DEF Stamp
    <3>2. w # None
      BY <3>1, UnknownAssumption
    <3>3. Written(i, f, omitted, garbled) = w
      BY <1>2, <2>2 DEF Written
    <3>4. EpochSeconds(w) = None
      BY <3>1 DEF EpochSeconds
    <3> QED
      BY <1>2, <2>2, <3>2, <3>3, <3>4 DEF Read
  <2>3. CASE f \notin garbled
    BY <1>2, <2>1, <2>3 DEF Written, Read, IsRead
  <2> QED
    BY <2>2, <2>3
<1> QED
  BY <1>1, <1>2

(* open_for is the time that passed, for every card whose stamps are of the *)
(* calendar, whichever stamps Mast leaves out and whichever cannot be read.*)
THEOREM OpenForIsRight == CivilSpec => []OpenForIsElapsed
<1>1. CardIsRead => OpenForIsElapsed
  <2> SUFFICES ASSUME CardIsRead, NEW omitted \in SUBSET {"received", "acked", "resolved"},
                      NEW garbled \in SUBSET {"received", "acked", "resolved"}
               PROVE  LET end    == IF card.acked # None /\ "acked" \notin omitted
                                    THEN "acked" ELSE "resolved"
                          needed == {"received", end}
                          known  == /\ needed \cap (omitted \cup garbled) = {}
                                    /\ card.received # None /\ card[end] # None
                          passed == Elapsed(card.received, card[end])
                      IN  OpenFor(StatusOf(omitted, garbled)) =
                              IF ~ known THEN None ELSE IF passed < 0 THEN 0 ELSE passed
    BY DEF OpenForIsElapsed
  <2> DEFINE w(f) == Written(card[f], f, omitted, garbled)
             m(f) == [days |-> card[f].days, seconds |-> card[f].seconds]
             end  == IF card.acked # None /\ "acked" \notin omitted THEN "acked" ELSE "resolved"
  <2>1. \A f \in {"received", "acked", "resolved"} :
            /\ w(f) = None <=> card[f] = None \/ f \in omitted
            /\ Read(w(f)) = IF card[f] = None \/ f \in omitted \cup garbled THEN None ELSE m(f)
            /\ card[f] # None => m(f) \in Moment
    BY ReadOfWritten DEF CardIsRead, Instant, Moment
  <2>2. /\ StatusOf(omitted, garbled).received_at = w("received")
        /\ EndOf(StatusOf(omitted, garbled)) = w(end)
    BY <2>1 DEF StatusOf, EndOf
  <2> HIDE DEF w, m
  <2>3. OpenFor(StatusOf(omitted, garbled)) =
            IF Read(w("received")) = None \/ Read(w(end)) = None THEN None
            ELSE NotNegative(Elapsed(Read(w("received")), Read(w(end))))
    BY <2>2 DEF OpenFor
  <2>4. CASE \/ {"received", end} \cap (omitted \cup garbled) # {}
             \/ card.received = None \/ card[end] = None
    BY <2>1, <2>3, <2>4
  <2>5. CASE /\ {"received", end} \cap (omitted \cup garbled) = {}
             /\ card.received # None /\ card[end] # None
    <3>1. /\ Read(w("received")) = m("received") /\ Read(w(end)) = m(end)
          /\ m("received") \in Moment /\ m(end) \in Moment
      BY <2>1, <2>5
    <3>2. OpenFor(StatusOf(omitted, garbled)) = NotNegative(Elapsed(m("received"), m(end)))
      BY <2>3, <3>1, UnknownAssumption
    <3>3. /\ Elapsed(m("received"), m(end)) = Elapsed(card.received, card[end])
          /\ Elapsed(m("received"), m(end)) \in Int
      BY <3>1 DEF Elapsed, Moment, m
    <3> QED
      BY <2>5, <3>2, <3>3 DEF NotNegative
  <2> QED
    BY <2>4, <2>5
<1> QED
  BY <1>1, CardIsReadInductive, PTL

-----------------------------------------------------------------------------
(* Channel URLs: where the parser looks.                                    *)

LEMMA PathIs ==
    ASSUME NEW path \in Paths
    PROVE  /\ Len(path) \in Nat /\ DOMAIN path = 1 .. Len(path)
           /\ \A i \in 1 .. Len(path) : path[i] \in Segments
<1>1. PICK n \in 0 .. Depth : path \in [1 .. n -> Segments]
  BY DEF Paths
<1>2. n \in Nat
  BY TextAssumption
<1>3. Len(path) = n
  BY <1>1, <1>2
<1> QED
  BY <1>1, <1>2, <1>3

Signs == /\ Empty # "m" /\ Empty # DefaultHost
         /\ \A key \in KeyTexts : key # Empty /\ key # "m" /\ key # DefaultHost

LEMMA SignsAreApart == Signs
BY TextAssumption DEF Signs, Empty, DefaultHost

(* The iterator stops at the next part that is not empty, and nowhere else. *)
IsNext(path, k, j) ==
    /\ j \in k + 1 .. Len(path) + 1
    /\ \A i \in k + 1 .. j - 1 : path[i] = Empty
    /\ j <= Len(path) => path[j] # Empty

LEMMA NextIs ==
    ASSUME NEW path \in Paths, NEW k \in 0 .. Len(path)
    PROVE  IsNext(path, k, NextAfter(path, k))
<1> DEFINE n == Len(path) + 1
           S == { j \in 1 .. n : j > k /\ (j < n => path[j] # Empty) }
<1>1. n \in Nat /\ k \in Nat /\ n = Len(path) + 1 /\ k < n
  BY PathIs
<1>2. S \in SUBSET (1 .. n) /\ n \in S
  BY <1>1
<1>3. PICK j \in S : \A i \in S : j <= i
  <2> HIDE DEF S, n
  <2> QED
    BY <1>1, <1>2, LeastOf
<1>4. j \in k + 1 .. n /\ (j < n => path[j] # Empty)
  BY <1>1
<1>5. ASSUME NEW i \in k + 1 .. j - 1 PROVE path[i] = Empty
  BY <1>1, <1>3, <1>4
<1>6. IsNext(path, k, j)
  BY <1>1, <1>4, <1>5 DEF IsNext
<1> QED
  BY <1>6 DEF NextAfter, IsNext

LEMMA NextIsOne ==
    ASSUME NEW path \in Paths, NEW k \in 0 .. Len(path), NEW j \in 1 .. Len(path),
           IsNext(path, k, j)
    PROVE  NextAfter(path, k) = j
<1>1. PICK n : n = NextAfter(path, k)
  OBVIOUS
<1>2. IsNext(path, k, n)
  BY <1>1, NextIs
<1>3. Len(path) \in Nat /\ k \in Nat /\ n \in Nat /\ j \in Nat
  BY <1>2, PathIs DEF IsNext
<1>4. ~ n < j
  BY <1>2, <1>3 DEF IsNext
<1>5. ~ j < n
  BY <1>2, <1>3 DEF IsNext
<1> QED
  BY <1>1, <1>3, <1>4, <1>5

(* What the parser takes for the key and for the prefix is what stands      *)
(* where Spells looks for them.                                            *)
KeyStands(path, prefix, key) ==
    \E k \in DOMAIN path :
        /\ path[k] = key
        /\ \A i \in 1 .. k - 1 : path[i] \in {Empty, "m"}
        /\ IF prefix = << >> THEN \A i \in 1 .. k - 1 : path[i] # "m"
           ELSE \E i \in 1 .. k - 1 : \A n \in 1 .. k - 1 : path[n] = "m" <=> n = i

LEMMA KeyIsFound ==
    ASSUME NEW path \in Paths, NEW prefix \in {<< >>, << "m" >>}, NEW key \in KeyTexts
    PROVE  /\ Part(path, KeyPart(path)) = key
           /\ prefix = IF HasM(path) THEN << "m" >> ELSE << >>
           <=> KeyStands(path, prefix, key)
<1>0. /\ Len(path) \in Nat /\ DOMAIN path = 1 .. Len(path) /\ 0 \in 0 .. Len(path)
      /\ << >> # << "m" >> /\ key # Empty /\ key # "m" /\ Empty # "m"
  BY PathIs, SignsAreApart DEF Signs
<1>1. PICK one : one = NextAfter(path, 0) /\ IsNext(path, 0, one)
  BY <1>0, NextIs
<1>2. one \in 1 .. Len(path) + 1 /\ \A i \in 1 .. one - 1 : path[i] = Empty
  BY <1>0, <1>1 DEF IsNext
<1>3. CASE HasM(path)
  <2>1. one \in 1 .. Len(path) /\ path[one] = "m" /\ one \in 0 .. Len(path)
    BY <1>0, <1>1, <1>2, <1>3 DEF HasM, Part
  <2>2. PICK two : two = NextAfter(path, one) /\ IsNext(path, one, two)
    BY <2>1, NextIs
  <2>3. KeyPart(path) = two
    BY <1>1, <1>3, <2>2 DEF KeyPart
  <2>4. /\ two \in one + 1 .. Len(path) + 1 /\ \A i \in one + 1 .. two - 1 : path[i] = Empty
    BY <2>2 DEF IsNext
  <2>5. ASSUME Part(path, two) = key, prefix = << "m" >>
        PROVE  KeyStands(path, prefix, key)
    <3>1. two \in 1 .. Len(path) /\ path[two] = key
      BY <1>0, <1>2, <2>1, <2>4, <2>5 DEF Part
    <3>2. \A i \in 1 .. two - 1 : path[i] = IF i = one THEN "m" ELSE Empty
      BY <1>0, <1>2, <2>1, <2>4, <3>1
    <3>3. one \in 1 .. two - 1
      BY <1>0, <2>1, <2>4
    <3> QED
      BY <1>0, <2>5, <3>1, <3>2, <3>3 DEF KeyStands
  <2>6. ASSUME KeyStands(path, prefix, key)
        PROVE  Part(path, two) = key /\ prefix = << "m" >>
    <3>1. PICK k \in 1 .. Len(path) :
             /\ path[k] = key
             /\ \A i \in 1 .. k - 1 : path[i] \in {Empty, "m"}
             /\ IF prefix = << >> THEN \A i \in 1 .. k - 1 : path[i] # "m"
                ELSE \E i \in 1 .. k - 1 : \A n \in 1 .. k - 1 : path[n] = "m" <=> n = i
      BY <1>0, <2>6 DEF KeyStands
    <3>2. one < k /\ one \in 1 .. k - 1
      <4>1. ~ k < one
        BY <1>0, <1>2, <3>1
      <4>2. k # one
        BY <1>0, <2>1, <3>1
      <4> QED
        BY <2>1, <4>1, <4>2
    <3>3. prefix # << >>
      BY <2>1, <3>1, <3>2
    <3>4. \A n \in one + 1 .. k - 1 : path[n] = Empty
      <4>1. PICK i \in 1 .. k - 1 : \A n \in 1 .. k - 1 : path[n] = "m" <=> n = i
        BY <3>1, <3>3
      <4>2. i = one
        BY <2>1, <3>2, <4>1
      <4> SUFFICES ASSUME NEW n \in one + 1 .. k - 1 PROVE path[n] = Empty
        OBVIOUS
      <4>3. n \in 1 .. k - 1 /\ n # one
        BY <2>1
      <4> QED
        BY <3>1, <4>1, <4>2, <4>3
    <3>5. IsNext(path, one, k)
      BY <1>0, <2>1, <3>1, <3>2, <3>4 DEF IsNext
    <3>6. two = k
      BY <2>1, <2>2, <3>5, NextIsOne
    <3> QED
      BY <1>0, <3>1, <3>3, <3>6 DEF Part
  <2> QED
    BY <1>3, <2>3, <2>5, <2>6
<1>4. CASE ~ HasM(path)
  <2>1. KeyPart(path) = one /\ Part(path, one) # "m"
    BY <1>1, <1>4 DEF KeyPart, HasM
  <2>2. ASSUME Part(path, one) = key, prefix = << >>
        PROVE  KeyStands(path, prefix, key)
    <3>1. one \in 1 .. Len(path) /\ path[one] = key
      BY <1>0, <1>2, <2>2 DEF Part
    <3> QED
      BY <1>0, <1>2, <2>2, <3>1 DEF KeyStands
  <2>3. ASSUME KeyStands(path, prefix, key)
        PROVE  Part(path, one) = key /\ prefix = << >>
    <3>1. PICK k \in 1 .. Len(path) :
             /\ path[k] = key
             /\ \A i \in 1 .. k - 1 : path[i] \in {Empty, "m"}
             /\ IF prefix = << >> THEN \A i \in 1 .. k - 1 : path[i] # "m"
                ELSE \E i \in 1 .. k - 1 : \A n \in 1 .. k - 1 : path[n] = "m" <=> n = i
      BY <1>0, <2>3 DEF KeyStands
    <3>2. ~ k < one
      BY <1>0, <1>2, <3>1
    <3>3. ~ one < k
      <4> SUFFICES ASSUME one < k PROVE FALSE
        OBVIOUS
      <4>1. one \in 1 .. k - 1 /\ one <= Len(path)
        BY <1>0, <1>2
      <4>2. path[one] # Empty /\ path[one] # "m"
        BY <1>1, <2>1, <4>1 DEF IsNext, Part
      <4> QED
        BY <3>1, <4>1, <4>2
    <3>4. one = k
      BY <1>0, <1>2, <3>2, <3>3
    <3>5. prefix = << >>
      BY <1>0, <1>2, <3>1, <3>4
    <3> QED
      BY <1>0, <3>1, <3>4, <3>5 DEF Part
  <2> QED
    BY <1>4, <2>1, <2>2, <2>3
<1> QED
  BY <1>3, <1>4

LEMMA NoKeyWithoutPath ==
    ASSUME NEW text, text.path = Nothing
    PROVE  ~ IsKey(Candidate(text))
<1>1. Path(text) = << >> /\ << >> \in Paths /\ Len(<< >>) = 0
  <2>1. << >> \in [1 .. 0 -> Segments] /\ 0 \in 0 .. Depth
    BY TextAssumption
  <2> QED
    BY <2>1 DEF Path, Paths
<1>2. IsNext(<< >>, 0, NextAfter(<< >>, 0))
  BY <1>1, NextIs
<1>3. NextAfter(<< >>, 0) = 1
  BY <1>1, <1>2 DEF IsNext
<1>4. Candidate(text) = Empty
  BY <1>1, <1>3, SignsAreApart DEF Candidate, KeyPart, HasM, Part, Signs
<1> QED
  BY <1>4, SignsAreApart DEF IsKey, Signs

(* A text opens a channel exactly when it spells it.                        *)
LEMMA ParsesWhatIsSpelled ==
    ASSUME NEW text \in Pasted
    PROVE  /\ ParseChannelUrl(text) \in Channels(text) \cup {Nothing}
           /\ \A c \in Channels(text) : ParseChannelUrl(text) = c <=> Spells(text, c)
<1>0. Channels(text) \subseteq Channel /\ Nothing \notin Channels(text)
  <2>1. text.authority \in Authorities \cup KeyTexts /\ DefaultHost \in Authorities
    BY TextAssumption DEF Pasted
  <2>2. Channels(text) \subseteq Channel
    BY <2>1 DEF Channels, Channel
  <2> QED
    BY <2>2, NothingAssumption
<1>1. CASE text.path = Nothing /\ text = Alone(text.authority) /\ IsKey(text.authority)
  <2>1. ParseChannelUrl(text) = [scheme |-> "https", authority |-> DefaultHost,
                                 prefix |-> << >>, key |-> text.authority]
    BY <1>1 DEF ParseChannelUrl
  <2>2. ParseChannelUrl(text) \in Channels(text)
    BY <1>1, <2>1, SignsAreApart DEF Channels, IsKey, Signs
  <2>3. ASSUME NEW c \in Channels(text)
        PROVE  ParseChannelUrl(text) = c <=> Spells(text, c)
    <3>1. Spells(text, c) <=> /\ text = Alone(c.key) /\ c.scheme = "https"
                              /\ c.authority = DefaultHost /\ c.prefix = << >>
      BY <1>1 DEF Spells
    <3>2. text = Alone(c.key) <=> c.key = text.authority
      <4>1. \A t : Alone(t).authority = t
        BY DEF Alone
      <4> QED
        BY <1>1, <4>1
    <3>3. c = [scheme |-> c.scheme, authority |-> c.authority, prefix |-> c.prefix,
               key |-> c.key]
      BY DEF Channels
    <3> QED
      BY <2>1, <3>1, <3>2, <3>3
  <2> QED
    BY <2>2, <2>3
<1>2. CASE text.path = Nothing /\ ~ (text = Alone(text.authority) /\ IsKey(text.authority))
  <2>1. ParseChannelUrl(text) = Nothing
    BY <1>2, NoKeyWithoutPath DEF ParseChannelUrl, Refused
  <2>2. ASSUME NEW c \in Channels(text) PROVE ~ Spells(text, c)
    <3>1. c.key \in KeyTexts /\ Alone(c.key).authority = c.key
      BY DEF Channels, Alone
    <3> QED
      BY <1>2, <3>1 DEF Spells, IsKey
  <2> QED
    BY <1>0, <2>1, <2>2
<1>3. CASE text.path # Nothing
  <2>1. Path(text) = text.path /\ text.path \in Paths
    BY <1>3 DEF Path, Pasted
  <2>2. text # Alone(text.authority)
    BY <1>3 DEF Alone
  <2>3. PICK p : p = IF HasM(text.path) THEN << "m" >> ELSE << >>
    OBVIOUS
  <2>4. ParseChannelUrl(text) =
            IF Refused(text) THEN Nothing
            ELSE [scheme |-> Scheme(text), authority |-> text.authority,
                  prefix |-> p, key |-> Candidate(text)]
    BY <2>1, <2>2, <2>3 DEF ParseChannelUrl
  <2>5. ParseChannelUrl(text) \in Channels(text) \cup {Nothing}
    <3> SUFFICES ASSUME ~ Refused(text)
                 PROVE  ParseChannelUrl(text) \in Channels(text)
      BY <2>4
    <3>1. /\ Scheme(text) \in {"http", "https"} /\ text.authority # Empty
          /\ Candidate(text) \in KeyTexts /\ p \in {<< >>, << "m" >>}
      BY <2>3 DEF Refused, IsKey
    <3>2. ParseChannelUrl(text) = [scheme |-> Scheme(text), authority |-> text.authority,
                                   prefix |-> p, key |-> Candidate(text)]
      BY <2>4
    <3> HIDE DEF Scheme
    <3> QED
      BY <3>1, <3>2 DEF Channels
  <2>6. ASSUME NEW c \in Channels(text)
        PROVE  ParseChannelUrl(text) = c <=> Spells(text, c)
    <3>1. /\ c.scheme \in {"http", "https"} /\ c.authority # Empty /\ c.key \in KeyTexts
          /\ c.prefix \in {<< >>, << "m" >>}
          /\ c = [scheme |-> c.scheme, authority |-> c.authority, prefix |-> c.prefix,
                  key |-> c.key]
      BY DEF Channels
    <3>2. Candidate(text) = c.key /\ p = c.prefix <=> KeyStands(text.path, c.prefix, c.key)
      BY <2>1, <2>3, <3>1, KeyIsFound DEF Candidate
    <3>3. Scheme(text) = c.scheme <=>
              IF text.scheme = Nothing THEN c.scheme = "https" /\ text.tail # "url"
              ELSE c.scheme = Lower[text.scheme]
      BY <3>1 DEF Scheme
    <3>4. Spells(text, c) <=> /\ c.authority = text.authority /\ Scheme(text) = c.scheme
                              /\ Candidate(text) = c.key /\ p = c.prefix
      <4>1. text # Alone(c.key)
        BY <1>3 DEF Alone
      <4> QED
        BY <1>3, <3>2, <3>3, <4>1 DEF Spells, KeyStands
    <3>5. ParseChannelUrl(text) = c <=> /\ c.authority = text.authority
                                        /\ Scheme(text) = c.scheme
                                        /\ Candidate(text) = c.key /\ p = c.prefix
      <4>1. CASE Refused(text)
        <5>1. ParseChannelUrl(text) # c
          BY <1>0, <2>4, <4>1
        <5> QED
          BY <3>1, <4>1, <5>1 DEF Refused, IsKey
      <4>2. CASE ~ Refused(text)
        <5>1. ParseChannelUrl(text) = [scheme |-> Scheme(text), authority |-> text.authority,
                                       prefix |-> p, key |-> Candidate(text)]
          BY <2>4, <4>2
        <5> QED
          BY <3>1, <5>1
      <4> QED
        BY <4>1, <4>2
    <3> QED
      BY <3>4, <3>5
  <2> QED
    BY <2>5, <2>6
<1> QED
  BY <1>1, <1>2, <1>3

(* What the parser accepts is a channel: with a host, and with a key.       *)
LEMMA ChannelIs ==
    ASSUME NEW text \in Pasted, ParseChannelUrl(text) # Nothing
    PROVE  ParseChannelUrl(text) \in Channel
<1>1. ParseChannelUrl(text) \in Channels(text)
  BY ParsesWhatIsSpelled
<1>2. text.authority \in Authorities \cup KeyTexts /\ DefaultHost \in Authorities
  BY TextAssumption DEF Pasted
<1> QED
  BY <1>1, <1>2 DEF Channels, Channel

(* A channel is what the parser makes of the text that is on the clipboard. *)
UrlInv == /\ pasted \in Pasted \cup {Unread}
          /\ channel # Unread => pasted \in Pasted /\ channel = ParseChannelUrl(pasted)

(* url() is a text that can be pasted, and the parser reads it back: it      *)
(* spells the channel, for the key stands behind its prefix alone.          *)
LEMMA UrlIsText ==
    ASSUME NEW c \in Channel
    PROVE  Url(c) \in Pasted /\ ParseChannelUrl(Url(c)) = c
<1> DEFINE text == Url(c)
           path == Append(c.prefix, c.key)
<1>1. /\ c.scheme \in {"http", "https"} /\ c.authority \in (Authorities \cup KeyTexts) \ {Empty}
      /\ c.prefix \in {<< >>, << "m" >>} /\ c.key \in KeyTexts
  BY DEF Channel
<1>2. path \in Paths
  <2>1. c.key \in Segments /\ "m" \in Segments
    BY <1>1 DEF Segments
  <2>2. 1 \in 0 .. Depth /\ 2 \in 0 .. Depth
    BY TextAssumption
  <2>3. CASE c.prefix = << >>
    <3>1. path = << c.key >>
      BY <2>3
    <3>2. << c.key >> \in [1 .. 1 -> Segments]
      BY <2>1
    <3> QED
      BY <2>2, <3>1, <3>2 DEF Paths
  <2>4. CASE c.prefix = << "m" >>
    <3>1. << "m" >> \in Seq(Segments) /\ Len(<< "m" >>) = 1
      BY <2>1
    <3>2. path \in Seq(Segments) /\ Len(path) = 2
      BY <2>1, <2>4, <3>1
    <3>3. path \in [1 .. 2 -> Segments]
      BY <3>2, LenProperties
    <3> QED
      BY <2>2, <3>3 DEF Paths
  <2> QED
    BY <1>1, <2>3, <2>4
<1>3. /\ text.scheme = c.scheme /\ text.authority = c.authority /\ text.path = path
      /\ text.tail = "none"
  BY DEF Url
<1>4. text \in Pasted
  <2>1. c.scheme \in DOMAIN Lower \cup {Nothing} /\ c.authority \in Authorities \cup KeyTexts
    BY <1>1, TextAssumption
  <2> HIDE DEF path
  <2> QED
    BY <1>2, <2>1 DEF Url, Pasted, path
<1>5. text.path # Nothing /\ text.scheme # Nothing /\ Lower[text.scheme] = c.scheme
  BY <1>1, <1>2, <1>3, TextAssumption, NothingAssumption
<1>6. Spells(text, c)
  <2> SUFFICES KeyStands(path, c.prefix, c.key)
    BY <1>3, <1>5 DEF Spells, KeyStands
  <2>1. << >> # << "m" >>
    OBVIOUS
  <2>2. CASE c.prefix = << >>
    <3>1. path[1] = c.key /\ DOMAIN path = 1 .. 1
      BY <2>2
    <3> HIDE DEF path
    <3> QED
      BY <2>2, <3>1 DEF KeyStands
  <2>3. CASE c.prefix = << "m" >>
    <3>1. path[1] = "m" /\ path[2] = c.key /\ DOMAIN path = 1 .. 2
      BY <2>3
    <3>2. 1 .. 2 - 1 = {1}
      OBVIOUS
    <3> HIDE DEF path
    <3> QED
      BY <2>1, <2>3, <3>1, <3>2 DEF KeyStands
  <2> QED
    BY <1>1, <2>2, <2>3
<1>7. c \in Channels(text)
  BY <1>1, <1>3 DEF Channels, Channel
<1> QED
  BY <1>4, <1>6, <1>7, ParsesWhatIsSpelled

LEMMA UrlInvariance == UrlSpec => []UrlInv
<1>1. UrlInit => UrlInv
  BY DEF UrlInit, UrlInv
<1>2. UrlInv /\ [UrlNext]_urlVars => UrlInv'
  <2> SUFFICES ASSUME UrlInv, [UrlNext]_urlVars PROVE UrlInv'
    OBVIOUS
  <2>1. CASE Paste
    BY <2>1, NothingAssumption DEF Paste, UrlInv
  <2>2. CASE Open
    BY <2>2 DEF Open, UrlInv
  <2>3. CASE Reopen
    <3>1. channel \in Channel
      BY <2>3, ChannelIs DEF Reopen, UrlInv
    <3> QED
      BY <2>3, <3>1, UrlIsText DEF Reopen, UrlInv
  <2>4. CASE UNCHANGED urlVars
    BY <2>4 DEF urlVars, UrlInv
  <2> QED
    BY <2>1, <2>2, <2>3, <2>4 DEF UrlNext
<1> QED
  BY <1>1, <1>2, PTL DEF UrlSpec

(* A pasted text opens the channel it spells, a text that spells none is    *)
(* refused, and none spells two: with any number of empty parts between its *)
(* slashes, a further "m", a key behind the key, a scheme in capitals or a   *)
(* "://" in its query.                                                     *)
THEOREM SpelledIsOpened == UrlSpec => []OpensWhatIsSpelled
<1>1. UrlInv => OpensWhatIsSpelled
  BY ParsesWhatIsSpelled DEF UrlInv, OpensWhatIsSpelled
<1> QED
  BY <1>1, UrlInvariance, PTL

(* What a channel prints of itself opens the same host, prefix and key, and *)
(* so does what that one prints.                                           *)
THEOREM PrintedIsOpened == UrlSpec => ReopensTheSame
<1>1. UrlInv /\ [UrlNext]_urlVars => (Reopen => channel' = channel)
  <2> SUFFICES ASSUME UrlInv, Reopen PROVE channel' = channel
    OBVIOUS
  <2>1. channel \in Channel
    BY ChannelIs DEF Reopen, UrlInv
  <2> QED
    BY <2>1, UrlIsText DEF Reopen
<1> QED
  BY <1>1, UrlInvariance, PTL DEF UrlSpec, ReopensTheSame
=============================================================================
