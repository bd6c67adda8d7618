------------------------------- MODULE Waits -------------------------------
(***************************************************************************)
(* Several waits at once on one channel: Channel::wait of                  *)
(* rust/src/channel.rs, and the same call of the JavaScript and the Python *)
(* client.  Every wait runs a poller of its own over one message, so it    *)
(* has its own ladder, its own limiter and its own pause; what the waits   *)
(* share is the key, and Mast's limit on it.                               *)
(*                                                                         *)
(* Waits are different tasks and share nothing else: what one does between *)
(* two awaits is one step.  RustPoller and PyPoller model the poller that  *)
(* has several pages, JsPoller calls that overlap on one.                  *)
(***************************************************************************)
EXTENDS Statuses, Sequences, FiniteSets

CONSTANTS
    Callers,                        \* the waits
    Lib,                            \* Lib[w]: the client wait w is made with
    About,                          \* About[w]: the message it is about
    Limit,                          \* what Mast allows on a key in a window
    Budget, Window,                 \* what a poller spends in one
    FastFor, SlowFor, Fast, Slow, Slowest, Interval,   \* the ladder, the sleep
    Latency,                        \* the longest a request takes
    Headers,                        \* what a Retry-After can be
    Timeouts,                       \* what a caller gives wait, None included
    Texts,                          \* the states Mast reports
    Unrest, Horizon                 \* bounds: from the first on the server is
                                    \* well, nobody calls and all pages are
                                    \* final; at the second the clock stops

Messages == { About[w] : w \in Callers }

ASSUME CallerAssumption == Lib \in [Callers -> {"rust", "js", "py"}]
ASSUME LadderAssumption ==
    /\ {FastFor, SlowFor, Slow, Slowest, Latency, Limit, Unrest, Horizon} \subseteq Nat
    /\ {Fast, Interval, Window, Budget} \subseteq Nat \ {0}
    /\ FastFor <= SlowFor /\ Fast <= Slow /\ Slow <= Slowest
ASSUME ServerAssumption == /\ None \notin Int \cup Texts \cup States
                           /\ Timeouts \subseteq Nat \cup {None}
                           /\ "acked" \in Texts /\ \E s \in Texts : s \notin Terminal

VARIABLES
    now,            \* the clock
    wait,           \* wait[w]: where the call is, and its poller
    state,          \* Mast: state[m], the state it reports of a message
    counted,        \* Mast: who asked on the key, and when, as far as it counts
    final,          \* history: when each message's state became final
    crossed         \* history: when w was called, last had no answer, or a pause
                    \* of its ends; wait[w].told is history too: before when w
                    \* was told not to ask again

vars == << now, wait, state, counted, final, crossed >>
-----------------------------------------------------------------------------
Every(age) == CASE age < FastFor -> Fast
                [] age >= FastFor /\ age < SlowFor -> Slow
                [] OTHER -> Slowest

Never == - Slowest

(* take pops stamps off the front until one still counts: n of them.        *)
Expired(p, n) == /\ \A i \in 1 .. n : now - p.spent[i] >= Window
                 /\ n < Len(p.spent) => now - p.spent[n + 1] < Window

Kept(p, n) == SubSeq(p.spent, n + 1, Len(p.spent))

Due(p) == now - p.lastPoll >= Every(now - p.started)

\* Mutant: the header is not read.
PauseUnread(lib, header) == 1

(* Retry-After: Rust takes any number, zero too, and a second where there   *)
(* is none it can read; the other two never pause for less than a second.  *)
Pause(lib, header) ==
    CASE header \notin Nat -> 1
      [] header \in Nat /\ lib = "rust" -> header
      [] OTHER -> IF header > 1 THEN header ELSE 1

(* wait returns, and its poller goes with it but for what it hands back.    *)
Over(p) == [p EXCEPT !.pc = "done", !.at = now, !.lastPoll = Never, !.pausedUntil = 0,
                     !.spent = << >>, !.told = 0, !.started = 0]

Asleep(p) == [p EXCEPT !.pc = "sleeping", !.at = now + Interval]

\* Mutant: the deadline is looked at before the sleep is over only.
LandedLate(p) ==
    IF ~ p.open \/ (p.deadline # None /\ now > p.deadline + Interval) THEN Over(p) ELSE Asleep(p)

(* The loop of run after a tick: it ends with the page or at the deadline,  *)
(* or sleeps.                                                              *)
Landed(p) ==
    IF ~ p.open \/ (p.deadline # None /\ now >= p.deadline) THEN Over(p) ELSE Asleep(p)

Asked(p, stamps) == [p EXCEPT !.pc = "awaiting", !.at = now + Latency, !.lastPoll = now,
                              !.spent = stamps, !.reply = None]

(* A tick that pops n stamps, as far as its one await: paused or not due,   *)
(* over budget, or the request leaves.                                     *)
Ticked(p, n) ==
    IF now < p.pausedUntil \/ ~ Due(p) THEN Landed(p)
    ELSE IF Len(Kept(p, n)) >= Budget THEN Landed([p EXCEPT !.spent = Kept(p, n)])
    ELSE Asked(p, Append(Kept(p, n), now))

Tick(w, p) == \E n \in 0 .. Len(p.spent) :
                 Expired(p, n) /\ wait' = [wait EXCEPT ![w] = Ticked(p, n)]

Calling(timeout) ==
    [pc |-> "called", at |-> 0, started |-> now, lastPoll |-> Never, pausedUntil |-> 0,
     told |-> 0, spent |-> << >>, reply |-> None, open |-> TRUE, last |-> None, error |-> FALSE,
     deadline |-> IF timeout = None THEN None ELSE now + timeout]

Idle == [Calling(None) EXCEPT !.pc = "idle", !.started = 0]

-----------------------------------------------------------------------------
Init == /\ now = 0
        /\ wait = [w \in Callers |-> Idle]
        /\ state \in [Messages -> { s \in Texts : StatusState(s) \notin Terminal }]
        /\ counted = {}
        /\ final = [m \in Messages |-> None]
        /\ crossed = [w \in Callers |-> 0]

Call(w, timeout) ==
    /\ wait[w].pc = "idle" /\ now < Unrest
    /\ Tick(w, Calling(timeout))
    /\ crossed' = [crossed EXCEPT ![w] = now]
    /\ UNCHANGED << now, state, counted, final >>

Wake(w) ==
    /\ wait[w].pc = "sleeping" /\ now >= wait[w].at
    /\ Tick(w, wait[w])
    /\ UNCHANGED << now, state, counted, final, crossed >>

Count(who) == counted' = counted \cup {[who |-> who, at |-> now]}

Full == Cardinality(counted) >= Limit

(* Mast has the request of w: it answers with what it knows at this moment, *)
(* refuses it (the key is over its limit, or all the owner's channels are),*)
(* or does not know the message.  What it answers is on its way then.      *)
Arrive(w) ==
    LET answer(kind, what) == wait' = [wait EXCEPT ![w].reply = [kind |-> kind, what |-> what]]
    IN  /\ wait[w].pc = "awaiting" /\ wait[w].reply = None
        /\ \/ ~ Full /\ Count(w) /\ answer("status", StatusState(state[About[w]]))
           \/ ~ Full /\ Count(w) /\ now <= Unrest /\ answer("unknown", None)
           \/ /\ Full \/ now <= Unrest
              /\ \E header \in Headers : answer("limited", header)
              /\ UNCHANGED counted
        /\ UNCHANGED << now, state, final, crossed >>

(* The request of w comes back, and its tick ends.                          *)
Back(w, p) == /\ wait[w].pc = "awaiting"
              /\ wait' = [wait EXCEPT ![w] = Landed([p EXCEPT !.reply = None])]
              /\ UNCHANGED << now, state, counted, final >>

Came(w, kind) == wait[w].reply # None /\ wait[w].reply.kind = kind

(* A status: remembered, and final or not.                                  *)
Answered(w) ==
    /\ Came(w, "status")
    /\ LET said == wait[w].reply.what
       IN  Back(w, [wait[w] EXCEPT !.last = said, !.open = ~ IsTerminal(said)])
    /\ UNCHANGED crossed

(* 429: the pause is the client's own reading of the header.                *)
Limited(w) ==
    /\ Came(w, "limited")
    /\ LET header == wait[w].reply.what
           until  == now + Pause(Lib[w], header)
       IN  /\ Back(w, [wait[w] EXCEPT !.pausedUntil = until,
                                      !.told = now + IF header \in Nat THEN header ELSE 1])
           /\ crossed' = [crossed EXCEPT ![w] = until]

\* Mutant: the error is kept, and the page asked about again.
DisownedOpen(w) == /\ Came(w, "unknown")
                   /\ Back(w, [wait[w] EXCEPT !.error = TRUE])
                   /\ UNCHANGED crossed

(* 404: the page is closed, and the Rust poller keeps the error.            *)
Disowned(w) == /\ Came(w, "unknown")
               /\ Back(w, [wait[w] EXCEPT !.open = FALSE, !.error = TRUE])
               /\ UNCHANGED crossed

(* No answer, whether Mast had the request or not: the page stays open.     *)
Blip(w) == /\ now <= Unrest
           /\ Back(w, wait[w])
           /\ crossed' = [crossed EXCEPT ![w] = now]

(* Mast reports another state; what is final stays.                         *)
Turn(m) == /\ final[m] = None
           /\ \E s \in Texts : /\ state' = [state EXCEPT ![m] = s]
                               /\ final' = [final EXCEPT ![m] = IF s \in Terminal THEN now ELSE None]
           /\ UNCHANGED << now, wait, counted, crossed >>

Out(w) == wait[w].pc \in {"awaiting", "sleeping"}

Handed(w) == wait[w].pc = "done"

(* A second passes, while anybody waits, when nobody has to do something in *)
(* this one.                                                               *)
Pass == /\ now < Horizon /\ \E w \in Callers : Out(w)
        /\ \A w \in Callers : Out(w) => now < wait[w].at
        /\ now' = now + 1
        /\ IF now' <= Unrest THEN UNCHANGED << state, final >>
           ELSE /\ state' = [m \in Messages |-> IF final[m] = None THEN "acked" ELSE state[m]]
                /\ final' = [m \in Messages |-> IF final[m] = None THEN now' ELSE final[m]]
        /\ counted' = { c \in counted : now' - c.at < Window }
        /\ UNCHANGED << wait, crossed >>

Step(w) == Wake(w) \/ Arrive(w) \/ Answered(w) \/ Limited(w) \/ Disowned(w) \/ Blip(w)

Next == \/ \E w \in Callers : Step(w) \/ \E t \in Timeouts : Call(w, t)
        \/ Pass
        \/ \E m \in Messages : Turn(m)

Spec == Init /\ [][Next]_vars
-----------------------------------------------------------------------------
\* Mutant: the error of a 404 is not asked for.
ResultWithoutError(w) ==
    IF wait[w].last # None THEN wait[w].last
    ELSE IF Lib[w] = "rust" THEN "never read" ELSE "nothing"

(* What wait hands back.  Rust asks for the error of a 404 before it looks  *)
(* at the last status; the other two have no error to ask for.             *)
Result(w) ==
    LET p == wait[w]
    IN  IF Lib[w] = "rust" /\ p.error THEN "error"
        ELSE IF p.last # None THEN p.last
        ELSE IF Lib[w] = "rust" THEN "never read" ELSE "nothing"
-----------------------------------------------------------------------------
(* The time w has been given: until now, or until it returned.              *)
Given(w) == IF Handed(w) THEN wait[w].at ELSE now

Waiting == { "idle", "sleeping", "awaiting", "done" }

(* Types, that no wait is past the time of its next step, and that one that *)
(* met a 404 is over.                                                      *)
TypeOK ==
    /\ now \in 0 .. Horizon
    /\ state \in [Messages -> Texts]
    /\ \A w \in Callers :
          /\ wait[w].pc \in Waiting /\ (Out(w) => now <= wait[w].at)
          /\ wait[w].reply # None => wait[w].pc = "awaiting"
          /\ wait[w].error => Handed(w)
          /\ Len(wait[w].spent) <= Budget

(* What may hold a poll back, once the page is final and nothing else does: *)
(* a rung of the ladder, a request that is out, and a full window, where   *)
(* the budget is what spaces the requests out.                             *)
Spread == IF Budget * Fast < Window THEN Window ELSE 0

Longest == CHOOSE t \in {Slowest, Latency, Spread} :
              \A u \in {Slowest, Latency, Spread} : u <= t

Later(turned, from) == IF turned > from THEN turned ELSE from

(* "Poll one message until it settles": once the page is final, and from    *)
(* when the wait last went without an answer or was paused, it is read     *)
(* within one of those, a sleep and a request.  What is out already may    *)
(* carry an older state.  A status handed back at a timeout is no older    *)
(* than that either.                                                       *)
HeardInTime ==
    \A w \in Callers :
        LET turned  == final[About[w]]
            unheard == \/ Out(w)
                       \/ Handed(w) /\ ~ wait[w].error /\ Result(w) \notin Terminal
        IN  turned # None /\ turned <= Given(w) /\ unheard =>
                Given(w) <= Later(turned, crossed[w]) + Longest + Interval + Latency

(* "or the timeout runs out": a wait that hands back no final state and no  *)
(* 404 was given a timeout and used all of it; and none is out for longer  *)
(* than that by more than a sleep and a request, answered or not.          *)
TimeoutKept ==
    \A w \in Callers :
        LET deadline == wait[w].deadline
        IN  /\ Handed(w) /\ ~ wait[w].error /\ Result(w) \notin Terminal =>
                   deadline # None /\ wait[w].at >= deadline
            /\ (Out(w) \/ Handed(w)) /\ deadline # None =>
                   Given(w) < deadline + Interval + Latency

(* A final state that is handed back is the page's, and a Rust wait tells a *)
(* page that is not there from one that was not answered in time.          *)
ResultIsTrue ==
    \A w \in Callers : Handed(w) =>
        /\ Result(w) \in Terminal =>
              /\ final[About[w]] # None /\ final[About[w]] <= wait[w].at
              /\ Result(w) = state[About[w]]
        /\ Lib[w] = "rust" => (Result(w) = "error" <=> wait[w].error)

(* After a 429 a wait asks no sooner than it was told, whichever client     *)
(* reads the header.                                                       *)
NotBeforeTold ==
    [][\A w \in Callers :
          wait'[w].pc = "awaiting" /\ wait[w].pc # "awaiting" => now >= wait[w].told]_vars
=============================================================================
