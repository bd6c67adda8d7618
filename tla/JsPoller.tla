------------------------------ MODULE JsPoller ------------------------------
(***************************************************************************)
(* The poller of the JavaScript client: Budget, Watched and Poller in      *)
(* javascript/src/mast.js.                                                 *)
(*                                                                         *)
(* tick and run are async functions of an object that is shared: while one *)
(* of them awaits a request or a sleep, the program may watch another page *)
(* or start another tick or run.  Between two awaits a call has the event  *)
(* loop to itself.                                                         *)
(***************************************************************************)
EXTENDS Integers, Sequences, FiniteSets

CONSTANTS
    Ids,                        \* message ids
    Calls,                      \* calls of tick or run that may be in flight
    Budget, Window,             \* perMinute and the sixty seconds
    FastFor, SlowFor,           \* POLL_LADDER
    Fast, Slow, Slowest,
    Interval, Latency,          \* the sleep of run, the timeout of a request
    RetryAfters, Timeouts, None,
    Start,                      \* the clock at first, far from zero
    Unrest,                     \* bound: from then on nobody calls, the server
                                \* is well, every page is answered, and a body
                                \* that is overdue does not end any more
    Horizon                     \* bound: the clock stops there

ASSUME BudgetAssumption == Budget \in Nat /\ Window \in Nat \ {0}
ASSUME TimeAssumption ==
    /\ {FastFor, SlowFor, Fast, Slow, Slowest, Latency, Start, Unrest, Horizon}
          \subseteq Nat
    /\ Slowest <= Start /\ Start <= Horizon
    /\ Interval \in Nat \ {0}
    /\ RetryAfters \subseteq Nat \ {0}
    /\ Timeouts \subseteq Nat \cup {None}
    /\ None \notin Ids /\ None \notin Int

VARIABLES
    now,            \* Date.now, in seconds
    open, page,     \* the keys of _open, and each message's Watched object
    seen, spent, pausedUntil,
    frame,          \* frame[c]: the locals of the call c, see Frame
    answered,       \* the server: pages in a state that is final
    log,            \* history: when each request left
    limit,          \* history: the latest 429: the call it came to, its time
                    \* and its pause's end
    gone            \* history: pages owed to the program, pages disowned, and
                    \* when each page was closed

poller  == << open, page, seen, spent, pausedUntil >>
history == << log, limit, gone >>
vars    == << now, poller, frame, answered, history >>

Frame == [pc : {"done", "ticking", "awaiting", "reading", "sleeping"},
          call : {"tick", "run"}, at : Nat, due : SUBSET Ids,
          asking : Ids \cup {None}, since : Nat,
          settled : SUBSET Ids, total : SUBSET Ids, deadline : Nat \cup {None}]

Done == [pc |-> "done", call |-> "tick", at |-> 0, due |-> {}, asking |-> None,
         since |-> 0, settled |-> {}, total |-> {}, deadline |-> None]
-----------------------------------------------------------------------------
Every(age) == CASE age < FastFor -> Fast
                [] age >= FastFor /\ age < SlowFor -> Slow
                [] OTHER -> Slowest

Due(m) == now - page[m].lastPoll >= Every(now - page[m].started)

(* due.sort: the oldest of the tick's pages, open or not.                   *)
Oldest(m, due) == \A n \in due : page[m].started <= page[n].started

\* Mutant: a stamp is forgotten a second early.
ExpiredEarly(n) == /\ \A i \in 1 .. n : now - spent[i] >= Window - 1
                   /\ n < Len(spent) => now - spent[n + 1] < Window - 1

(* take shifts stamps off the front until one still counts: n of them.      *)
Expired(n) == /\ \A i \in 1 .. n : now - spent[i] >= Window
              /\ n < Len(spent) => now - spent[n + 1] < Window

Kept(n) == SubSeq(spent, n + 1, Len(spent))

Taken == \E n \in 0 .. Len(spent) : /\ Expired(n) /\ Len(Kept(n)) < Budget
                                    /\ spent' = Append(Kept(n), now)

Refused == \E n \in 0 .. Len(spent) : /\ Expired(n) /\ Len(Kept(n)) >= Budget
                                      /\ spent' = Kept(n)

(* The event loop is free: every call in flight awaits something.           *)
Free == \A c \in Calls : frame[c].pc # "ticking"

Stirring == now < Unrest

Calm == UNCHANGED << now, answered >>
-----------------------------------------------------------------------------
Init == /\ now = Start
        /\ open = {} /\ page = [m \in Ids |-> [started |-> 0, lastPoll |-> 0]]
        /\ seen = [m \in Ids |-> "unread"]
        /\ spent = << >> /\ pausedUntil = 0
        /\ frame = [c \in Calls |-> Done]
        /\ answered = {}
        /\ log = << >> /\ limit = [by |-> None, since |-> 0, until |-> 0]
        /\ gone = [owed |-> {}, disowned |-> {}, closed |-> [m \in Ids |-> 0]]

(* Bound: a message is not watched again while a call in flight still has   *)
(* the object of its last watch to ask about.                              *)
Watch(m) ==
    /\ Free /\ Stirring
    /\ m \notin open => \A c \in Calls : m \notin frame[c].due \cup {frame[c].asking}
    /\ open' = open \cup {m}
    /\ page' = [page EXCEPT ![m] =
                   IF m \in open THEN @ ELSE [started |-> now, lastPoll |-> 0]]
    /\ gone' = [gone EXCEPT !.owed = @ \cup {m}, !.disowned = @ \ {m}, !.closed[m] = 0]
    /\ Calm /\ UNCHANGED << seen, spent, pausedUntil, frame, log, limit >>

\* Mutant: the tick goes through every message it knows, not the open pages.
TickingAll(f) == [f EXCEPT !.pc = "ticking", !.at = now, !.settled = {},
                           !.due = IF now < pausedUntil THEN {}
                                   ELSE { m \in Ids : seen[m] # "unread" \/ m \in open }]

(* The head of a tick in the frame f. *)
Ticking(f) == [f EXCEPT !.pc = "ticking", !.at = now, !.settled = {},
                        !.due = IF now < pausedUntil THEN {}
                                ELSE { m \in open : Due(m) }]

CallTick(c) ==
    /\ Free /\ Stirring /\ frame[c].pc = "done"
    /\ frame' = [frame EXCEPT ![c] = Ticking(Done)]
    /\ Calm /\ UNCHANGED << poller, history >>

CallRun(c, timeout) ==
    /\ Free /\ Stirring /\ frame[c].pc = "done" /\ open # {}
    /\ frame' = [frame EXCEPT ![c] =
          [Ticking(Done) EXCEPT
              !.call = "run",
              !.deadline = IF timeout = None THEN None ELSE now + timeout]]
    /\ Calm /\ UNCHANGED << poller, history >>

(* One turn of the loop: the page may have settled since the list was made. *)
Ask(c, m) ==
    /\ frame[c].pc = "ticking" /\ m \in frame[c].due /\ Oldest(m, frame[c].due)
    /\ Taken
    /\ page' = [page EXCEPT ![m] = [started |-> @.started, lastPoll |-> frame[c].at]]
    /\ frame' = [frame EXCEPT ![c] =
          [@ EXCEPT !.pc = "awaiting", !.asking = m, !.due = frame[c].due \ {m},
                    !.since = now]]
    /\ log' = Append(log, now)
    /\ Calm /\ UNCHANGED << open, seen, pausedUntil, limit, gone >>

OverBudget(c) ==
    /\ frame[c].pc = "ticking" /\ frame[c].due # {}
    /\ Refused
    /\ frame' = [frame EXCEPT ![c].due = {}]
    /\ Calm /\ UNCHANGED << open, page, seen, pausedUntil, history >>
-----------------------------------------------------------------------------
(* The timeout of a request that got its headers in time: the timer that     *)
(* would abort it was cleared when they came, and its body takes the time   *)
(* it takes.  Sooner than that nothing tells such a request from another.  *)
Outlasts(c) ==
    /\ frame[c].pc = "awaiting" /\ Free /\ Stirring
    /\ now = frame[c].since + Latency
    /\ frame' = [frame EXCEPT ![c] = [@ EXCEPT !.pc = "reading", !.since = 0]]
    /\ Calm /\ UNCHANGED << poller, history >>

(* Out of a request: before its timeout, or with the end of a body that is   *)
(* overdue.                                                                *)
Ending(c) == \/ frame[c].pc = "awaiting"
             \/ frame[c].pc = "reading" /\ Stirring

\* Mutant: the call goes on without forgetting which request it awaited.
ResumeStale(c, due, settled) ==
    /\ Ending(c) /\ Free
    /\ frame' = [frame EXCEPT ![c] =
          [@ EXCEPT !.pc = "ticking", !.due = due, !.settled = settled, !.since = 0]]
    /\ Calm /\ UNCHANGED << page, spent, log >>

(* The await of a request is over: the call goes on with due, and settled   *)
(* as the answer makes them.                                               *)
Resume(c, due, settled) ==
    /\ Ending(c) /\ Free
    /\ frame' = [frame EXCEPT ![c] =
          [@ EXCEPT !.pc = "ticking", !.asking = None, !.due = due,
                    !.settled = settled, !.since = 0]]
    /\ Calm /\ UNCHANGED << page, spent, log >>

Answered(c) ==
    LET m == frame[c].asking
    IN  /\ IF m \in answered
           THEN /\ Resume(c, frame[c].due, frame[c].settled \cup {m})
                /\ seen' = [seen EXCEPT ![m] = "done"]
                /\ open' = open \ {m}
                /\ gone' = [gone EXCEPT !.closed[m] = now]
           ELSE /\ Resume(c, frame[c].due, frame[c].settled)
                /\ seen' = [seen EXCEPT ![m] = "pending"]
                /\ UNCHANGED << open, gone >>
        /\ UNCHANGED << pausedUntil, limit >>

\* Mutant: a 429 sets the pause but the tick goes on to the next page.
LimitedGoesOn(c, retryAfter) ==
    /\ Stirring
    /\ Resume(c, frame[c].due, frame[c].settled)
    /\ pausedUntil' = now + retryAfter
    /\ limit' = [by |-> c, since |-> now, until |-> now + retryAfter]
    /\ UNCHANGED << open, seen, gone >>

Limited(c, retryAfter) ==
    /\ Stirring
    /\ Resume(c, {}, frame[c].settled)
    /\ pausedUntil' = now + retryAfter
    /\ limit' = [by |-> c, since |-> now, until |-> now + retryAfter]
    /\ UNCHANGED << open, seen, gone >>

Disowned(c) ==
    /\ Stirring
    /\ Resume(c, frame[c].due, frame[c].settled)
    /\ open' = open \ {frame[c].asking}
    /\ gone' = [gone EXCEPT !.disowned = @ \cup {frame[c].asking},
                            !.closed[frame[c].asking] = now]
    /\ UNCHANGED << seen, pausedUntil, limit >>

(* catch: whatever else is thrown leaves the page open.                     *)
Blip(c) ==
    /\ Stirring
    /\ Resume(c, frame[c].due, frame[c].settled)
    /\ UNCHANGED << open, seen, pausedUntil, limit, gone >>

Replied(c) == \/ Answered(c) \/ Disowned(c) \/ Blip(c)
              \/ \E r \in RetryAfters : Limited(c, r)
-----------------------------------------------------------------------------
TickDone(c) == frame[c].pc = "ticking" /\ frame[c].due = {}

Expires(c) == frame[c].deadline # None /\ now >= frame[c].deadline

\* Mutant: run waits for its timeout even when no page is open any more.
ResolvesLate(c) ==
    /\ TickDone(c)
    /\ frame[c].call = "run" => Expires(c)
    /\ frame' = [frame EXCEPT ![c] = Done]
    /\ gone' = [gone EXCEPT !.owed = @ \ (frame[c].settled \cup frame[c].total)]
    /\ Calm /\ UNCHANGED << poller, log, limit >>

(* The promise of tick or run resolves. *)
Resolves(c) ==
    /\ TickDone(c)
    /\ frame[c].call = "run" => open = {} \/ Expires(c)
    /\ frame' = [frame EXCEPT ![c] = Done]
    /\ gone' = [gone EXCEPT !.owed = @ \ (frame[c].settled \cup frame[c].total)]
    /\ Calm /\ UNCHANGED << poller, log, limit >>

\* Mutant: the results of a tick replace those of the ticks before it.
RunForgets(c) ==
    /\ TickDone(c) /\ frame[c].call = "run" /\ open # {} /\ ~ Expires(c)
    /\ frame' = [frame EXCEPT ![c] =
          [@ EXCEPT !.pc = "sleeping", !.since = now, !.settled = {},
                    !.total = frame[c].settled]]
    /\ Calm /\ UNCHANGED << poller, history >>

RunGoesOn(c) ==
    /\ TickDone(c) /\ frame[c].call = "run" /\ open # {} /\ ~ Expires(c)
    /\ frame' = [frame EXCEPT ![c] =
          [@ EXCEPT !.pc = "sleeping", !.since = now, !.settled = {},
                    !.total = frame[c].total \cup frame[c].settled]]
    /\ Calm /\ UNCHANGED << poller, history >>

(* The sleep is over.  Another call may have closed the last page: then run *)
(* is done, and otherwise it ticks.                                        *)
Wake(c) ==
    /\ frame[c].pc = "sleeping" /\ Free /\ now >= frame[c].since + Interval
    /\ IF open = {}
       THEN frame' = [frame EXCEPT ![c] = [@ EXCEPT !.pc = "ticking", !.since = 0]]
       ELSE frame' = [frame EXCEPT ![c] = [Ticking(@) EXCEPT !.since = 0]]
    /\ Calm /\ UNCHANGED << poller, history >>
-----------------------------------------------------------------------------
(* Time goes by while every call waits, no request outlives its timeout and  *)
(* no sleep its interval.                                                  *)
Pass == /\ Free /\ now < Horizon
        /\ Stirring \/ \E c \in Calls : frame[c].pc \notin {"done", "reading"}
        /\ \A c \in Calls :
              /\ frame[c].pc = "awaiting" => now < frame[c].since + Latency
              /\ frame[c].pc = "sleeping" => now < frame[c].since + Interval
        /\ now' = now + 1
        /\ answered' = IF now + 1 >= Unrest THEN Ids ELSE answered
        /\ UNCHANGED << poller, frame, history >>

Acknowledge(m) == /\ Free /\ m \notin answered
                  /\ answered' = answered \cup {m}
                  /\ UNCHANGED << now, poller, frame, history >>

Steps(c) == \/ \E m \in Ids : Ask(c, m)
            \/ OverBudget(c) \/ Resolves(c) \/ RunGoesOn(c)

Next == \/ \E m \in Ids : Watch(m) \/ Acknowledge(m)
        \/ \E c \in Calls : \/ CallTick(c)
                            \/ \E timeout \in Timeouts : CallRun(c, timeout)
                            \/ Steps(c) \/ Outlasts(c) \/ Replied(c) \/ Wake(c)
        \/ Pass

Spec == Init /\ [][Next]_vars

(* What has the event loop goes on to its next await; and as long as an     *)
(* answer, a timer or the clock is due now and again, one of them comes,    *)
(* however often the program calls tick in between.  That is strong         *)
(* fairness, for a call has the loop to itself now and then.  The end of a  *)
(* body that is overdue is not promised: until Unrest it may come.          *)
FairSpec == /\ Spec
            /\ WF_vars(\E c \in Calls : Steps(c))
            /\ SF_vars(Pass \/ \E c \in Calls : Replied(c) \/ Wake(c))
-----------------------------------------------------------------------------
TypeOK ==
    /\ now \in Start .. Horizon
    /\ open \in SUBSET Ids
    /\ page \in [Ids -> [started : Nat, lastPoll : Nat]]
    /\ seen \in [Ids -> {"unread", "pending", "done"}]
    /\ spent \in Seq(Nat) /\ pausedUntil \in Nat
    /\ frame \in [Calls -> Frame]
    /\ \A c \in Calls : (frame[c].pc \in {"awaiting", "reading"}) <=> (frame[c].asking # None)
    /\ answered \in SUBSET Ids
    /\ log \in Seq(Nat)
    /\ limit \in [by : Calls \cup {None}, since : Nat, until : Nat]
    /\ gone \in [owed : SUBSET Ids, disowned : SUBSET Ids, closed : [Ids -> Nat]]

(* The requests of all calls together keep the promise of RequestWindow: no  *)
(* await lies between the look at the budget and the booking.               *)
Requests == INSTANCE RequestWindow WITH sends <- log, Times <- Start .. Horizon

RequestsKeepTheWindow == Requests!Spec

(* A page no call has reported is open, disowned, or in the results of a     *)
(* call in flight, whichever call found it settled.                         *)
NothingLost ==
    gone.owed \subseteq open \cup gone.disowned
                        \cup UNION { frame[c].settled \cup frame[c].total : c \in Calls }

Sends(c) == frame[c].pc = "ticking" /\ frame'[c].pc = "awaiting"

(* The poller "stops when they settle": a page that has been closed is asked *)
(* about only by a tick that was under way, in another call, when it was.   *)
StopsWhenSettled ==
    [][\A c \in Calls : Sends(c) =>
          frame'[c].asking \in open \/ frame[c].at <= gone.closed[frame'[c].asking]]_vars

(* A 429 stops the tick it comes to, and every tick that begins in its      *)
(* pause: only a tick under way in another call still asks.                 *)
PauseStopsTicks ==
    [][\A c \in Calls : Sends(c) =>
          \/ now >= limit.until
          \/ c # limit.by /\ frame[c].at <= limit.since]_vars

(* Every promise resolves but one that reads a body which does not end: a      *)
(* tick's always, a run's once its time is over or no page is open, whichever *)
(* call closed the last one, and after a body that was only late.           *)
CallsResolve ==
    \A c \in Calls : frame[c].pc # "done" ~> frame[c].pc \in {"done", "reading"}

(* "Tick until nothing is open or the timeout runs out": a run that was      *)
(* given a timeout ends.  The timer of a request does not cover its body,   *)
(* so that one body which never ends holds up run, and its timeout with it. *)
TimeoutEndsRun == \A c \in Calls : frame[c].deadline # None ~> frame[c].pc = "done"
=============================================================================
