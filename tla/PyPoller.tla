------------------------------ MODULE PyPoller ------------------------------
(***************************************************************************)
(* The poller of the Python client: Poller, _Budget and _Watched in        *)
(* python/mast_pager/client.py, called by one thread that blocks in it.    *)
(*                                                                         *)
(* It differs from the Rust poller (RustPoller) in three ways that matter: *)
(* the budget reads the clock for every request, a 404 ends the page with  *)
(* no error to collect, and an exception that is not a MastError leaves    *)
(* tick and run with what they had collected.                              *)
(***************************************************************************)
EXTENDS Integers, Sequences, FiniteSets

CONSTANTS
    Ids,                        \* message ids
    Budget, Window,             \* budget_per_min and the sixty seconds
    FastFor, SlowFor,           \* POLL_LADDER
    Fast, Slow, Slowest,
    Interval,                   \* what run sleeps between ticks
    Latency,                    \* the longest a request takes, _TIMEOUT
    RetryAfters, Timeouts, None,
    Starts,                     \* what the clock may read at first
    Escapes,                    \* whether a response can be malformed in a way
                                \* urllib answers with an HTTPException
    Unrest,                     \* bound: then nobody calls, the server is well
                                \* and every page is answered
    Horizon                     \* bound: the clock stops there

Page == [started : Nat, lastPoll : Nat]

ASSUME BudgetAssumption == Budget \in Nat /\ Window \in Nat \ {0}
ASSUME TimeAssumption ==
    /\ {FastFor, SlowFor, Fast, Slow, Slowest, Latency, Unrest, Horizon} \subseteq Nat
    /\ Interval \in Nat \ {0}
    /\ RetryAfters \subseteq Nat \ {0}
    /\ Timeouts \subseteq Nat \cup {None}
    /\ Starts \subseteq 0 .. Horizon
ASSUME NoneAssumption == None \notin Ids \cup Page /\ None \notin Int
ASSUME EscapesAssumption == Escapes \in BOOLEAN

VARIABLES
    now,            \* time.monotonic
    open,           \* open[m]: the page watched for m, or None
    seen,           \* seen[m]: what the latest status read said of m
    spent,          \* the deque of _Budget
    pausedUntil,
    pc,             \* "idle", "ticking", "awaiting" or "sleeping"
    call,           \* "tick" or "run"
    at, due, asking, settled,       \* the frame of tick
    total, deadline,                \* the frame of run
    answered,       \* the server: pages in a state that is final
    log,            \* history: when each request left
    gone            \* history: watched pages by what became of them, see Init

poller == << open, seen, spent, pausedUntil >>
frame  == << call, at, due, asking, settled, total, deadline >>
vars   == << now, poller, pc, frame, answered, log, gone >>
-----------------------------------------------------------------------------
Every(age) == CASE age < FastFor -> Fast
                [] age >= FastFor /\ age < SlowFor -> Slow
                [] OTHER -> Slowest

Due(page, t) == t - page.lastPoll >= Every(t - page.started)

Watching == { m \in Ids : open[m] # None }

Oldest(m) == \A n \in due : open[m].started <= open[n].started

(* _Budget.take at time t: n stamps leave the deque. *)
Expired(n, t) == /\ \A i \in 1 .. n : t - spent[i] >= Window
                 /\ n < Len(spent) => t - spent[n + 1] < Window

Kept(n) == SubSeq(spent, n + 1, Len(spent))

\* Mutant: the request is booked under the clock of the tick.
TakenAtTick(t) == \E n \in 0 .. Len(spent) : /\ Expired(n, at) /\ Len(Kept(n)) < Budget
                                            /\ spent' = Append(Kept(n), at)

Taken(t) == \E n \in 0 .. Len(spent) : /\ Expired(n, t) /\ Len(Kept(n)) < Budget
                                       /\ spent' = Append(Kept(n), t)

Refused(t) == \E n \in 0 .. Len(spent) : /\ Expired(n, t) /\ Len(Kept(n)) >= Budget
                                         /\ spent' = Kept(n)

Elapse(d) == /\ now + d <= Horizon
             /\ now' = now + d
             /\ answered' = IF now + d > Unrest THEN Ids ELSE answered

Calm == UNCHANGED << now, answered >>

Stirring == now < Unrest
-----------------------------------------------------------------------------
(* gone.owed: watched and not handed over; gone.disowned: ended by a 404;   *)
(* gone.taken: settled in a call that an exception ended.                   *)
Init == /\ now \in Starts
        /\ open = [m \in Ids |-> None]
        /\ seen = [m \in Ids |-> "unread"]
        /\ spent = << >> /\ pausedUntil = 0
        /\ pc = "idle" /\ call = "tick"
        /\ at = 0 /\ due = {} /\ asking = None /\ settled = {}
        /\ total = {} /\ deadline = None
        /\ answered = {} /\ log = << >>
        /\ gone = [owed |-> {}, disowned |-> {}, taken |-> {}]

(* _Watched begins with last_poll at zero, not at minus infinity.           *)
Watch(m) ==
    /\ pc = "idle" /\ Stirring
    /\ open' = [open EXCEPT ![m] =
                   IF @ = None THEN [started |-> now, lastPoll |-> 0] ELSE @]
    /\ gone' = [owed |-> gone.owed \cup {m}, disowned |-> gone.disowned \ {m},
                taken |-> gone.taken \ {m}]
    /\ Calm /\ UNCHANGED << seen, spent, pausedUntil, pc, frame, log >>

BeginTick(t) ==
    /\ pc' = "ticking"
    /\ at' = t
    /\ due' = IF t < pausedUntil THEN {} ELSE { m \in Watching : Due(open[m], t) }
    /\ settled' = {}
    /\ asking' = None

CallTick == /\ pc = "idle" /\ Stirring
            /\ BeginTick(now)
            /\ call' = "tick" /\ total' = {} /\ deadline' = None
            /\ Calm /\ UNCHANGED << poller, log, gone >>

CallRun(timeout) ==
    /\ pc = "idle" /\ Stirring /\ Watching # {}
    /\ BeginTick(now)
    /\ call' = "run" /\ total' = {}
    /\ deadline' = IF timeout = None THEN None ELSE now + timeout
    /\ Calm /\ UNCHANGED << poller, log, gone >>

(* One turn of the loop: the budget books the request under the clock of    *)
(* this moment, the page is marked with the clock of the tick.              *)
Ask(m) == /\ pc = "ticking" /\ m \in due /\ Oldest(m)
          /\ Taken(now)
          /\ open' = [open EXCEPT ![m] = [started |-> @.started, lastPoll |-> at]]
          /\ due' = due \ {m}
          /\ asking' = m
          /\ pc' = "awaiting"
          /\ log' = Append(log, now)
          /\ Calm
          /\ UNCHANGED << seen, pausedUntil, call, at, settled, total, deadline, gone >>

OverBudget == /\ pc = "ticking" /\ due # {}
              /\ Refused(now)
              /\ due' = {}
              /\ Calm
              /\ UNCHANGED << open, seen, pausedUntil, pc, call, at, asking, settled,
                              total, deadline, log, gone >>
-----------------------------------------------------------------------------
Reply(d) == /\ pc = "awaiting"
            /\ Elapse(d)
            /\ pc' = "ticking"
            /\ asking' = None
            /\ UNCHANGED << call, at, total, deadline, spent, log >>

Answered(d) ==
    /\ Reply(d)
    /\ IF asking \in answered'
       THEN /\ seen' = [seen EXCEPT ![asking] = "done"]
            /\ open' = [open EXCEPT ![asking] = None]
            /\ settled' = settled \cup {asking}
       ELSE /\ seen' = [seen EXCEPT ![asking] = "pending"]
            /\ UNCHANGED << open, settled >>
    /\ UNCHANGED << pausedUntil, due, gone >>

Limited(d, retryAfter) ==
    /\ Reply(d) /\ now' <= Unrest
    /\ pausedUntil' = now' + retryAfter
    /\ due' = {}
    /\ UNCHANGED << open, seen, settled, gone >>

\* Mutant: the 404 ends the page that was asked about and the rest of the tick's.
DisownedChannel(d) ==
    /\ Reply(d) /\ now' <= Unrest
    /\ open' = [m \in Ids |-> IF m \in due \cup {asking} THEN None ELSE open[m]]
    /\ gone' = [gone EXCEPT !.disowned = @ \cup {asking}]
    /\ UNCHANGED << seen, pausedUntil, settled, due >>

Disowned(d) ==
    /\ Reply(d) /\ now' <= Unrest
    /\ open' = [open EXCEPT ![asking] = None]
    /\ gone' = [gone EXCEPT !.disowned = @ \cup {asking}]
    /\ UNCHANGED << seen, pausedUntil, settled, due >>

Blip(d) == /\ Reply(d) /\ now' <= Unrest
           /\ UNCHANGED << open, seen, pausedUntil, settled, due, gone >>

\* Mutant: a page whose answer could not be read is given up.
EscapeForgets(d) ==
    /\ Escapes
    /\ pc = "awaiting" /\ Elapse(d) /\ now' <= Unrest
    /\ pc' = "idle" /\ call' = "tick" /\ at' = 0
    /\ due' = {} /\ asking' = None /\ settled' = {}
    /\ total' = {} /\ deadline' = None
    /\ open' = [open EXCEPT ![asking] = None]
    /\ UNCHANGED << seen, spent, pausedUntil, log, gone >>

(* An HTTPException is no OSError and no MastError: _request does not turn   *)
(* it into one, and neither tick nor run catches it.                        *)
Escape(d) == /\ Escapes
             /\ pc = "awaiting" /\ Elapse(d) /\ now' <= Unrest
             /\ pc' = "idle" /\ call' = "tick" /\ at' = 0
             /\ due' = {} /\ asking' = None /\ settled' = {}
             /\ total' = {} /\ deadline' = None
             /\ gone' = [gone EXCEPT !.taken = @ \cup settled \cup total]
             /\ UNCHANGED << poller, log >>

Replied == \E d \in 0 .. Latency :
              \/ Answered(d) \/ Disowned(d) \/ Blip(d) \/ Escape(d)
              \/ \E r \in RetryAfters : Limited(d, r)
-----------------------------------------------------------------------------
TickDone == pc = "ticking" /\ due = {}

HandOver(reported) ==
    /\ pc' = "idle" /\ call' = "tick" /\ at' = 0
    /\ gone' = [gone EXCEPT !.owed = @ \ reported]
    /\ settled' = {} /\ total' = {} /\ deadline' = None
    /\ Calm /\ UNCHANGED << poller, due, asking, log >>

TickReturns == TickDone /\ call = "tick" /\ HandOver(settled)

Expires == deadline # None /\ now >= deadline

\* Mutant: run waits for its timeout even when every page has settled.
RunOutstays == /\ TickDone /\ call = "run"
               /\ Expires
               /\ HandOver(total \cup settled)

RunReturns == /\ TickDone /\ call = "run"
              /\ Watching = {} \/ Expires
              /\ HandOver(total \cup settled)

\* Mutant: the results of a tick replace those of the ticks before it.
RunForgets == /\ TickDone /\ call = "run"
              /\ Watching # {} /\ ~ Expires
              /\ pc' = "sleeping"
              /\ total' = settled /\ settled' = {}
              /\ Calm /\ UNCHANGED << poller, call, at, due, asking, deadline, log, gone >>

RunGoesOn == /\ TickDone /\ call = "run"
             /\ Watching # {} /\ ~ Expires
             /\ pc' = "sleeping"
             /\ total' = total \cup settled /\ settled' = {}
             /\ Calm /\ UNCHANGED << poller, call, at, due, asking, deadline, log, gone >>

Wake == /\ pc = "sleeping"
        /\ Elapse(Interval) /\ BeginTick(now + Interval)
        /\ UNCHANGED << poller, call, total, deadline, log, gone >>

Pass == pc = "idle" /\ Stirring /\ Elapse(1) /\ UNCHANGED << poller, pc, frame, log, gone >>

Acknowledge(m) == /\ m \notin answered
                  /\ answered' = answered \cup {m}
                  /\ UNCHANGED << now, poller, pc, frame, log, gone >>

Steps == (\E m \in Ids : Ask(m)) \/ OverBudget \/ TickReturns \/ RunReturns \/ RunGoesOn

Next == \/ \E m \in Ids : Watch(m) \/ Acknowledge(m)
        \/ CallTick \/ \E timeout \in Timeouts : CallRun(timeout)
        \/ Steps \/ Replied \/ Wake \/ Pass

Spec == Init /\ [][Next]_vars

FairSpec == Spec /\ WF_vars(Steps) /\ WF_vars(Replied) /\ WF_vars(Wake)
-----------------------------------------------------------------------------
Times == 0 .. Horizon

TypeOK ==
    /\ now \in Times
    /\ open \in [Ids -> Page \cup {None}]
    /\ seen \in [Ids -> {"unread", "pending", "done"}]
    /\ spent \in Seq(Nat) /\ pausedUntil \in Nat
    /\ pc \in {"idle", "ticking", "awaiting", "sleeping"}
    /\ call \in {"tick", "run"}
    /\ at \in Nat
    /\ due \in SUBSET Watching
    /\ asking \in IF pc = "awaiting" THEN Watching \ due ELSE {None}
    /\ settled \in SUBSET Ids /\ total \in SUBSET Ids
    /\ deadline \in Nat \cup {None}
    /\ answered \in SUBSET Ids
    /\ log \in Seq(Nat)
    /\ gone \in [owed : SUBSET Ids, disowned : SUBSET Ids, taken : SUBSET Ids]

(* The requests themselves, not a stamp of them, keep the promise of        *)
(* RequestWindow: "at most per_minute requests in any sixty seconds".       *)
Requests == INSTANCE RequestWindow WITH sends <- log

RequestsKeepTheWindow == Requests!Spec

(* "Returns the statuses that settled": a page that was watched and that no *)
(* result has reported is still open, on its way in a result, or was        *)
(* disowned by the server.                                                  *)
EveryResultReported ==
    gone.owed \subseteq Watching \cup gone.disowned \cup settled \cup total

(* Nothing else than an exception takes a result away.                      *)
NothingLost ==
    gone.owed \subseteq Watching \cup gone.disowned \cup gone.taken
                      \cup settled \cup total

(* What became of such a page can still be learned after an exception: it is *)
(* open, disowned, or last_status has its final state.                      *)
Recoverable ==
    gone.owed \subseteq Watching \cup gone.disowned \cup { m \in Ids : seen[m] = "done" }

(* Every call comes back, by result or by exception.                        *)
CallReturns == pc # "idle" ~> pc = "idle"
=============================================================================
