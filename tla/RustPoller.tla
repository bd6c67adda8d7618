----------------------------- MODULE RustPoller -----------------------------
(***************************************************************************)
(* The poller of the Rust client: rust/src/poller.rs, with the channel's   *)
(* status read (rust/src/channel.rs) as one request that takes time.       *)
(*                                                                         *)
(* A Poller belongs to one caller (its methods take &mut self), so nothing *)
(* is called while a tick or a run is in flight.  Between two awaits the   *)
(* code is atomic; an await is where time passes, where the person with    *)
(* the phone answers, and where the caller may drop the future.            *)
(*                                                                         *)
(* The clock is in whole seconds and moves only while somebody waits: in   *)
(* the idle caller, in a request, in the sleep between two ticks.          *)
(***************************************************************************)
EXTENDS Integers, Sequences, FiniteSets

CONSTANTS
    Ids,                            \* message ids
    Budget, Window,                 \* requests a window may hold, its length
    FastFor, SlowFor,               \* the ages at which the ladder steps down
    Fast, Slow, Slowest,            \* how often each rung asks
    Interval,                       \* TICK, the sleep of run between ticks
    Latency,                        \* the longest a request takes: the
                                    \* transport's timeout
    RetryAfters,                    \* what a 429 can say in Retry-After
    Timeouts,                       \* what a caller gives run, None included
    None,                           \* no page, no deadline, no message
    Cancellable,                    \* whether callers drop futures at an await
    Unrest,                         \* bound: after it nobody calls, the server
                                    \* is well and every page is answered
    Horizon                         \* bound: the clock stops there

Page == [started : Nat, lastPoll : Int]

ASSUME BudgetAssumption == Budget \in Nat /\ Window \in Nat \ {0}
ASSUME LadderAssumption == /\ {FastFor, SlowFor, Fast, Slow, Slowest} \subseteq Nat
                           /\ FastFor <= SlowFor
                           /\ Fast <= Slow /\ Slow <= Slowest
ASSUME TimeAssumption == /\ Interval \in Nat \ {0}
                         /\ Latency \in Nat
                         /\ RetryAfters \subseteq Nat
                         /\ Timeouts \subseteq Nat \cup {None}
                         /\ None \notin Int
                         /\ Unrest \in Nat /\ Horizon \in Nat
ASSUME NoneAssumption == None \notin Ids \cup Page
ASSUME CallerAssumption == Cancellable \in BOOLEAN

VARIABLES
    now,            \* the monotonic clock
    open,           \* open[m]: the page watched for m, or None
    last,           \* last[m]: what the latest status read said of m
    dropped,        \* messages whose error waits for take_error
    spent,          \* the deque of stamps of the sliding window
    pausedUntil,    \* no tick asks before this
    pc,             \* where the call in flight is
    call,           \* "tick" or "run"
    at,             \* the clock when the tick began
    due,            \* what the tick has still to ask about
    asking,         \* the message of the request in flight
    settled,        \* what this tick found settled
    total,          \* what run has collected from earlier ticks
    deadline,       \* when run gives up, or None
    answered,       \* the server: pages in a state that is final
    log,            \* history: each request's stamp and when it really left
    limit,          \* history: the requests made before the latest 429 and
                    \* the end of the pause it asked for
    owed,           \* history: watched, and neither result nor error handed over
    forfeited       \* history: settled in a call whose future was dropped

poller == << open, last, dropped, spent, pausedUntil >>
frame  == << call, at, due, asking, settled, total, deadline >>
ghosts == << log, limit, owed, forfeited >>
vars   == << now, poller, pc, frame, answered, ghosts >>

-----------------------------------------------------------------------------
(* The ladder and the pages. *)

Every(age) == CASE age < FastFor -> Fast
                [] age >= FastFor /\ age < SlowFor -> Slow
                [] OTHER -> Slowest

Never == -Slowest       \* a last poll every rung is due after

\* Mutant: the ladder ends where its last rung should catch everything.
DueUntilSlowFor(page, t) ==
    t - page.started < SlowFor /\ t - page.lastPoll >= Every(t - page.started)

Due(page, t) == t - page.lastPoll >= Every(t - page.started)

Watching == { m \in Ids : open[m] # None }

\* Mutant: pages that are no longer open are asked about too.
DueOrGone(t) == { m \in Ids : open[m] = None \/ Due(open[m], t) }

DueAt(t) == { m \in Watching : Due(open[m], t) }

Oldest(m) == \A n \in due : open[m].started <= open[n].started

-----------------------------------------------------------------------------
(* The sliding window: stamps that are a window old are popped off the     *)
(* front until one is not.                                                 *)

\* Mutant: stamps age against the clock, not against the tick's own stamp.
ExpiredByNow(n, t) == /\ \A i \in 1 .. n : now - spent[i] >= Window
                      /\ n < Len(spent) => now - spent[n + 1] < Window

Expired(n, t) == /\ \A i \in 1 .. n : t - spent[i] >= Window
                 /\ n < Len(spent) => t - spent[n + 1] < Window

Kept(n) == SubSeq(spent, n + 1, Len(spent))

\* Mutant: one request too many.
HasRoomAndOne(kept) == Len(kept) <= Budget

HasRoom(kept) == Len(kept) < Budget

-----------------------------------------------------------------------------
(* Time.  The server's answer to every page comes before Unrest is over.   *)

Elapse(d) == /\ now + d <= Horizon
             /\ now' = now + d
             /\ answered' = IF now + d > Unrest THEN Ids ELSE answered

Calm == UNCHANGED << now, answered >>

Stirring == now < Unrest

-----------------------------------------------------------------------------
Init == /\ now = 0
        /\ open = [m \in Ids |-> None]
        /\ last = [m \in Ids |-> "unread"]
        /\ dropped = {}
        /\ spent = << >>
        /\ pausedUntil = 0
        /\ pc = "idle" /\ call = "tick"
        /\ at = 0 /\ due = {} /\ asking = None
        /\ settled = {} /\ total = {} /\ deadline = None
        /\ answered = {}
        /\ log = << >>
        /\ limit = [asks |-> 0, until |-> 0]
        /\ owed = {} /\ forfeited = {}

(* watch: the first one stays. *)
Watch(m) ==
    /\ pc = "idle" /\ Stirring
    /\ open' = [open EXCEPT ![m] =
                   IF @ = None THEN [started |-> now, lastPoll |-> Never] ELSE @]
    /\ owed' = owed \cup {m} /\ forfeited' = forfeited \ {m}
    /\ Calm /\ UNCHANGED << last, dropped, spent, pausedUntil, pc, frame, log, limit >>

(* take_error hands the error over; a page watched again is still owed. *)
TakeError(m) ==
    /\ pc = "idle" /\ Stirring /\ m \in dropped
    /\ dropped' = dropped \ {m}
    /\ owed' = IF open[m] = None THEN owed \ {m} ELSE owed
    /\ Calm
    /\ UNCHANGED << open, last, spent, pausedUntil, pc, frame, log, limit, forfeited >>

(* The head of tick: the clock is read once, for the pause, for the ladder *)
(* and for every stamp of this tick.                                       *)
BeginTick(t) ==
    /\ pc' = "ticking"
    /\ at' = t
    /\ due' = IF t < pausedUntil THEN {} ELSE DueAt(t)
    /\ settled' = {}
    /\ asking' = None

CallTick ==
    /\ pc = "idle" /\ Stirring
    /\ BeginTick(now)
    /\ call' = "tick" /\ total' = {} /\ deadline' = None
    /\ Calm /\ UNCHANGED << poller, ghosts >>

(* run with nothing open returns at once. *)
CallRun(timeout) ==
    /\ pc = "idle" /\ Stirring /\ Watching # {}
    /\ BeginTick(now)
    /\ call' = "run" /\ total' = {}
    /\ deadline' = IF timeout = None THEN None ELSE now + timeout
    /\ Calm /\ UNCHANGED << poller, ghosts >>

(* One turn of tick's loop up to the await: take, the page's last_poll, and *)
(* the request leaves.  Pages of the same age are in any order.             *)
Ask(m) ==
    /\ pc = "ticking" /\ m \in due /\ Oldest(m)
    /\ \E n \in 0 .. Len(spent) :
          /\ Expired(n, at) /\ HasRoom(Kept(n))
          /\ spent' = Append(Kept(n), at)
    /\ open' = [open EXCEPT ![m] = [started |-> @.started, lastPoll |-> at]]
    /\ due' = due \ {m}
    /\ asking' = m
    /\ pc' = "awaiting"
    /\ log' = Append(log, [at |-> at, sent |-> now])
    /\ Calm
    /\ UNCHANGED << last, dropped, pausedUntil, call, at, settled, total, deadline,
                    limit, owed, forfeited >>

(* take refuses: the loop ends, and the popped stamps stay popped. *)
OverBudget ==
    /\ pc = "ticking" /\ due # {}
    /\ \E n \in 0 .. Len(spent) :
          /\ Expired(n, at) /\ ~ HasRoom(Kept(n))
          /\ spent' = Kept(n)
    /\ due' = {}
    /\ Calm
    /\ UNCHANGED << open, last, dropped, pausedUntil, pc, call, at, asking, settled,
                    total, deadline, ghosts >>

-----------------------------------------------------------------------------
(* What the await brings, at most Latency later.                           *)

Reply(d) == /\ pc = "awaiting"
            /\ Elapse(d)
            /\ pc' = "ticking"
            /\ asking' = None
            /\ UNCHANGED << call, at, total, deadline, spent, log, owed, forfeited >>

(* A status.  A page whose state is final leaves open and is reported.      *)
Answered(d) ==
    /\ Reply(d)
    /\ IF asking \in answered'
       THEN /\ last' = [last EXCEPT ![asking] = "done"]
            /\ open' = [open EXCEPT ![asking] = None]
            /\ settled' = settled \cup {asking}
       ELSE /\ last' = [last EXCEPT ![asking] = "pending"]
            /\ UNCHANGED << open, settled >>
    /\ UNCHANGED << dropped, pausedUntil, due, limit >>

\* Mutant: a 429 sets the pause but the tick goes on to the next page.
LimitedGoesOn(d, retryAfter) ==
    /\ Reply(d) /\ now' <= Unrest
    /\ pausedUntil' = now' + retryAfter
    /\ limit' = [asks |-> Len(log), until |-> now' + retryAfter]
    /\ UNCHANGED << open, last, dropped, settled, due >>

(* 429: the whole poller pauses from now, and the tick asks no more.        *)
Limited(d, retryAfter) ==
    /\ Reply(d) /\ now' <= Unrest
    /\ pausedUntil' = now' + retryAfter
    /\ due' = {}
    /\ limit' = [asks |-> Len(log), until |-> now' + retryAfter]
    /\ UNCHANGED << open, last, dropped, settled >>

(* 404, of the message or of the channel. *)
Disowned(d) ==
    /\ Reply(d) /\ now' <= Unrest
    /\ open' = [open EXCEPT ![asking] = None]
    /\ dropped' = dropped \cup {asking}
    /\ UNCHANGED << last, pausedUntil, settled, due, limit >>

(* Any other error: a timeout, a 5xx, a proxy's page. *)
Blip(d) ==
    /\ Reply(d) /\ now' <= Unrest
    /\ UNCHANGED << open, last, dropped, pausedUntil, settled, due, limit >>

Replied == \E d \in 0 .. Latency :
              \/ Answered(d)
              \/ Disowned(d)
              \/ Blip(d)
              \/ \E r \in RetryAfters : Limited(d, r)

-----------------------------------------------------------------------------
(* The end of a tick, and run's loop around it.                            *)

TickDone == pc = "ticking" /\ due = {}

HandOver(reported) ==
    /\ pc' = "idle"
    /\ owed' = owed \ reported
    /\ settled' = {} /\ total' = {} /\ deadline' = None
    /\ call' = "tick" /\ at' = 0
    /\ Calm /\ UNCHANGED << poller, due, asking, log, limit, forfeited >>

TickReturns == TickDone /\ call = "tick" /\ HandOver(settled)

\* Mutant: the deadline is compared with the clock of the tick's beginning.
ExpiresByTick == deadline # None /\ at >= deadline

Expires == deadline # None /\ now >= deadline

RunReturns == /\ TickDone /\ call = "run"
              /\ Watching = {} \/ Expires
              /\ HandOver(total \cup settled)

\* Mutant: the results of a tick replace those of the ticks before it.
RunForgets == /\ TickDone /\ call = "run"
              /\ Watching # {} /\ ~ Expires
              /\ pc' = "sleeping"
              /\ total' = settled
              /\ settled' = {}
              /\ Calm
              /\ UNCHANGED << poller, call, at, due, asking, deadline, ghosts >>

RunGoesOn == /\ TickDone /\ call = "run"
             /\ Watching # {} /\ ~ Expires
             /\ pc' = "sleeping"
             /\ total' = total \cup settled
             /\ settled' = {}
             /\ Calm
             /\ UNCHANGED << poller, call, at, due, asking, deadline, ghosts >>

(* The sleep is over and the next tick begins. *)
Wake == /\ pc = "sleeping"
        /\ Elapse(Interval)
        /\ BeginTick(now + Interval)
        /\ UNCHANGED << poller, call, total, deadline, ghosts >>

(* The caller drops the future at an await: what tick and run hold in      *)
(* their own frames is gone, what they wrote to the poller stays.          *)
Cancel == /\ Cancellable
          /\ pc \in {"awaiting", "sleeping"} /\ Stirring
          /\ pc' = "idle"
          /\ settled' = {} /\ total' = {} /\ deadline' = None
          /\ due' = {} /\ asking' = None /\ call' = "tick" /\ at' = 0
          /\ forfeited' = forfeited \cup settled \cup total
          /\ Calm /\ UNCHANGED << poller, log, limit, owed >>

-----------------------------------------------------------------------------
(* The caller's idle time, and the person with the phone.                  *)

Pass == pc = "idle" /\ Stirring /\ Elapse(1) /\ UNCHANGED << poller, pc, frame, ghosts >>

Acknowledge(m) == /\ m \notin answered
                  /\ answered' = answered \cup {m}
                  /\ UNCHANGED << now, poller, pc, frame, ghosts >>

Calls == \/ \E m \in Ids : Watch(m) \/ TakeError(m)
         \/ CallTick
         \/ \E timeout \in Timeouts : CallRun(timeout)

Steps == \/ \E m \in Ids : Ask(m)
         \/ OverBudget
         \/ TickReturns \/ RunReturns \/ RunGoesOn

Next == Calls \/ Steps \/ Replied \/ Wake \/ Cancel \/ Pass
        \/ \E m \in Ids : Acknowledge(m)

Spec == Init /\ [][Next]_vars

(* The code between two awaits runs, a request ends (the transport gives   *)
(* up at its timeout) and a sleep is over: nothing else is promised.       *)
Fairness == WF_vars(Steps) /\ WF_vars(Replied) /\ WF_vars(Wake)

FairSpec == Spec /\ Fairness
-----------------------------------------------------------------------------
Times == 0 .. Horizon

Booking == [at : Nat, sent : Nat]

(* Types, and that a tick asks, and is waiting, only about pages it watches. *)
TypeOK ==
    /\ now \in Times
    /\ open \in [Ids -> Page \cup {None}]
    /\ last \in [Ids -> {"unread", "pending", "done"}]
    /\ dropped \in SUBSET Ids
    /\ spent \in Seq(Nat)
    /\ pausedUntil \in Nat
    /\ pc \in {"idle", "ticking", "awaiting", "sleeping"}
    /\ call \in {"tick", "run"}
    /\ at \in Nat
    /\ due \in SUBSET Watching
    /\ asking \in IF pc = "awaiting" THEN Watching \ due ELSE {None}
    /\ settled \in SUBSET Ids
    /\ total \in SUBSET Ids
    /\ deadline \in Nat \cup {None}
    /\ answered \in SUBSET Ids
    /\ log \in Seq(Booking)
    /\ limit \in [asks : Nat, until : Nat]
    /\ owed \in SUBSET Ids /\ forfeited \in SUBSET Ids
-----------------------------------------------------------------------------
(* The requests as the limiter books them: every one has the time its tick  *)
(* began, and these are what the promise of RequestWindow holds for.        *)
Stamps == [i \in 1 .. Len(log) |-> log[i].at]

Booked == INSTANCE RequestWindow WITH sends <- Stamps

StampsKeepTheWindow == Booked!Spec

(* The same promise for the moments the requests leave: "at most 30         *)
(* requests a minute" as the README and the server count them.              *)
SentInWindow ==
    \A i, j \in DOMAIN log : i + Budget <= j => log[j].sent - log[i].sent >= Window

(* What is left of it for them: requests that were held up by a slow tick   *)
(* and those of the tick that follows it come to less than twice the       *)
(* budget, in any window and however slow the requests are; and Mast's 60  *)
(* a minute are twice the 30.                                              *)
SentWithinTwice ==
    \A i, j \in DOMAIN log :
        i + 2 * Budget - 1 <= j => log[j].sent - log[i].sent >= Window

(* After a 429 no request leaves, for any page, before the time Retry-After *)
(* asked for has gone by.                                                   *)
RetryAfterHonoured ==
    \A i \in DOMAIN log : i > limit.asks => log[i].sent >= limit.until

(* A message that was watched and that the caller has not heard of is still *)
(* watched, or in the results on their way, or has an error to take, unless *)
(* its result was in a future the caller dropped.                           *)
NothingLost ==
    owed \subseteq Watching \cup dropped \cup settled \cup total \cup forfeited

(* And whatever the caller dropped, it is watched, has an error to take, or *)
(* last still says how it settled.                                          *)
Recoverable == owed \subseteq Watching \cup dropped \cup { m \in Ids : last[m] = "done" }

(* run overstays its timeout by one sleep and one tick at the most, and a    *)
(* tick is no longer than its requests: one a page, within the budget.      *)
LongestTick ==
    Latency * (IF Cardinality(Ids) < Budget THEN Cardinality(Ids) ELSE Budget)

OverrunBounded ==
    deadline # None => now < deadline + Interval + LongestTick

(* A call comes back: a tick always, a run with a timeout, and one without  *)
(* once every page it follows has been answered.                            *)
CallReturns == pc # "idle" ~> pc = "idle"
=============================================================================
