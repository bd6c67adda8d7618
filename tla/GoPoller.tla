------------------------------ MODULE GoPoller ------------------------------
(***************************************************************************)
(* The poller of the Go client, go/poller.go, and Channel.Wait of          *)
(* go/mast.go, which is one Run of a poller of its own.                    *)
(*                                                                         *)
(* A call is given up through its context.  The context may be done at any *)
(* moment; the code looks at it when a request has failed and when it      *)
(* sleeps, and every return hands over what has settled so far.            *)
(***************************************************************************)
EXTENDS Integers, Sequences, FiniteSets

CONSTANTS
    Ids,                        \* message ids
    Budget, Window,             \* Poller.Budget and the minute of take
    FastFor, SlowFor,           \* pollLadder
    Fast, Slow, Slowest,
    Interval,                   \* pollTick
    Latency,                    \* the HTTP client's timeout
    RetryAfters,                \* what a 429 asks for, at least a second
    None,
    Unrest,                     \* bound: then nobody calls, the server is well
                                \* and every page is answered
    Horizon                     \* bound: the clock stops there

Page    == [started : Nat, lastPoll : Int]
Booking == [at : Nat, sent : Nat]

ASSUME BudgetAssumption == Budget \in Nat /\ Window \in Nat \ {0}
ASSUME TimeAssumption ==
    /\ {FastFor, SlowFor, Fast, Slow, Slowest, Latency, Unrest, Horizon} \subseteq Nat
    /\ Interval \in Nat \ {0}
    /\ RetryAfters \subseteq Nat \ {0}
ASSUME NoneAssumption == None \notin Ids \cup Page

VARIABLES
    now, open, last, spent, paused,         \* the clock and Poller's fields
    pc,             \* "idle", "ticking", "awaiting" or "sleeping"
    call,           \* "Tick", "Run" or "Wait"
    ctx,            \* the context of the call: "live" or "done"
    at, due, asking, settled, total,        \* the frames of Tick and Run
    answered,       \* the server: pages in a state that is final
    answer,         \* what the last Wait returned: a status and an error
    log,            \* history: the requests booked, under what stamp and when
    late,           \* history: requests this call booked with its ctx done
    gone            \* history: pages owed to the caller, pages disowned

poller  == << open, last, spent, paused >>
frame   == << call, at, due, asking, settled, total >>
history == << log, gone >>
vars    == << now, poller, pc, ctx, frame, answered, answer, late, history >>
-----------------------------------------------------------------------------
Every(age) == CASE age < FastFor -> Fast
                [] age >= FastFor /\ age < SlowFor -> Slow
                [] OTHER -> Slowest

Due(page, t) == t - page.lastPoll >= Every(t - page.started)

Watching == { m \in Ids : open[m] # None }

Oldest(m) == \A n \in due : open[m].started <= open[n].started

\* Mutant: a stamp is forgotten a second early.
CutShort(n, t) == \A i \in 1 .. Len(spent) : t - spent[i] < Window - 1 <=> i > n

(* take keeps the stamps after the cutoff, wherever they are in the slice,  *)
(* and they are those after its first n: a slice out of order has no such   *)
(* n, and the tick would stop there.                                       *)
Cut(n, t) == \A i \in 1 .. Len(spent) : t - spent[i] < Window <=> i > n

Kept(n) == SubSeq(spent, n + 1, Len(spent))

Elapse(d) == /\ now + d <= Horizon
             /\ now' = now + d
             /\ answered' = IF now + d > Unrest THEN Ids ELSE answered

Calm == UNCHANGED << now, answered >>

Stirring == now < Unrest
-----------------------------------------------------------------------------
Unused == /\ open = [m \in Ids |-> None]
          /\ last = [m \in Ids |-> "unread"]
          /\ spent = << >> /\ paused = 0

Init == /\ now = 0 /\ Unused
        /\ pc = "idle" /\ call = "Tick" /\ ctx = "live"
        /\ at = 0 /\ due = {} /\ asking = None /\ settled = {} /\ total = {}
        /\ answered = {}
        /\ answer = [status |-> "done", err |-> "nil"]
        /\ log = << >> /\ late = 0
        /\ gone = [owed |-> {}, disowned |-> {}]

(* A watched page starts with the zero time as its last poll: due at once.  *)
Opened(m) == [started |-> now, lastPoll |-> -Slowest]

Watch(m) ==
    /\ pc = "idle" /\ Stirring
    /\ open' = [open EXCEPT ![m] = IF @ = None THEN Opened(m) ELSE @]
    /\ gone' = [owed |-> gone.owed \cup {m}, disowned |-> gone.disowned \ {m}]
    /\ Calm /\ UNCHANGED << last, spent, paused, pc, ctx, frame, answer, late, log >>

BeginTick(t) ==
    /\ pc' = "ticking"
    /\ at' = t
    /\ due' = IF t < paused THEN {} ELSE { m \in Watching : Due(open[m], t) }
    /\ settled' = {}
    /\ asking' = None

(* Run with nothing open returns at once, so it is called with a page open. *)
Call(name) ==
    /\ pc = "idle" /\ Stirring
    /\ name = "Run" => Watching # {}
    /\ BeginTick(now)
    /\ call' = name /\ total' = {} /\ ctx' = "live" /\ late' = 0
    /\ Calm /\ UNCHANGED << poller, answer, history >>

(* Wait watches on a poller of its own: here, one nobody has used.  Its     *)
(* first tick asks at once, and it is thrown away when Wait returns.        *)
CallWait(m) ==
    /\ pc = "idle" /\ Stirring /\ Unused
    /\ open' = [open EXCEPT ![m] = Opened(m)]
    /\ pc' = "ticking" /\ at' = now /\ due' = {m}
    /\ call' = "Wait" /\ ctx' = "live" /\ late' = 0
    /\ gone' = [owed |-> {m}, disowned |-> {}]
    /\ Calm
    /\ UNCHANGED << last, spent, paused, asking, settled, total, answer, log >>

(* One turn of the loop.  A request under a done context does not leave,    *)
(* but it is booked.                                                       *)
Ask(m) == /\ pc = "ticking" /\ m \in due /\ Oldest(m)
          /\ \E n \in 0 .. Len(spent) : /\ Cut(n, at) /\ Len(Kept(n)) < Budget
                                        /\ spent' = Append(Kept(n), at)
          /\ open' = [open EXCEPT ![m] = [started |-> @.started, lastPoll |-> at]]
          /\ due' = due \ {m}
          /\ asking' = m
          /\ pc' = "awaiting"
          /\ log' = Append(log, [at |-> at, sent |-> now])
          /\ late' = IF ctx = "live" THEN late ELSE late + 1
          /\ Calm
          /\ UNCHANGED << last, paused, call, ctx, at, settled, total, answer, gone >>

OverBudget == /\ pc = "ticking" /\ due # {}
              /\ \E n \in 0 .. Len(spent) : /\ Cut(n, at) /\ Len(Kept(n)) >= Budget
                                            /\ spent' = Kept(n)
              /\ due' = {}
              /\ Calm
              /\ UNCHANGED << open, last, paused, pc, call, ctx, at, asking, settled,
                              total, answer, late, history >>
-----------------------------------------------------------------------------
(* What the request brings.  A reply can still win against the context.     *)

Reply(d) == /\ pc = "awaiting" /\ late = 0
            /\ Elapse(d)
            /\ pc' = "ticking"
            /\ asking' = None
            /\ UNCHANGED << call, ctx, at, total, spent, answer, late, log >>

Answered(d) ==
    /\ Reply(d)
    /\ IF asking \in answered'
       THEN /\ last' = [last EXCEPT ![asking] = "done"]
            /\ open' = [open EXCEPT ![asking] = None]
            /\ settled' = settled \cup {asking}
       ELSE /\ last' = [last EXCEPT ![asking] = "pending"]
            /\ UNCHANGED << open, settled >>
    /\ UNCHANGED << paused, due, gone >>

Limited(d, retryAfter) ==
    /\ Reply(d) /\ now' <= Unrest
    /\ paused' = now' + retryAfter
    /\ due' = {}
    /\ UNCHANGED << open, last, settled, gone >>

\* Mutant: a 404 settles nothing and closes the rest of the tick's pages too.
DisownedAll(d) ==
    /\ Reply(d) /\ now' <= Unrest
    /\ open' = [m \in Ids |-> IF m \in due \cup {asking} THEN None ELSE open[m]]
    /\ gone' = [gone EXCEPT !.disowned = @ \cup {asking}]
    /\ UNCHANGED << last, paused, settled, due >>

(* A 404 of either kind: the page is deleted, and that is all.              *)
Disowned(d) ==
    /\ Reply(d) /\ now' <= Unrest
    /\ open' = [open EXCEPT ![asking] = None]
    /\ gone' = [gone EXCEPT !.disowned = @ \cup {asking}]
    /\ UNCHANGED << last, paused, settled, due >>

\* Mutant: a request that fails for its context is a blip like any other.
BlipAnyway(d) == /\ pc = "awaiting" /\ Elapse(d) /\ now' <= Unrest
                 /\ pc' = "ticking" /\ asking' = None
                 /\ UNCHANGED << call, ctx, at, total, spent, answer, late, log >>
                 /\ UNCHANGED << open, last, paused, settled, due, gone >>

Blip(d) == /\ Reply(d) /\ now' <= Unrest /\ ctx = "live"
           /\ UNCHANGED << open, last, paused, settled, due, gone >>

Replied == \E d \in 0 .. Latency :
              \/ Answered(d) \/ Disowned(d) \/ Blip(d)
              \/ \E r \in RetryAfters : Limited(d, r)
-----------------------------------------------------------------------------
(* The returns.  Each hands over what settled, with or without an error;    *)
(* Wait turns it into one status.                                          *)

Waited(m, reported, err) ==
    CASE m \in reported -> [status |-> "done", err |-> "nil"]
      [] m \notin reported -> [status |-> last[m], err |-> err]

Return(reported, err) ==
    /\ pc' = "idle"
    /\ call' = "Tick" /\ ctx' = "live" /\ late' = 0 /\ at' = 0
    /\ due' = {} /\ asking' = None /\ settled' = {} /\ total' = {}
    /\ IF call = "Wait"
       THEN /\ \E m \in gone.owed : answer' = Waited(m, reported, err)
            /\ open' = [n \in Ids |-> None]
            /\ last' = [n \in Ids |-> "unread"]
            /\ spent' = << >> /\ paused' = 0
            /\ log' = << >> /\ gone' = [owed |-> {}, disowned |-> {}]
       ELSE /\ gone' = [gone EXCEPT !.owed = @ \ reported]
            /\ UNCHANGED << poller, answer, log >>
    /\ Calm

\* Mutant: a return with an error leaves out what this tick has settled.
GivesUpEmpty == /\ ctx = "done" /\ pc \in {"awaiting", "sleeping"}
                /\ Return(total, "ctx")

TickDone == pc = "ticking" /\ due = {}

TickReturns == TickDone /\ call = "Tick" /\ Return(settled, "nil")

\* Mutant: run does not see that a 404 has closed the last page.
RunReturnsSettled == /\ TickDone /\ call # "Tick" /\ Watching = {}
                     /\ gone.disowned = {}
                     /\ Return(total \cup settled, "nil")

RunReturns == /\ TickDone /\ call # "Tick" /\ Watching = {}
              /\ Return(total \cup settled, "nil")

RunGoesOn == /\ TickDone /\ call # "Tick" /\ Watching # {}
             /\ pc' = "sleeping"
             /\ total' = total \cup settled /\ settled' = {}
             /\ Calm
             /\ UNCHANGED << poller, call, ctx, at, due, asking, answer, late, history >>

Wake == /\ pc = "sleeping" /\ ctx = "live"
        /\ Elapse(Interval) /\ BeginTick(now + Interval)
        /\ UNCHANGED << poller, call, ctx, total, answer, late, history >>

(* The context is done and a request has failed for it, or the sleep ends.  *)
GivesUp == /\ ctx = "done" /\ pc \in {"awaiting", "sleeping"}
           /\ Return(total \cup settled, "ctx")

CtxDone == /\ pc # "idle" /\ ctx = "live" /\ Stirring
           /\ ctx' = "done"
           /\ UNCHANGED << now, poller, pc, frame, answered, answer, late, history >>
-----------------------------------------------------------------------------
Pass == /\ pc = "idle" /\ Stirring /\ Elapse(1)
        /\ UNCHANGED << poller, pc, ctx, frame, answer, late, history >>

Acknowledge(m) == /\ m \notin answered
                  /\ answered' = answered \cup {m}
                  /\ UNCHANGED << now, poller, pc, ctx, frame, answer, late, history >>

Steps == (\E m \in Ids : Ask(m)) \/ OverBudget \/ TickReturns \/ RunReturns \/ RunGoesOn

Next == \/ \E m \in Ids : Watch(m) \/ CallWait(m) \/ Acknowledge(m)
        \/ Call("Tick") \/ Call("Run")
        \/ Steps \/ Replied \/ Wake \/ GivesUp \/ CtxDone \/ Pass

Spec == Init /\ [][Next]_vars

FairSpec == Spec /\ WF_vars(Steps) /\ WF_vars(Replied \/ GivesUp) /\ WF_vars(Wake)
-----------------------------------------------------------------------------
TypeOK ==
    /\ now \in 0 .. Horizon
    /\ open \in [Ids -> Page \cup {None}]
    /\ last \in [Ids -> {"unread", "pending", "done"}]
    /\ spent \in Seq(Nat) /\ paused \in Nat
    /\ pc \in {"idle", "ticking", "awaiting", "sleeping"}
    /\ call \in {"Tick", "Run", "Wait"} /\ ctx \in {"live", "done"}
    /\ at \in Nat
    /\ due \in SUBSET Watching
    /\ asking \in IF pc = "awaiting" THEN Watching \ due ELSE {None}
    /\ settled \in SUBSET Ids /\ total \in SUBSET Ids
    /\ answered \in SUBSET Ids
    /\ answer \in [status : {"unread", "pending", "done"}, err : {"nil", "ctx"}]
    /\ log \in Seq(Booking) /\ late \in Nat
    /\ gone \in [owed : SUBSET Ids, disowned : SUBSET Ids]

(* What settled before the context was done is handed over with its error:  *)
(* a watched page no result has reported is open, disowned or on its way.   *)
NothingLost ==
    gone.owed \subseteq Watching \cup gone.disowned \cup settled \cup total

(* A call whose context is done books one request at the most before it     *)
(* returns, however many pages its tick has still to ask about.             *)
StopsAtCtx == late <= 1

(* No window of a poller's stamps holds more than its budget, whichever     *)
(* requests a done context kept from leaving.                              *)
StampsInWindow ==
    \A i, j \in DOMAIN log : i + Budget <= j => log[j].at - log[i].at >= Window

(* Nor does a window of the clock see twice the budget leave, however far   *)
(* the stamps of a slow tick lag behind it.                                *)
SentWithinTwice ==
    \A i, j \in DOMAIN log :
        i + 2 * Budget - 1 <= j => log[j].sent - log[i].sent >= Window

BudgetKept == StampsInWindow /\ SentWithinTwice

(* Wait "polls one message until it settles or ctx runs out": without an    *)
(* error its answer is a status that is final.                             *)
WaitSettles == answer.err = "nil" => answer.status = "done"

(* Every call comes back: when the pages have settled, or the context is    *)
(* done.                                                                   *)
CallReturns == pc # "idle" ~> pc = "idle"
=============================================================================
