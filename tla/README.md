# Formal models of the Mast clients

Mast is a paging service: a program posts a message to a channel, a phone makes
a noise, a person answers, and the program learns of it by polling. This
repository holds four clients of it, in Rust, Go, JavaScript and Python, each
written on its own to the same design. This directory holds TLA+ models of
them, TLC configurations that check the models on small instances, and proofs
that TLAPS checks for every value of the constants.

## 1. Inventory

### The parts, their state, and how they meet

| Part | Where | State | Operations |
| --- | --- | --- | --- |
| Poller | `rust/src/poller.rs`, `go/poller.go`, `javascript/src/mast.js` 300-426, `python/mast_pager/client.py` 354-477 | open pages (when watched, when last asked), last statuses, the sliding window of requests spent, the end of a pause; in Rust also the errors of dropped pages | `watch`, `tick`, `run`, `last`, `take_error` (Rust), `Wait` (Go) |
| Channel | `rust/src/channel.rs`, `go/mast.go`, `mast.js` 149-298, `client.py` 199-351 | none but origin, prefix and key | `send`, `page`, `resolve`, `ping`, `fail`, `status`, `check`, `wait` |
| Transport | `rust/src/transport.rs`, Go's `http.Client`, `fetch`, `urllib` | connections | one request, with a timeout |
| Statuses | `rust/src/status.rs`, `go/status.go`, classes in the other two | none | terminal states, `open_for` |
| Message forms | `rust/src/message.rs`, `go/message.go`, `fields`, `_build` | none | validation of fields |
| Channel URLs | `rust/src/url.rs`, parse functions of the others | none | parsing, ids |
| Vendored copy | `python/vendor/mast.py`, `python/tools/vendor.py` | none | generated from the Python client |

A program calls a channel or a poller. A poller calls `channel.status` for one
page after another; a channel hands one request to its transport; Mast, or a
proxy before it, answers. A poller shares nothing with another poller. In Rust
(`&mut self`), Python (one thread that blocks) and Go (by convention) one call
is in flight on a poller; in JavaScript nothing forbids several.

### What is hard, and what makes each part correct

* **Poller.** Time goes by inside a tick, a request at a time, while the tick
  works with a clock it read, a list it made and a pause it looked at when it
  began. Correct means: the request budget holds in every window; a 429 silences
  the whole channel; a page that was watched is never forgotten without a word;
  calls come back; what a caller abandons half-way stays consistent.
* **Channel.** An answer may be lost, late, cut short, or not Mast's at all.
  Correct means: what is reported as sent is stored; what is reported as refused
  is not and will not be; a retry as documented wakes nobody twice; the check of
  a key tells the two 404s apart; a call ends.
* **The rest** is sequential and without state; the questions are of arithmetic
  and of agreement between four implementations.

`PROJECT.json` lists every hazard found, at its line.

## 2. Modules

| Module | Models | Read with |
| --- | --- | --- |
| `RequestWindow` | the promise of the limiters, abstractly | comment of `take` / `Budget` in each client |
| `RustPoller` | the Rust poller, with dropped futures | `rust/src/poller.rs` |
| `PyPoller` | the Python poller, with exceptions that escape | `client.py` 354-477 |
| `GoPoller` | the Go poller and `Channel.Wait`, with contexts | `go/poller.go`, `go/mast.go` 207-221 |
| `JsPoller` | the JavaScript poller, with overlapping calls | `mast.js` 300-426 |
| `Waits` | several `wait`s at once on one key, in Rust, JavaScript and Python, Mast's limit on the key, Retry-After | `rust/src/channel.rs` 128-146, `poller.rs` |
| `Answers` | what a client can hear, and the verdicts of a call | |
| `RustChannel`, `GoChannel`, `JsChannel`, `PyChannel` | how each client turns an answer into a verdict | the request functions of each |
| `Delivery` | one client, a caller that retries, proxies, a network that delays, Mast | composes the four above |
| `Messages` | the message builder, `into_form` and the six operations that send (Rust) | `rust/src/message.rs` |
| `Statuses` | states, stamps, `epoch_seconds`, `days_from_civil`, `open_for` (Rust) | `rust/src/status.rs` |
| `Calendar` | a calendar counted month by month, and Mast's card: what `Statuses` is held against | |
| `ChannelUrls` | `parse_channel_url`, opening a channel and printing its URL (Rust) | `rust/src/url.rs` |
| `MC*` | constants for TLC; `MCValues` sets `Messages`, `Calendar` and `ChannelUrls` side by side | |
| `*Proofs` | theorems about the module of that name; `ValuesProofs`: about `Messages`, `Calendar` with `Statuses`, and `ChannelUrls` | |
| `PlaceLemmas` | that a set of places has a first one, and that a loop from the front stops, at one place | |

### Pollers: state and actions

The variables of a poller module are the fields of the class (`open`, `last` or
`seen`, `dropped`, `spent`, `pausedUntil`), the locals of the call in flight
(`at`, `due`, `asking`, `settled` of `tick`; `total`, `deadline` of `run`), a
clock in whole seconds, and the server's knowledge of which pages are in a final
state. What the code does between two awaits (or blocking calls) is one action
or a few with no other actor in between:

| Action | Code |
| --- | --- |
| `Watch`, `TakeError` | the methods |
| `CallTick`, `CallRun`, `CallWait` | from the call to the loop over due pages |
| `Ask` | `take`, `last_poll = at`, and the request leaves |
| `OverBudget` | `take` refuses: the loop ends |
| `Answered`, `Limited`, `Disowned`, `Blip` | the arms of the match (the except or catch clauses) |
| `Escape` | Python: an exception that is no `MastError` |
| `GivesUp` | Go: a request, or the sleep, fails because the context is done |
| `TickReturns`, `RunReturns`, `RunGoesOn`, `Wake` (`Resolves` in JavaScript) | the end of `tick` and the loop of `run` |
| `Cancel` | Rust: the caller drops the future |
| `Outlasts` | JavaScript: the headers came in time, and the timeout passes while the body is read |

The limiters of Rust, Python and JavaScript take stamps off the front while they
are a window old; the model says which number of them that is (`Expired`) and
never recurses. Go filters the whole slice; the model says that what is kept is
all after the first `n` (`Cut`). A slice out of order has no such `n`, and the tick
of the model would stop there. `TakeIsDecided` proves for each of the four, and for
the waits, that there is always one such number and no other: the slice of Go is
in order, every loop stops, and none of the bounds below is kept by a model that
is stuck. The clock of JavaScript is
the wall clock; that it does not step back is assumed. `Resolves` and `RunGoesOn`
join the end of a tick with the check of `run` that follows it. The code has one
more `await` between them (`mast.js` 419), where another call may run first; it
leaves to this call only what it would find a step later. Of two requests about one
page that overlap, the older answer may come last in the code and set
`lastStatus` back; in `JsPoller` an answer is what is so when it comes.

In `RustPoller` and `GoPoller` `log` keeps for each request the stamp it was booked
under and the moment it left (in Go, under a context that was done, would have
left); in the other two there is one time. `log`, `owed`, `forfeited`, `gone`, `limit` and `late` are history
variables that only properties read (`late` of `GoPoller` also says that the
request in flight did not leave). `forfeited` and `gone.taken` hold what a dropped
future, or an exception, took with it: `NothingLost` says that nothing else is
missing, and `Recoverable` that even these can still be read from `last`.

### Waits: state and actions

`wait` makes a poller of its own, watches one message, runs it and hands back
what it knows. `wait[w]` is that call and its poller: open or not, last status,
stamps, pause, when it watches from and asked last. Waits are different tasks
that share the key and nothing else, so what one does between two awaits is one
step: `Call` and `Wake` contain a whole tick as far as its request (`Ticked`), and
the end of a request the rest of the tick and the head of the loop (`Landed`). What the limiter
pops is a number `n` again (`Expired(p, n)`), and `Kept(p, n)` is what stays.
`Arrive` is Mast with the request: it answers with the state of that moment,
refuses with a 429 (its limit on the key is used up, by whichever wait, or the
owner's other channels have), or does not know the message. The answer is on
its way then, and the page may change before it lands. `Pause` is each client's
reading of Retry-After. Time cannot pass a step that is due, so "in the end"
becomes "by such a time" and is checked as an invariant.

### Messages, statuses, URLs: state and actions

A message is built by calls in any order (`Set`), and ended by an operation
(`Send`, `Page`, `Ping`, `Fail`, `ResolveKey`, `ResolveMessage`), which adds to it,
checks it (`Refusal`: the first check that fails) and either refuses it or hands
over a form (`Form`) and makes one request. A text is its length and its scheme.
What Mast takes (`Takes`) is written from the READMEs and comments, apart from
the checks of the client.

`Calendar` turns one page of the calendar after another, forward and back, and
counts days; on the way a card may be received, acknowledged and resolved, at
any of the chosen days and times. `DaysFromCivil` and `OpenFor` of `Statuses` are
the code; they are compared with what was counted.

A pasted text is cut where its signs are: scheme, authority, the parts between
slashes, a query or fragment that may hold a `://` of its own. `ParseChannelUrl`
is the code; `Spells` says declaratively which channel a text spells. A `://`
between slashes cannot be written in these pieces (`url.rs` 39 would cut there, if
the text had no scheme), so `OpensWhatIsSpelled` says nothing of such texts.

### Delivery: state and actions

A caller makes calls (`send`, `check`) one after another. A request is on the
`wire` until it is lost, arrives, or a proxy answers in its place; the client
gives up when it likes, and what it gave up on may arrive later. Mast stores or
refuses, and may fail on either side of the store. The `Post`, `Get`, `Check`
and error-body operators of the client's module decide the verdict. The caller
retries as the four READMEs allow: after a refusal at will, after anything that
leaves it open whether the message was stored only with a dedupe key. Mast, the
proxies, the network and `urllib`'s redirects are not in this repository and are
marked external.

Two assumptions belong to the model: a 2xx without a redirect is Mast's own
(a proxy that answers 200 to everything would fool all four clients), and a
card stays open while its sender is still retrying, so that copies fold.

## 3. Runs

Pollers have two pages, a window of four seconds, a ladder of three rungs
whose last is shorter than the window, requests of zero to two seconds (in
JavaScript one, or longer where the body is late), and a sleep of one. These make
every order of "slow request", "stamp expires", "429", "settles" and "deadline"
possible within a few ticks; the second page is what lets a tick have a rest to
skip, book late or lose. `Unrest` bounds the
disturbance: until then callers call, the server errs and people answer when
they like; after it nobody starts a call, errors have ceased and every page is
answered. `Horizon` stops the clock, far enough that no call in flight needs
more time, which the liveness properties confirm: a call that ran into it would
never return. The histories are bounded by these two. In `JsPoller` two calls
may be in flight, the fewest that can get in each other's way; its bound on
`Watch` (a message is not watched again while a call still holds its old object)
is stated there. From `Unrest` on it calls nobody, errs no more, answers every
page, and lets no overdue body end: what is being read then is read for ever. Its
runs have all the time in the world or one tick's, so that they end in both ways;
what a timeout does between ticks is the question of `js_poller_stalled`, with one
page. `CHECK_DEADLOCK FALSE` stands in every
configuration because a caller may stop calling for good.

`Delivery` has three calls: a send, its retry, and a third in which a late copy
can meet both; a check may take the place of any. The client is chosen at the
start, and with it what its proxy answers (`ProxyStatuses`) and how bodies end
(`BodyEnds`). In the passing run the Rust and the Go client meet everything;
the JavaScript client is spared 401, 403 and 407, the Python client these and
redirects; section 3.1 says what they do. A call of the JavaScript client whose
body stalls does not end, and its caller makes no other.

`Waits` has two callers, one Rust and one JavaScript, about one page: their
readings of Retry-After differ, and either may use up the key's limit of two
a window or be told 429 by it. A budget of two in a window of five seconds holds
back the third poll of a page that is not answered, which is due after four
(`Budget * Fast < Window`, so that `HeardInTime` has a full window in its bound);
the last rung of the ladder, five seconds, is reached as well. Headers are 0, 2 and none, timeouts none
and 2. No call begins and no fault happens after second 2 (`Unrest`), but for 429s
of the limit itself; nobody is out at second 11 any more, and the clock stops at 15.

`MCValues` chooses what a behaviour is about. Messages: three builder calls, so
that one can override, spoil or mend another, with values on both sides of each
limit. The calendar: the years -401 to 2401, which hold every kind of year, of
century and of era on both sides of the year 0; cards received in 1970, 2000
and 2100, at the ends of months and of days, over the turn of a month. Texts: up
to four parts between slashes, enough for empty parts, an `m`, another `m`, and
what follows the key.

| Run | Shows |
| --- | --- |
| `rust_poller` | the bookings refine `RequestWindow`, and less than twice the budget leaves in any window of the clock (`SentWithinTwice`; a poller alone on its key, with 30 of Mast's 60, sends fewer than 60 in any minute, and no smaller number would do); a 429 silences the poller; no page is lost but by a dropped future; a run overstays by at most one sleep and one tick; calls return |
| `rust_poller_sent` | **violated**: the moments requests leave do not keep the budget itself (the Go limiter books the same way) |
| `py_poller` | nothing lost but by an exception that escapes, and `last_status` still knows of it; the requests themselves refine `RequestWindow`; calls return |
| `py_poller_lost` | **violated**: an escaping exception takes settled results with it |
| `go_poller` | nothing lost, at most one booking after the context is done, stamps within the budget and less than twice of it on its way in any window, calls return |
| `go_poller_wait` | **violated**: after a 404 `Wait` returns no error and no final status |
| `js_poller` | two overlapping calls: nothing lost, their requests together refine `RequestWindow`; a closed page, or the pause of a 429, is passed over only by a tick that was under way in the other call; every promise resolves but one that reads a body without an end |
| `js_poller_stalled` | **violated**: a body that never ends holds up a run beyond its timeout |
| `delivery` | sent means stored, refused means never stored, one card for a caller who retries as documented, the check tells the key |
| `delivery_denied` | **violated**: a 401, 403 or 407 is reported as sent (JavaScript and Python) |
| `values` | what leaves is what Mast takes, and nothing else stays here without a reason; the days and the open time are the ones counted; a text opens the channel it spells, and what a channel prints opens it again |
| `waits` | a final state is heard in time, and no later than its timeout allows; what is handed back is the page's; after a 429 nobody asks sooner than they were told |

### 3.1 Where the code and its documents part

The five violations are disagreements between the code and its own comments or
README; `PROJECT.json` quotes the lines under "findings". Others were met while
modelling, and the models say what the code does:

* A tick of the JavaScript poller looks at the pause before its first await
  (`mast.js` 375), so another call's 429 does not stop it; `PauseStopsTicks` allows
  for exactly that.
* A page on the due list of such a tick is asked about although it has been closed
  meanwhile (`mast.js` 380), and a later 429 that names less time shortens the
  pause (388). `StopsWhenSettled` allows for the first, and `PauseStopsTicks` speaks
  of the latest 429.
* A 404 that is a proxy's has no nested text and is read as Mast's "No such channel.":
  the check then condemns a good key. `CheckTellsTheKey` blames the clients only for
  what they make of Mast's own whole answers.
* `urllib` follows a redirect of a send with a `GET`, whose answer becomes the
  `Sent` (Python).
* "Anything the server would refuse is refused here first" (Rust README), but
  nothing looks at the size of the encoded form, which the server bounds.
* A duration of zero is refused in Rust although the wire has a zero for "off",
  which has its own method there: `RefusedWereDoomed` lists it.

### 3.2 Fairness

Weak fairness of the client's own steps (the code between two awaits runs), of
the end of a request (every transport has a timeout) and of the end of a sleep.
None for callers or people; that pages are answered in the end is the bound
`Unrest`. `JsPoller` needs strong fairness of the answers, the timers and the
clock: a program may call `tick` again and again while another call awaits, each
of these calls has the event loop to itself for a moment, and weak fairness
would let an answer that has arrived wait for ever. The loop serves its queue in
order, so it does not. It is enough that some one of them comes: within a second
there are only so many, and the next second waits for those that are due. The end
of an overdue body is under no fairness that lasts, for nothing in the code bounds it
(`mast.js` 280). `Delivery` is about safety only. `Waits` assumes none: its clock waits
for a step that is due (a timer fires, a request ends within its timeout), and
its properties are bounds on times.

## 4. Proofs

| Theorem | States |
| --- | --- |
| `RustPollerProofs!TypeCorrect`, `PauseHolds`, `NothingIsLost` | `TypeOK`, `RetryAfterHonoured`, `NothingLost` are invariants |
| `RustPollerProofs!StampsImplementWindow` | `RustPoller` implements `RequestWindow` with its stamps |
| `RustPollerProofs!TwiceIsTheMost` | `SentWithinTwice` is an invariant: what the requests keep of the window, however slow they are |
| `RustPollerProofs!DequeIsTheWindow`, `NothingIsBeyondReach` | the deque is the tail of the bookings (`WindowKept`); `Recoverable` |
| `RustPollerProofs!OverrunIsBounded` | `OverrunBounded` is an invariant, for any finite set of messages |
| `PyPollerProofs!TypeCorrect`, `NothingIsLost`, `NothingIsBeyondReach` | `TypeOK`, `NothingLost`, `Recoverable` are invariants |
| `PyPollerProofs!RequestsImplementWindow`, `RequestsInWindow` | `PyPoller` implements `RequestWindow` with its requests, and so no window sees more than the budget |
| `GoPollerProofs!TypeCorrect`, `OneRequestAtMost`, `NothingIsLost`, `BudgetIsKept` | `TypeOK`, `StopsAtCtx`, `NothingLost`, `BudgetKept` are invariants |
| `JsPollerProofs!TypeCorrect`, `NothingIsLost` | `TypeOK`, `NothingLost` are invariants, for any number of overlapping calls |
| `JsPollerProofs!RequestsImplementWindow` | the overlapping calls together implement `RequestWindow` |
| `JsPollerProofs!ClosedIsLeftAlone`, `PauseIsKept` | the action properties `StopsWhenSettled`, `PauseStopsTicks` |
| `TakeIsDecided` of the four pollers and of `WaitsProofs` | the limiter's loop stops, with one result |
| `WaitsProofs!TypeCorrect`, `FinalIsHeard`, `TimeoutIsKept`, `ResultIsThePages` | `TypeOK`, `HeardInTime`, `TimeoutKept`, `ResultIsTrue` are invariants, for any number of waits about any messages |
| `WaitsProofs!ToldIsKept` | the action property `NotBeforeTold` |
| `DeliveryProofs!TypeCorrect`, `RefusalIsFinal`, `OneCard`, `CheckIsProof` | `TypeOK`, `RefusedMeansNotStored`, `AtMostOneCard`, `CheckTellsTheKey` are invariants, for any number of calls and whatever proxies and bodies do |
| `DeliveryProofs!SentIsStored` | `SentMeansStored` is an invariant if `ProxiesDeny` |
| `ValuesProofs!MessageTypes`, `WhatIsSentIsTaken`, `WhatIsRefusedIsNot`, `OperationHasTheLastWord` | `TypeOK` of `Messages`, `DoomedStayHere`, `RefusedWereDoomed`, `OperationPrevails` are invariants, for any texts, durations and number of builder calls |
| `ValuesProofs!CalendarIsCounted`, `OpenForIsRight` | `DaysCounted`, `OpenForIsElapsed` are invariants, for any years, days, clocks and cards |
| `ValuesProofs!SpelledIsOpened`, `PrintedIsOpened` | the invariant `OpensWhatIsSpelled` and the action property `ReopensTheSame`, for texts of any length |

They hold for any set of messages, budget, window, ladder, latency, Retry-After
and bound, under the named assumptions on the constants. All invariants and
action properties of the passing runs are stated by one of them.

* **The budget.** `InWindow` is not inductive without `Sorted`: a new request is
  compared with the one `Budget` places back and has to bound all before it. In
  the pollers the deque alone does not tell what was popped, so the invariant
  (`WindowInv`) says that the deque is the log from a certain place on, that the
  log is sorted, and that what lies before that place is a window older than the
  stamp now in use, which time can only make older. `Ask` then finds exactly the
  guard of `Request`, and every other step stutters. In Go the cut is by value and
  not by place: `InOrder`, that the slice is sorted and never ahead of the tick, is
  what shows that it is a number of stamps off the front.
* **The requests that leave.** In Rust and Go a tick books all its requests under
  the time it began, so a slow tick sends them later than they are booked, and
  the tick that follows may pop them too early. `SentInv` says how far this goes:
  the tick under way made the last `c` requests (`OfTick`); none of these can its
  own limiter pop, so `c` is within the budget; every earlier request, and the first
  of its own, had left by the tick's stamp. Hence a request has left by the time
  the one `Budget - 1` after it is booked, that one is booked a window before the
  one `Budget` after it, and that one leaves no sooner than it is booked:
  together `2 * Budget - 1` places, and one fewer is refuted by TLC.
* **The pause.** `RetryAfterHonoured` needs that a tick with pages left to ask
  about began after the pause was over or the pause has been set by its own
  429, which emptied `due`.
* **Nothing lost.** The invariant (`Held`) adds that results are held only while a
  call is in flight, and those of earlier ticks only by `run`: so a call that
  returns or begins leaves none behind. `Recoverable` does not need it, for `last`
  is written before `open` is left.
* **The overrun.** `PaceInv`: a tick under way has asked `c` times, each time booked
  under its own stamp, which cannot expire within the tick, so `c` is within the
  budget; each time for a page that leaves `due`, so `c` is within the pages; and it
  has waited no longer than `c` requests take. It began less than a sleep after the
  deadline, for `run` sleeps only before it.
* **A done context.** A request booked under one is the last thing its call does
  (`LateIsLast`): the call waits for it, and every way on from there returns.
* **Overlapping calls.** `CallsInv` is one sentence for each call: results are
  held only in flight, its tick began no later than now, each page it has still
  to ask about is open or was closed after the tick began, and it has pages to
  ask about only if the pause is over or came from another call after its tick
  began. A step of one call has to keep the sentences of all: it does because
  pages close, and pauses begin, at the present moment, which no tick is ahead of.
* **One card.** `FoldInv`: a request is on the wire or its message is stored, not
  both; an answer that could be read as a refusal belongs to a request that is
  neither; and without a dedupe key at most one send is out or stored at all,
  for the caller sends again only after refusals. What each client makes of an
  answer enters through lemmas about the four channel modules: a verdict is a
  refusal only for 400, 404, 413, 429 (`RefusalsOfAnswers`), and the check passes
  only Mast's own sentence (`ChecksOfAnswers`).
* **The key.** `KeyInv`: an answer with Mast's sentence about messages began when the
  key was good, and Mast's own 404 without it means that the key is gone.
* **Sent means stored.** `ProxiesDeny` is the exact exclusion: no proxy answers with
  a status its client takes for stored (`PostsOfAnswers`). `delivery_denied` shows
  that without it the claim fails.
* **Waits.** One sentence for each wait (`Good`), about its poller, its page and the
  clock. A wait that sleeps or is out was last silent (`crossed`), or its page was
  still open, no longer ago than one of three things lasts: a rung of the ladder,
  a request, or a full window. What holds a tick back is each time bounded by
  the last of them: a pause ends at `crossed`; a page not yet due is due a rung
  after it was last asked about; and a tick over budget comes less than a window
  after the last request, for stamps lie a rung apart (`Spaced`), so that where
  `Budget * Fast >= Window` the budget is never used up (`FullIsRecent`). The step
  that lands a request adds a sleep and a request to that, and a return a
  deadline. An answer on its way is either the page's final state or left before
  the page turned (`Truthful`), which is all that `HeardInTime` and `ResultIsTrue`
  know of it. `told` is never ahead of the pause, whoever reads the header.
* **Messages.** `IInv`: a message under way has no resolve on it and has cost
  nothing; one that ended was refused for its argument, or is what its checks say
  of the message as it then was. The rest is about the checks alone: what passes
  them all is taken (`PassedIsTaken`), what fails one of them is not
  (`RefusedIsNotTaken`).
* **The calendar.** The number of the first of a month (`OnThePage`) is shown to move
  by the length of the month; the turn of February and March, where the years of
  the algorithm begin, carries the leap days, over eras and the year 0. A card's
  instants (`CardIsRead`) then read as they were counted.
* **URLs.** The parser takes the next part of a path that is not empty. That there
  is a next one, and that it is the one the text spells, needs no induction over
  the path: the places with a part are a set of numbers, and such a set has a
  least (`LeastOf`, from the library's well-foundedness of the strict subsets of a
  finite set). The channel that was opened prints a text that spells it, so that
  the second theorem is the first one again.
* **Loops that stop.** `FrontEnds` and `FrontEndsOnce`, from `LeastOf`: taking from
  the front while the place is in a set ends, and at one place only.

Only proved, no run checks them: `WindowKept` and `Recoverable` of `RustPoller`,
`InWindow` of `PyPoller`'s requests, `OperationPrevails` and `TypeOK` of `Messages`,
`TakeStops`.

Only model-checked: liveness (`CallReturns`, `CallsResolve`), for fairness and ENABLED
are beyond the prover.

## 5. Not modelled

* Forms, URLs and stamps of Go, JavaScript and Python. They rely on libraries for
  parts of it (`net/url`, `URL`, `Date`, `datetime`), which are not in this
  repository.
* Percent-encoding, and with it the size of a form on the wire.
* Of Retry-After: fractions, infinity (which Python's `float` takes) and the
  overflow of Go's product (`mast.go` 332).
* Clocks that step back.
* On the server: vitals, and cards that are resolved between two sends.
* How long the youngest of many pages waits when the budget is short: it needs
  more pages than a run can hold together with requests that take time.
* The generator of the vendored copy, and the copy.

`PROJECT.json` says why, part by part.

## 6. Plan

Done: the pollers, their budget and what they hand over; the channels and
delivery; waits on one key; messages, stamps and URLs of the Rust client; the
proofs of all their safety properties.

Left, in this order:

1. Resolves and late pages in `Delivery`, with the server's open and closed cards.
2. Forms and URLs of Go, JavaScript and Python, against `Messages` and `ChannelUrls`.
3. Retry-After with floats and integer widths.
4. Starvation: how long the youngest of many pages waits when the budget is short.
