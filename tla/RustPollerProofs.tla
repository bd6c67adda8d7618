-------------------------- MODULE RustPollerProofs --------------------------
(***************************************************************************)
(* What is proved of the Rust poller for every set of messages, budget,    *)
(* window, ladder, latency and timeout, and for callers that drop futures  *)
(* as for callers that do not.                                             *)
(***************************************************************************)
EXTENDS RustPoller, PlaceLemmas

USE DEF poller, frame, ghosts, vars

-----------------------------------------------------------------------------
(* Facts about the helpers. *)

(* An expired prefix leaves a queue of stamps that are still stamps.       *)
LEMMA KeptType ==
    ASSUME spent \in Seq(Nat), NEW n \in 0 .. Len(spent)
    PROVE  /\ Kept(n) \in Seq(Nat)
           /\ Len(Kept(n)) = Len(spent) - n
           /\ \A k \in 1 .. Len(spent) - n : Kept(n)[k] = spent[n + k]
BY DEF Kept

-----------------------------------------------------------------------------
(* The state has its type: the clock stays within its bound, pages, stamps *)
(* and history are what the fields of Poller and of tick's frame hold.     *)
THEOREM TypeCorrect == Spec => []TypeOK
<1>1. Init => TypeOK
  BY TimeAssumption DEF Init, TypeOK, Times, Watching
<1>2. TypeOK /\ [Next]_vars => TypeOK'
  <2> SUFFICES ASSUME TypeOK, [Next]_vars PROVE TypeOK'
    OBVIOUS
  <2> USE TypeOK DEF TypeOK, Times, Watching
  <2>1. ASSUME NEW m \in Ids, Watch(m) PROVE TypeOK'
    <3>1. [started |-> now, lastPoll |-> Never] \in Page
      BY TimeAssumption, LadderAssumption DEF Page, Never
    <3> QED
      BY <2>1, <3>1 DEF Watch, Calm
  <2>2. ASSUME NEW m \in Ids, TakeError(m) PROVE TypeOK'
    BY <2>2 DEF TakeError, Calm
  <2>3. CASE CallTick
    BY <2>3 DEF CallTick, BeginTick, Calm, DueAt
  <2>4. ASSUME NEW timeout \in Timeouts, CallRun(timeout) PROVE TypeOK'
    BY <2>4, TimeAssumption DEF CallRun, BeginTick, Calm, DueAt
  <2>5. ASSUME NEW m \in Ids, Ask(m) PROVE TypeOK'
    <3>1. spent' \in Seq(Nat)
      BY <2>5, KeptType DEF Ask
    <3>2. /\ open' \in [Ids -> Page \cup {None}]
          /\ m \in Watching' /\ due' \in SUBSET Watching'
      <4>1. open[m] \in Page
        BY <2>5 DEF Ask
      <4>2. [started |-> open[m].started, lastPoll |-> at] \in Page
        BY <4>1 DEF Page
      <4>3. None \notin Page
        BY NoneAssumption
      <4> QED
        BY <4>2, <4>3, <2>5 DEF Ask
    <3>3. log' \in Seq(Booking)
      <4>1. [at |-> at, sent |-> now] \in Booking
        BY DEF Booking
      <4> QED
        BY <4>1, <2>5 DEF Ask
    <3> QED
      BY <2>5, <3>1, <3>2, <3>3 DEF Ask, Calm
  <2>6. CASE OverBudget
    BY <2>6, KeptType DEF OverBudget, Calm
  <2>7. ASSUME NEW d \in 0 .. Latency, Answered(d) PROVE TypeOK'
    BY <2>7, TimeAssumption DEF Answered, Reply, Elapse
  <2>8. ASSUME NEW d \in 0 .. Latency, NEW r \in RetryAfters, Limited(d, r)
        PROVE TypeOK'
    BY <2>8, TimeAssumption DEF Limited, Reply, Elapse
  <2>9. ASSUME NEW d \in 0 .. Latency, Disowned(d) PROVE TypeOK'
    BY <2>9, TimeAssumption DEF Disowned, Reply, Elapse
  <2>10. ASSUME NEW d \in 0 .. Latency, Blip(d) PROVE TypeOK'
    BY <2>10, TimeAssumption DEF Blip, Reply, Elapse
  <2>11. CASE TickReturns
    BY <2>11 DEF TickReturns, TickDone, HandOver, Calm
  <2>12. CASE RunReturns
    BY <2>12 DEF RunReturns, TickDone, HandOver, Calm
  <2>13. CASE RunGoesOn
    BY <2>13 DEF RunGoesOn, TickDone, Calm
  <2>14. CASE Wake
    BY <2>14, TimeAssumption DEF Wake, BeginTick, Elapse, DueAt
  <2>15. CASE Cancel
    BY <2>15 DEF Cancel, Calm
  <2>16. CASE Pass
    BY <2>16 DEF Pass, Elapse
  <2>17. ASSUME NEW m \in Ids, Acknowledge(m) PROVE TypeOK'
    BY <2>17 DEF Acknowledge
  <2>18. CASE UNCHANGED vars
    BY <2>18
  <2> QED
    BY <2>1, <2>2, <2>3, <2>4, <2>5, <2>6, <2>7, <2>8, <2>9, <2>10, <2>11, <2>12,
       <2>13, <2>14, <2>15, <2>16, <2>17, <2>18
       DEF Next, Calls, Steps, Replied
<1> QED
  BY <1>1, <1>2, PTL DEF Spec

(* take looks at the front of the deque again and again.  It stops, with    *)
(* one result, whatever the stamps and the clock: a tick is never held up   *)
(* in its limiter, and the choice of n in the model is none.               *)
TakeStops ==
    \A t \in Nat : \E n \in 0 .. Len(spent) :
        Expired(n, t) /\ \A k \in 0 .. Len(spent) : Expired(k, t) => k = n

THEOREM TakeIsDecided == Spec => []TakeStops
<1>1. TypeOK => TakeStops
  <2> SUFFICES ASSUME TypeOK, NEW t \in Nat
               PROVE  \E n \in 0 .. Len(spent) :
                         /\ Expired(n, t)
                         /\ \A k \in 0 .. Len(spent) : Expired(k, t) => k = n
    BY DEF TakeStops
  <2> DEFINE P == { i \in 1 .. Len(spent) : t - spent[i] >= Window }
  <2>1. /\ Len(spent) \in Nat /\ Window \in Nat
        /\ \A i \in 1 .. Len(spent) : spent[i] \in Nat
    BY BudgetAssumption DEF TypeOK
  <2>2. \A n \in 0 .. Len(spent) : Expired(n, t) <=> StopsAt(n, Len(spent), P)
    BY <2>1 DEF Expired, StopsAt
  <2> HIDE DEF P
  <2>3. PICK n \in 0 .. Len(spent) : StopsAt(n, Len(spent), P)
    BY <2>1, FrontEnds
  <2>4. \A k \in 0 .. Len(spent) : StopsAt(k, Len(spent), P) => k = n
    BY <2>1, <2>3, FrontEndsOnce
  <2> QED
    BY <2>2, <2>3, <2>4
<1> QED
  BY <1>1, TypeCorrect, PTL

-----------------------------------------------------------------------------
(* The request window.  Invariant: a tick's stamp lies behind the clock, no *)
(* request is booked ahead of the tick that is asking, and the limiter's    *)
(* deque is the tail of what was booked: it has forgotten only requests     *)
(* that are a window old for that tick.                                    *)

Stamp == IF pc \in {"ticking", "awaiting"} THEN at ELSE now

Forgotten == Len(log) - Len(spent)

StampsPast == /\ at <= now
              /\ \A i \in 1 .. Len(log) : log[i].at <= Stamp

WindowKept == /\ Forgotten >= 0
              /\ \A k \in 1 .. Len(spent) : spent[k] = log[Forgotten + k].at
              /\ \A i \in 1 .. Forgotten : Stamp - log[i].at >= Window

WindowInv == StampsPast /\ WindowKept

(* Only Ask books a request, and only it and OverBudget touch the deque.    *)
LEMMA OnlyAskBooks ==
    ASSUME [Next]_vars
    PROVE  \/ \E m \in Ids : Ask(m)
           \/ OverBudget
           \/ UNCHANGED << spent, log >>
BY DEF Next, Calls, Steps, Replied, Watch, TakeError, CallTick, CallRun, Answered,
       Limited, Disowned, Blip, Reply, TickReturns, RunReturns, RunGoesOn, HandOver,
       Wake, Cancel, Pass, Acknowledge

(* The stamp a request gets does not go back from one step to the next,     *)
(* however long a tick lags behind the clock.                               *)
LEMMA StampGrows ==
    ASSUME TypeOK, at <= now, [Next]_vars
    PROVE  at' <= now' /\ Stamp' >= Stamp
<1> USE TimeAssumption DEF TypeOK, Times, Stamp
<1>1. ASSUME NEW m \in Ids, Watch(m) \/ TakeError(m) \/ Ask(m) \/ Acknowledge(m)
      PROVE  at' <= now' /\ Stamp' >= Stamp
  BY <1>1 DEF Watch, TakeError, Ask, Acknowledge, Calm
<1>2. ASSUME NEW timeout \in Timeouts, CallTick \/ CallRun(timeout)
      PROVE  at' <= now' /\ Stamp' >= Stamp
  BY <1>2 DEF CallTick, CallRun, BeginTick, Calm
<1>3. CASE CallTick
  BY <1>3 DEF CallTick, BeginTick, Calm
<1>4. ASSUME NEW d \in 0 .. Latency, Reply(d)
      PROVE  at' <= now' /\ Stamp' >= Stamp
  BY <1>4 DEF Reply, Elapse
<1>5. CASE OverBudget \/ TickReturns \/ RunReturns \/ RunGoesOn \/ Cancel
  BY <1>5 DEF OverBudget, TickReturns, RunReturns, RunGoesOn, TickDone, HandOver,
              Cancel, Calm
<1>6. CASE Wake \/ Pass
  BY <1>6 DEF Wake, Pass, BeginTick, Elapse
<1>7. CASE UNCHANGED vars
  BY <1>7
<1> QED
  BY <1>1, <1>2, <1>3, <1>4, <1>5, <1>6, <1>7
     DEF Next, Calls, Steps, Replied, Answered, Limited, Disowned, Blip

(* The history and the deque hold stamps. *)
LEMMA StampTypes ==
    ASSUME TypeOK
    PROVE  /\ Len(log) \in Nat /\ Len(spent) \in Nat /\ Window \in Nat /\ at \in Nat
           /\ \A i \in 1 .. Len(log) : log[i].at \in Nat
           /\ \A k \in 1 .. Len(spent) : spent[k] \in Nat
<1>1. log \in Seq(Booking) /\ spent \in Seq(Nat) /\ at \in Nat
  BY DEF TypeOK
<1>2. \A i \in 1 .. Len(log) : log[i] \in Booking
  BY <1>1
<1>3. \A k \in 1 .. Len(spent) : spent[k] \in Nat
  BY <1>1
<1> QED
  BY <1>1, <1>2, <1>3, BudgetAssumption DEF Booking

(* What take pops is old, as what it popped before was.                     *)
LEMMA ForgottenAreOld ==
    ASSUME TypeOK, WindowKept, Stamp = at,
           NEW n \in 0 .. Len(spent), Expired(n, at)
    PROVE  \A i \in 1 .. Forgotten + n : at - log[i].at >= Window
<1>1. /\ Forgotten \in Nat
      /\ \A k \in 1 .. Len(spent) : spent[k] = log[Forgotten + k].at
      /\ \A i \in 1 .. Forgotten : at - log[i].at >= Window
  BY StampTypes DEF WindowKept, Forgotten
<1> SUFFICES ASSUME NEW i \in 1 .. Forgotten + n, i > Forgotten
             PROVE  at - log[i].at >= Window
  BY <1>1
<1> DEFINE k == i - Forgotten
<1>2. k \in 1 .. n /\ k \in 1 .. Len(spent) /\ i = Forgotten + k
  BY <1>1, StampTypes
<1>3. spent[k] = log[i].at
  BY <1>1, <1>2
<1>4. at - spent[k] >= Window
  BY <1>2 DEF Expired
<1> QED
  BY <1>3, <1>4

LEMMA WindowInvInit == Init => WindowInv
BY TimeAssumption DEF Init, WindowInv, StampsPast, WindowKept, Forgotten, Stamp

LEMMA WindowInvStep ==
    ASSUME TypeOK, TypeOK', WindowInv, [Next]_vars
    PROVE  WindowInv'
<1>1. at' <= now' /\ Stamp' >= Stamp /\ Stamp \in Int /\ Stamp' \in Int
  <2>1. at' <= now' /\ Stamp' >= Stamp
    BY StampGrows DEF WindowInv, StampsPast
  <2>2. at \in Nat /\ at' \in Nat /\ now \in Nat /\ now' \in Nat
    BY TimeAssumption DEF TypeOK, Times
  <2> QED
    BY <2>1, <2>2 DEF Stamp
<1>2. /\ Len(log) \in Nat /\ Len(spent) \in Nat /\ Window \in Nat /\ at \in Nat
      /\ \A i \in 1 .. Len(log) : log[i].at \in Nat
      /\ \A k \in 1 .. Len(spent) : spent[k] \in Nat
  BY StampTypes
<1>3. /\ Forgotten \in Nat /\ Forgotten = Len(log) - Len(spent)
      /\ \A i \in 1 .. Len(log) : log[i].at <= Stamp
      /\ \A k \in 1 .. Len(spent) : spent[k] = log[Forgotten + k].at
      /\ \A i \in 1 .. Forgotten : Stamp - log[i].at >= Window
  BY <1>2 DEF WindowInv, StampsPast, WindowKept, Forgotten
<1>4. CASE UNCHANGED << spent, log >>
  <2>1. \A i \in 1 .. Forgotten : Stamp' - log[i].at >= Window
    <3> TAKE i \in 1 .. Forgotten
    <3>1. i \in 1 .. Len(log)
      BY <1>2, <1>3
    <3>2. Stamp - log[i].at >= Window /\ log[i].at \in Nat
      BY <1>2, <1>3, <3>1
    <3> QED
      BY <1>1, <1>2, <3>2
  <2>2. \A i \in 1 .. Len(log) : log[i].at <= Stamp'
    BY <1>1, <1>2, <1>3
  <2> QED
    BY <1>1, <1>3, <1>4, <2>1, <2>2 DEF WindowInv, StampsPast, WindowKept, Forgotten
<1>5. ASSUME NEW n \in 0 .. Len(spent), Expired(n, at), Stamp = at
      PROVE  \A i \in 1 .. Forgotten + n : at - log[i].at >= Window
  BY <1>5, ForgottenAreOld DEF WindowInv
<1>6. CASE OverBudget
  <2>1. PICK n \in 0 .. Len(spent) : Expired(n, at) /\ spent' = Kept(n)
    BY <1>6 DEF OverBudget
  <2>2. log' = log /\ Stamp = at /\ Stamp' = at
    BY <1>6 DEF OverBudget, Stamp, Calm
  <2>3. /\ Len(spent') = Len(spent) - n
        /\ \A k \in 1 .. Len(spent) - n : spent'[k] = spent[n + k]
    BY <2>1, KeptType DEF TypeOK
  <2>4. Forgotten' = Forgotten + n
    BY <1>2, <2>2, <2>3 DEF Forgotten
  <2>5. \A k \in 1 .. Len(spent') : spent'[k] = log'[Forgotten' + k].at
    <3> TAKE k \in 1 .. Len(spent')
    <3>1. k \in 1 .. Len(spent) - n /\ n + k \in 1 .. Len(spent)
      BY <1>2, <2>3
    <3>2. spent'[k] = log[Forgotten + (n + k)].at
      BY <1>3, <2>3, <3>1
    <3>3. Forgotten + (n + k) = Forgotten' + k
      BY <1>3, <2>4, <3>1
    <3> QED
      BY <2>2, <3>2, <3>3
  <2>6. \A i \in 1 .. Forgotten' : Stamp' - log'[i].at >= Window
    BY <1>5, <2>1, <2>2, <2>4
  <2>7. StampsPast'
    BY <1>1, <1>3, <2>2 DEF StampsPast
  <2> QED
    BY <1>3, <2>4, <2>5, <2>6, <2>7 DEF WindowInv, WindowKept
<1>7. ASSUME NEW m \in Ids, Ask(m) PROVE WindowInv'
  <2>1. PICK n \in 0 .. Len(spent) :
           Expired(n, at) /\ HasRoom(Kept(n)) /\ spent' = Append(Kept(n), at)
    BY <1>7 DEF Ask
  <2>2. log' = Append(log, [at |-> at, sent |-> now]) /\ Stamp = at /\ Stamp' = at
    BY <1>7 DEF Ask, Stamp
  <2>3. /\ Len(log') = Len(log) + 1
        /\ log'[Len(log) + 1].at = at
        /\ \A i \in 1 .. Len(log) : log'[i] = log[i]
    BY <2>2 DEF TypeOK
  <2>4. /\ Len(spent') = Len(spent) - n + 1
        /\ spent'[Len(spent) - n + 1] = at
        /\ \A k \in 1 .. Len(spent) - n : spent'[k] = spent[n + k]
    <3>1. /\ Kept(n) \in Seq(Nat)
          /\ Len(Kept(n)) = Len(spent) - n
          /\ \A k \in 1 .. Len(spent) - n : Kept(n)[k] = spent[n + k]
      BY KeptType DEF TypeOK
    <3> QED
      BY <1>2, <2>1, <3>1
  <2>5. Forgotten' = Forgotten + n
    <3>1. Forgotten' = Len(log') - Len(spent')
      BY DEF Forgotten
    <3> QED
      BY <1>2, <1>3, <2>3, <2>4, <3>1
  <2>6. \A k \in 1 .. Len(spent') : spent'[k] = log'[Forgotten' + k].at
    <3> SUFFICES ASSUME NEW k \in 1 .. Len(spent')
                 PROVE  spent'[k] = log'[Forgotten' + k].at
      OBVIOUS
    <3>1. CASE k = Len(spent) - n + 1
      BY <1>2, <1>3, <2>3, <2>4, <2>5, <3>1
    <3>2. CASE k \in 1 .. Len(spent) - n
      <4>1. n + k \in 1 .. Len(spent) /\ Forgotten + (n + k) \in 1 .. Len(log)
        BY <1>2, <1>3, <3>2
      <4>2. spent'[k] = log[Forgotten + (n + k)].at
        BY <1>3, <2>4, <3>2, <4>1
      <4> QED
        <5>1. Forgotten + (n + k) = Forgotten' + k
          BY <1>3, <2>5, <3>2
        <5> QED
          BY <2>3, <4>1, <4>2, <5>1
    <3> QED
      BY <1>2, <2>4, <3>1, <3>2
  <2>7. \A i \in 1 .. Forgotten' : Stamp' - log'[i].at >= Window
    <3>1. Forgotten' <= Len(log)
      BY <1>2, <1>3, <2>5
    <3> QED
      BY <1>2, <1>3, <1>5, <2>1, <2>2, <2>3, <2>5, <3>1
  <2>8. StampsPast'
    BY <1>1, <1>2, <1>3, <2>2, <2>3 DEF StampsPast
  <2> QED
    BY <1>3, <2>5, <2>6, <2>7, <2>8 DEF WindowInv, WindowKept
<1> QED
  BY <1>4, <1>6, <1>7, OnlyAskBooks

(* The deque is the tail of the bookings and forgets nothing that still     *)
(* counts: take never drops a stamp too early.                              *)
THEOREM DequeIsTheWindow == Spec => []WindowKept
<1>1. TypeOK /\ TypeOK' /\ WindowInv /\ [Next]_vars => WindowInv'
  BY WindowInvStep
<1>2. WindowInv => WindowKept
  BY DEF WindowInv
<1> QED
  BY <1>1, <1>2, WindowInvInit, TypeCorrect, PTL DEF Spec

(* What is booked keeps the promise: the poller implements RequestWindow    *)
(* with the stamps of its requests.                                        *)
THEOREM StampsImplementWindow == Spec => StampsKeepTheWindow
<1>1. Init => Booked!Init
  BY DEF Init, Stamps, Booked!Init
<1>2. TypeOK /\ TypeOK' /\ WindowInv /\ [Next]_vars => [Booked!Next]_Stamps
  <2> SUFFICES ASSUME TypeOK, TypeOK', WindowInv, [Next]_vars
               PROVE  Booked!Next \/ UNCHANGED Stamps
    OBVIOUS
  <2>1. CASE log' = log
    BY <2>1 DEF Stamps
  <2>2. ASSUME NEW m \in Ids, Ask(m) PROVE Booked!Next
    <3>1. at \in Times
      BY TimeAssumption DEF TypeOK, Times, WindowInv, StampsPast
    <3>2. PICK n \in 0 .. Len(spent) : Expired(n, at) /\ HasRoom(Kept(n))
      BY <2>2 DEF Ask
    <3>3. log' = Append(log, [at |-> at, sent |-> now]) /\ Stamp = at
      BY <2>2 DEF Ask, Stamp
    <3>4. /\ Len(log) \in Nat /\ Len(spent) \in Nat /\ Budget \in Nat
          /\ Len(Stamps) = Len(log) /\ Len(log') = Len(log) + 1
          /\ \A i \in 1 .. Len(log) : Stamps[i] = log[i].at
      BY <3>3, BudgetAssumption DEF TypeOK, Stamps
    <3>5. Budget > 0 /\ Len(spent) - n < Budget
      BY <3>2, <3>4, KeptType DEF HasRoom, TypeOK
    <3>6. Len(Stamps) > 0 => Stamps[Len(Stamps)] <= at
      BY <3>3, <3>4 DEF WindowInv, StampsPast
    <3>7. Len(Stamps) >= Budget => at - Stamps[Len(Stamps) - Budget + 1] >= Window
      <4> SUFFICES ASSUME Len(log) >= Budget
                   PROVE  at - log[Len(log) - Budget + 1].at >= Window
        BY <3>4, <3>5
      <4>1. /\ Len(log) - Budget + 1 \in 1 .. Forgotten + n
            /\ Forgotten \in Nat
        BY <3>4, <3>5 DEF Forgotten, WindowInv, WindowKept
      <4> QED
        BY <3>2, <3>3, <4>1, ForgottenAreOld DEF WindowInv
    <3>8. Stamps' = Append(Stamps, at)
      <4>1. /\ log'[Len(log) + 1].at = at
            /\ \A i \in 1 .. Len(log) : log'[i] = log[i]
        BY <3>3 DEF TypeOK
      <4> QED
        BY <3>4, <4>1 DEF Stamps
    <3> QED
      BY <3>1, <3>5, <3>6, <3>7, <3>8 DEF Booked!Next, Booked!Request
  <2> QED
    BY <2>1, <2>2, OnlyAskBooks DEF OverBudget
<1> QED
  BY <1>1, <1>2, TypeCorrect, WindowInvInit, WindowInvStep, PTL
     DEF Spec, StampsKeepTheWindow, Booked!Spec

-----------------------------------------------------------------------------
(* The pause after a 429.  Invariant: the pause the poller keeps is the one *)
(* the latest 429 asked for, and a tick with something left to ask about    *)
(* began after it.                                                         *)

PauseInv == /\ at <= now
            /\ limit.asks <= Len(log)
            /\ pausedUntil = limit.until
            /\ due # {} => at >= pausedUntil
            /\ RetryAfterHonoured

(* No request, for whatever page, leaves before the pause is over: the tick *)
(* stops at the 429, and no later one gets past its head until then.        *)
THEOREM PauseHolds == Spec => []RetryAfterHonoured
<1>1. Init => PauseInv
  BY TimeAssumption DEF Init, PauseInv, RetryAfterHonoured
<1>2. TypeOK /\ TypeOK' /\ PauseInv /\ [Next]_vars => PauseInv'
  <2> SUFFICES ASSUME TypeOK, TypeOK', PauseInv, [Next]_vars PROVE PauseInv'
    OBVIOUS
  <2>1. at' <= now'
    BY StampGrows DEF PauseInv
  <2>2. CASE UNCHANGED << log, limit, pausedUntil >> /\ (due' # {} => at' >= pausedUntil)
    BY <2>1, <2>2 DEF PauseInv, RetryAfterHonoured
  <2>3. ASSUME NEW m \in Ids, Ask(m) PROVE PauseInv'
    <3>1. /\ UNCHANGED << at, limit, pausedUntil >>
          /\ due # {} /\ log' = Append(log, [at |-> at, sent |-> now])
      BY <2>3 DEF Ask
    <3>2. /\ Len(log') = Len(log) + 1 /\ Len(log) \in Nat
          /\ log'[Len(log) + 1].sent = now
          /\ \A i \in 1 .. Len(log) : log'[i] = log[i]
      BY <3>1 DEF TypeOK
    <3>3. limit.asks \in Nat /\ limit.until \in Nat /\ at \in Nat /\ now \in Nat
      BY DEF TypeOK, Times
    <3>4. now >= limit.until
      BY <3>1, <3>3 DEF PauseInv
    <3>5. RetryAfterHonoured'
      BY <3>1, <3>2, <3>4 DEF PauseInv, RetryAfterHonoured
    <3> QED
      BY <2>1, <3>1, <3>2, <3>3, <3>5 DEF PauseInv
  <2>4. ASSUME NEW d \in 0 .. Latency, NEW r \in RetryAfters, Limited(d, r)
        PROVE  PauseInv'
    <3>1. /\ due' = {} /\ log' = log /\ pausedUntil' = now' + r
          /\ limit' = [asks |-> Len(log), until |-> now' + r]
      BY <2>4 DEF Limited, Reply
    <3>2. RetryAfterHonoured'
      BY <3>1 DEF RetryAfterHonoured, TypeOK
    <3> QED
      BY <2>1, <3>1, <3>2 DEF PauseInv, TypeOK
  <2>5. ASSUME NEW timeout \in Timeouts, CallRun(timeout)
        PROVE  UNCHANGED << log, limit, pausedUntil >> /\ (due' # {} => at' >= pausedUntil)
    BY <2>5, TimeAssumption
       DEF CallRun, BeginTick, TypeOK, Times
  <2>6. ASSUME CallTick \/ Wake
        PROVE  UNCHANGED << log, limit, pausedUntil >> /\ (due' # {} => at' >= pausedUntil)
    BY <2>6, TimeAssumption DEF CallTick, Wake, BeginTick, TypeOK, Times
  <2>7. ASSUME NEW d \in 0 .. Latency, Answered(d) \/ Disowned(d) \/ Blip(d)
        PROVE  UNCHANGED << log, limit, pausedUntil >> /\ (due' # {} => at' >= pausedUntil)
    BY <2>7 DEF Answered, Disowned, Blip, Reply, PauseInv
  <2>8. CASE TickReturns \/ RunReturns
    BY <2>2, <2>8 DEF TickReturns, RunReturns, TickDone, HandOver
  <2>9. CASE OverBudget \/ RunGoesOn \/ Cancel
    <3>1. due' = {}
      BY <2>9 DEF OverBudget, RunGoesOn, TickDone, Cancel
    <3>2. UNCHANGED << log, limit, pausedUntil >>
      BY <2>9 DEF OverBudget, RunGoesOn, Cancel
    <3> QED
      BY <2>2, <3>1, <3>2
  <2>10. CASE Pass \/ UNCHANGED vars
    BY <2>2, <2>10 DEF Pass, PauseInv
  <2>11. ASSUME NEW m \in Ids, Watch(m) \/ TakeError(m) \/ Acknowledge(m)
         PROVE  PauseInv'
    BY <2>2, <2>11 DEF Watch, TakeError, Acknowledge, PauseInv
  <2> QED
    BY <2>2, <2>3, <2>4, <2>5, <2>6, <2>7, <2>8, <2>9, <2>10, <2>11 DEF Next, Calls, Steps, Replied
<1>3. PauseInv => RetryAfterHonoured
  BY DEF PauseInv
<1> QED
  BY <1>1, <1>2, <1>3, TypeCorrect, PTL DEF Spec

-----------------------------------------------------------------------------
(* What the caller hears.  Invariant: results are held only while a call is *)
(* in flight, and results of earlier ticks only by run.                     *)

Held == /\ pc \in {"idle", "sleeping"} => settled = {}
        /\ call = "tick" => total = {}
        /\ pc = "idle" => call = "tick"

LEMMA HeldInit == Init => Held
BY DEF Init, Held

LEMMA HeldStep == TypeOK /\ Held /\ [Next]_vars => Held'
<1> SUFFICES ASSUME TypeOK, Held, [Next]_vars PROVE Held'
  OBVIOUS
<1> QED
  BY DEF TypeOK, Held, Next, Calls, Steps, Replied, Watch, TakeError, CallTick, CallRun,
         Ask, OverBudget, Answered, Limited, Disowned, Blip, Reply, TickReturns,
         RunReturns, RunGoesOn, HandOver, Wake, BeginTick, Cancel, Pass, Acknowledge

(* Watching opens a page, asking about one keeps it open. *)
LEMMA PagesStay ==
    ASSUME TypeOK, NEW m \in Ids, Watch(m) \/ Ask(m)
    PROVE  Watching' = Watching \cup {m}
<1>1. [started |-> now, lastPoll |-> Never] # None
  BY NoneAssumption, LadderAssumption DEF TypeOK, Times, Page, Never
<1>2. CASE Watch(m)
  BY <1>1, <1>2 DEF Watch, Watching, TypeOK
<1>3. CASE Ask(m)
  <2>1. open[m] \in Page
    BY <1>3 DEF Ask, TypeOK, Watching
  <2>2. [started |-> open[m].started, lastPoll |-> at] # None
    BY <2>1, NoneAssumption DEF Page, TypeOK
  <2> QED
    BY <1>3, <2>1, <2>2, NoneAssumption DEF Ask, Watching, TypeOK
<1> QED
  BY <1>2, <1>3

(* Every message that was watched is open, has an error to take, or is in a *)
(* result that is on its way: only a dropped future takes results with it.  *)
THEOREM NothingIsLost == Spec => []NothingLost
<1>1. Init => NothingLost
  BY DEF Init, NothingLost
<1>2. TypeOK /\ Held /\ NothingLost /\ [Next]_vars => NothingLost'
  <2> SUFFICES ASSUME TypeOK, Held, NothingLost, [Next]_vars PROVE NothingLost'
    OBVIOUS
  <2> USE DEF NothingLost
  <2>1. ASSUME NEW m \in Ids, Watch(m) \/ TakeError(m) \/ Ask(m) \/ Acknowledge(m)
        PROVE  NothingLost'
    <3>1. CASE Watch(m)
      <4>1. Watching' = Watching \cup {m}
        BY <3>1, PagesStay
      <4>2. /\ owed' = owed \cup {m} /\ forfeited' = forfeited \ {m}
            /\ UNCHANGED << dropped, settled, total >>
        BY <3>1 DEF Watch
      <4> QED
        BY <4>1, <4>2
    <3>2. CASE TakeError(m)
      BY <3>2 DEF TakeError, TypeOK, Watching
    <3>3. CASE Ask(m)
      BY <3>3, PagesStay DEF Ask
    <3>4. CASE Acknowledge(m)
      BY <3>4 DEF Acknowledge, Watching
    <3> QED
      BY <2>1, <3>1, <3>2, <3>3, <3>4
  <2>2. CASE OverBudget \/ Cancel \/ Pass \/ UNCHANGED vars
    BY <2>2 DEF OverBudget, Cancel, Pass, Watching
  <2>3. ASSUME NEW timeout \in Timeouts, CallRun(timeout) PROVE NothingLost'
    BY <2>3 DEF CallRun, BeginTick, Held, Watching
  <2>4. CASE CallTick
    BY <2>4 DEF CallTick, BeginTick, Held, Watching
  <2>5. ASSUME NEW d \in 0 .. Latency, Answered(d) PROVE NothingLost'
    BY <2>5 DEF Answered, Reply, TypeOK, Watching
  <2>6. ASSUME NEW d \in 0 .. Latency, Disowned(d) \/ Blip(d) PROVE NothingLost'
    BY <2>6 DEF Disowned, Blip, Reply, TypeOK, Watching
  <2>11. ASSUME NEW d \in 0 .. Latency, NEW r \in RetryAfters, Limited(d, r)
         PROVE  NothingLost'
    BY <2>11 DEF Limited, Reply, TypeOK, Watching
  <2>7. CASE TickReturns
    BY <2>7 DEF TickReturns, HandOver, Held, Watching
  <2>8. CASE RunReturns
    BY <2>8 DEF RunReturns, HandOver, Watching
  <2>9. CASE RunGoesOn
    BY <2>9 DEF RunGoesOn, Watching
  <2>10. CASE Wake
    BY <2>10 DEF Wake, BeginTick, Held, Watching
  <2> QED
    BY <2>1, <2>2, <2>3, <2>4, <2>5, <2>6, <2>7, <2>8, <2>9, <2>10, <2>11
       DEF Next, Calls, Steps, Replied
<1> QED
  BY <1>1, <1>2, HeldInit, HeldStep, TypeCorrect, PTL DEF Spec

(* Whether or not futures are dropped, a message that was watched and not   *)
(* heard of is open, has an error to take, or has a final status in last.   *)
THEOREM NothingIsBeyondReach == Spec => []Recoverable
<1>1. Init => Recoverable
  BY DEF Init, Recoverable
<1>2. TypeOK /\ Recoverable /\ [Next]_vars => Recoverable'
  <2> SUFFICES ASSUME TypeOK, Recoverable, [Next]_vars PROVE Recoverable'
    OBVIOUS
  <2> USE DEF Recoverable
  <2>1. ASSUME NEW m \in Ids, Watch(m) \/ TakeError(m) \/ Ask(m) \/ Acknowledge(m)
        PROVE  Recoverable'
    <3>1. CASE Watch(m)
      <4>1. Watching' = Watching \cup {m}
        BY <3>1, PagesStay
      <4>2. owed' = owed \cup {m} /\ UNCHANGED << dropped, settled, total, last >>
        BY <3>1 DEF Watch
      <4> QED
        BY <4>1, <4>2
    <3>2. CASE TakeError(m)
      BY <3>2 DEF TakeError, TypeOK, Watching
    <3>3. CASE Ask(m)
      BY <3>3, PagesStay DEF Ask
    <3>4. CASE Acknowledge(m)
      BY <3>4 DEF Acknowledge, Watching
    <3> QED
      BY <2>1, <3>1, <3>2, <3>3, <3>4
  <2>2. CASE OverBudget \/ Pass \/ Wake \/ Cancel \/ UNCHANGED vars
    BY <2>2 DEF OverBudget, Pass, Wake, Cancel, Watching
  <2>3. ASSUME NEW timeout \in Timeouts, CallRun(timeout) PROVE Recoverable'
    BY <2>3 DEF CallRun, Watching
  <2>4. CASE CallTick
    BY <2>4 DEF CallTick, Watching
  <2>5. ASSUME NEW d \in 0 .. Latency, Answered(d) PROVE Recoverable'
    <3>1. asking \in Ids /\ open[asking] # None
      BY <2>5 DEF Answered, Reply, TypeOK, Watching
    <3>2. CASE asking \in answered'
      BY <2>5, <3>1, <3>2 DEF Answered, Reply, TypeOK, Watching
    <3>3. CASE asking \notin answered'
      BY <2>5, <3>1, <3>3 DEF Answered, Reply, TypeOK, Watching
    <3> QED
      BY <3>2, <3>3
  <2>6. ASSUME NEW d \in 0 .. Latency, NEW r \in RetryAfters, Limited(d, r)
        PROVE  Recoverable'
    BY <2>6 DEF Limited, Reply, TypeOK, Watching
  <2>7. ASSUME NEW d \in 0 .. Latency, Disowned(d) \/ Blip(d) PROVE Recoverable'
    BY <2>7 DEF Disowned, Blip, Reply, TypeOK, Watching
  <2>8. CASE TickReturns \/ RunReturns \/ RunGoesOn
    BY <2>8 DEF TickReturns, RunReturns, RunGoesOn, HandOver, Watching
  <2> QED
    BY <2>1, <2>2, <2>3, <2>4, <2>5, <2>6, <2>7, <2>8 DEF Next, Calls, Steps, Replied
<1> QED
  BY <1>1, <1>2, TypeCorrect, PTL DEF Spec

-----------------------------------------------------------------------------
(* When the requests leave.  Invariant: a tick that is under way has made   *)
(* the last c requests, none of which its own take pops; the first of them *)
(* left when the tick began, and those of other ticks before that.  So a   *)
(* request has left by the time the one Budget - 1 after it is booked.     *)

InTick == pc \in {"ticking", "awaiting"}

OfTick(c) ==
    /\ c \in 0 .. Len(spent) /\ (pc = "awaiting" => c > 0) /\ (c = 0 => now = at)
    /\ \A k \in 1 .. Len(spent) : k > Len(spent) - c => spent[k] = at
    /\ \A i \in 1 .. Len(log) : i <= Len(log) - c + 1 => log[i].sent <= at

SentInv ==
    /\ Len(spent) <= Budget /\ (Len(log) > 0 => Budget > 0)
    /\ \A i \in 1 .. Len(log) : log[i].at <= log[i].sent /\ log[i].sent <= now
    /\ \A i, j \in 1 .. Len(log) : i + Budget <= j => log[j].at - log[i].at >= Window
    /\ \A i, j \in 1 .. Len(log) : i + Budget - 1 <= j => log[i].sent <= log[j].at
    /\ InTick => \E c \in Nat : OfTick(c)

(* A window is longer than nothing: a tick pops no stamp of its own.        *)
LEMMA OwnStampsStay ==
    ASSUME TypeOK, NEW c \in 0 .. Len(spent), NEW n \in 0 .. Len(spent), Expired(n, at),
           \A k \in 1 .. Len(spent) : k > Len(spent) - c => spent[k] = at
    PROVE  n <= Len(spent) - c
<1>1. at \in Nat /\ Len(spent) \in Nat /\ Window \in Nat \ {0}
  BY BudgetAssumption DEF TypeOK
<1> SUFFICES ASSUME n > Len(spent) - c PROVE FALSE
  BY <1>1
<1>2. n \in 1 .. n /\ n \in 1 .. Len(spent)
  BY <1>1
<1>3. spent[n] = at /\ at - spent[n] >= Window
  BY <1>2 DEF Expired
<1> QED
  BY <1>1, <1>3

LEMMA SentTypes ==
    ASSUME TypeOK
    PROVE  /\ now \in Nat /\ at \in Nat /\ Len(log) \in Nat /\ Len(spent) \in Nat
           /\ Budget \in Nat /\ Window \in Nat \ {0}
           /\ \A i \in 1 .. Len(log) : log[i].at \in Nat /\ log[i].sent \in Nat
<1>1. log \in Seq(Booking) /\ spent \in Seq(Nat) /\ at \in Nat /\ now \in Nat
  BY TimeAssumption DEF TypeOK, Times
<1>2. \A i \in 1 .. Len(log) : log[i] \in Booking
  BY <1>1
<1> QED
  BY <1>1, <1>2, BudgetAssumption DEF Booking

LEMMA AskKeepsSent ==
    ASSUME TypeOK, WindowInv, SentInv, NEW m \in Ids, Ask(m)
    PROVE  SentInv'
<1>1. /\ pc = "ticking" /\ pc' = "awaiting" /\ UNCHANGED << now, at >> /\ Stamp = at
      /\ log' = Append(log, [at |-> at, sent |-> now])
  BY DEF Ask, Calm, Stamp
<1>2. PICK n \in 0 .. Len(spent) :
         /\ Expired(n, at) /\ HasRoom(Kept(n)) /\ spent' = Append(Kept(n), at)
  BY DEF Ask
<1>3. PICK c \in Nat : OfTick(c)
  BY <1>1 DEF SentInv, InTick
<1>4. /\ now \in Nat /\ at \in Nat /\ Len(log) \in Nat /\ Len(spent) \in Nat
      /\ Budget \in Nat /\ Window \in Nat \ {0} /\ at <= now
      /\ \A i \in 1 .. Len(log) : log[i].at \in Nat /\ log[i].sent \in Nat
  BY SentTypes DEF WindowInv, StampsPast
<1>5. /\ Len(spent') = Len(spent) - n + 1 /\ spent'[Len(spent) - n + 1] = at
      /\ \A k \in 1 .. Len(spent) - n : spent'[k] = spent[n + k]
      /\ Len(spent') <= Budget
  <2>1. /\ Kept(n) \in Seq(Nat) /\ Len(Kept(n)) = Len(spent) - n
        /\ \A k \in 1 .. Len(spent) - n : Kept(n)[k] = spent[n + k]
    BY KeptType DEF TypeOK
  <2> QED
    BY <1>2, <1>4, <2>1 DEF HasRoom
<1>6. /\ Len(log') = Len(log) + 1
      /\ log'[Len(log) + 1].at = at /\ log'[Len(log) + 1].sent = now
      /\ \A i \in 1 .. Len(log) : log'[i] = log[i]
  BY <1>1 DEF TypeOK
<1>7. c \in 0 .. Len(spent) /\ n <= Len(spent) - c /\ (c = 0 => now = at)
  BY <1>2, <1>3, OwnStampsStay DEF OfTick
<1>8. /\ Len(spent) <= Len(log)
      /\ \A i \in 1 .. Len(log) - (Len(spent) - n) : at - log[i].at >= Window
  <2>1. Forgotten \in Nat /\ Forgotten + n = Len(log) - (Len(spent) - n)
    BY <1>4 DEF WindowInv, WindowKept, Forgotten
  <2> QED
    BY <1>1, <1>2, <1>4, <2>1, ForgottenAreOld DEF WindowInv, Forgotten
<1>9. \A i \in 1 .. Len(log') : log'[i].at <= log'[i].sent /\ log'[i].sent <= now'
  BY <1>1, <1>4, <1>6 DEF SentInv
<1>10. ASSUME NEW i \in 1 .. Len(log'), NEW j \in 1 .. Len(log'), i + Budget <= j
       PROVE  log'[j].at - log'[i].at >= Window
  <2>1. CASE j \in 1 .. Len(log)
    <3>1. i \in 1 .. Len(log)
      BY <1>4, <1>6, <1>10, <2>1
    <3>2. log[j].at - log[i].at >= Window
      BY <1>10, <2>1, <3>1 DEF SentInv
    <3> QED
      BY <1>6, <2>1, <3>1, <3>2
  <2>2. CASE j = Len(log) + 1
    <3>1. i \in 1 .. Len(log) - (Len(spent) - n) /\ i \in 1 .. Len(log)
      BY <1>4, <1>5, <1>8, <1>10, <2>2
    <3> QED
      BY <1>6, <1>8, <2>2, <3>1
  <2> QED
    BY <1>4, <1>6, <2>1, <2>2
<1>11. \A i \in 1 .. Len(log') : i <= Len(log') - (c + 1) + 1 => log'[i].sent <= at
  <2> SUFFICES ASSUME NEW i \in 1 .. Len(log'), i <= Len(log) - c + 1
               PROVE  log'[i].sent <= at
    BY <1>4, <1>6, <1>7
  <2>1. CASE i \in 1 .. Len(log)
    BY <1>3, <1>6, <2>1 DEF OfTick
  <2>2. CASE i = Len(log) + 1
    BY <1>4, <1>6, <1>7, <2>2
  <2> QED
    BY <1>4, <1>6, <2>1, <2>2
<1>12. ASSUME NEW i \in 1 .. Len(log'), NEW j \in 1 .. Len(log'), i + Budget - 1 <= j
       PROVE  log'[i].sent <= log'[j].at
  <2>1. CASE j \in 1 .. Len(log)
    <3>1. i \in 1 .. Len(log) \/ i = Len(log) + 1
      BY <1>4, <1>6
    <3>2. Budget > 0
      BY <1>4, <1>5, <1>7
    <3>3. i \in 1 .. Len(log)
      BY <1>4, <1>12, <2>1, <3>1, <3>2
    <3> QED
      BY <1>6, <1>12, <2>1, <3>3 DEF SentInv
  <2>2. CASE j = Len(log) + 1
    <3>1. c + 1 <= Budget
      BY <1>4, <1>5, <1>7
    <3>2. i <= Len(log') - (c + 1) + 1
      BY <1>4, <1>6, <1>7, <1>12, <2>2, <3>1
    <3> QED
      BY <1>6, <1>11, <2>2, <3>2
  <2> QED
    BY <1>4, <1>6, <2>1, <2>2
<1>13. OfTick(c + 1)'
  <2>1. c + 1 \in 0 .. Len(spent')
    BY <1>4, <1>5, <1>7
  <2>2. ASSUME NEW k \in 1 .. Len(spent'), k > Len(spent') - (c + 1) PROVE spent'[k] = at
    <3>1. CASE k = Len(spent) - n + 1
      BY <1>5, <3>1
    <3>2. CASE k # Len(spent) - n + 1
      <4>1. /\ Len(spent') = Len(spent) - n + 1 /\ n \in Nat /\ c \in Nat
            /\ k \in Nat /\ k >= 1 /\ k <= Len(spent')
        BY <1>4, <1>5
      <4>2. k \in 1 .. Len(spent) - n
        BY <1>4, <3>2, <4>1
      <4>3. n + k \in 1 .. Len(spent) /\ n + k > Len(spent) - c
        BY <1>4, <2>2, <4>1, <4>2
      <4> QED
        BY <1>3, <1>5, <4>2, <4>3 DEF OfTick
    <3> QED
      BY <3>1, <3>2
  <2>3. c + 1 > 0 /\ c + 1 # 0
    BY <1>7
  <2> QED
    BY <1>1, <1>11, <2>1, <2>2, <2>3 DEF OfTick
<1>14. Len(log') > 0 => Budget > 0
  BY <1>4, <1>5, <1>7
<1> QED
  BY <1>5, <1>7, <1>9, <1>10, <1>12, <1>13, <1>14 DEF SentInv

LEMMA SentStep ==
    ASSUME TypeOK, WindowInv, SentInv, [Next]_vars
    PROVE  SentInv'
<1>0. /\ now \in Nat /\ at \in Nat /\ Len(log) \in Nat /\ Len(spent) \in Nat
      /\ Budget \in Nat /\ Window \in Nat \ {0} /\ at <= now
      /\ \A i \in 1 .. Len(log) : log[i].at \in Nat /\ log[i].sent \in Nat
  BY SentTypes DEF WindowInv, StampsPast
<1>1. ASSUME UNCHANGED << spent, log >>, now' \in Nat, now' >= now,
             InTick' => \E c \in Nat : OfTick(c)'
      PROVE  SentInv'
  BY <1>0, <1>1 DEF SentInv
<1>2. ASSUME UNCHANGED << spent, log, now, pc, at >> PROVE SentInv'
  BY <1>2 DEF SentInv, InTick, OfTick
<1>3. ASSUME NEW t \in Nat, BeginTick(t), now' = t, t >= now, UNCHANGED << spent, log >>
      PROVE  SentInv'
  <2>1. at' = t /\ pc' = "ticking"
    BY <1>3 DEF BeginTick
  <2>2. OfTick(0)'
    BY <1>0, <1>3, <2>1 DEF OfTick, SentInv
  <2> QED
    BY <1>1, <1>3, <2>2
<1>4. CASE CallTick
  BY <1>0, <1>3, <1>4 DEF CallTick, Calm
<1>5. ASSUME NEW timeout \in Timeouts, CallRun(timeout) PROVE SentInv'
  BY <1>0, <1>3, <1>5 DEF CallRun, Calm
<1>6. CASE Wake
  BY <1>0, <1>3, <1>6, TimeAssumption DEF Wake, Elapse
<1>7. ASSUME NEW m \in Ids, Ask(m) PROVE SentInv'
  BY <1>7, AskKeepsSent
<1>8. CASE OverBudget
  <2>1. pc = "ticking" /\ log' = log /\ UNCHANGED << now, at, pc >>
    BY <1>8 DEF OverBudget, Calm
  <2>2. PICK n \in 0 .. Len(spent) : Expired(n, at) /\ spent' = Kept(n)
    BY <1>8 DEF OverBudget
  <2>3. /\ Len(spent') = Len(spent) - n
        /\ \A k \in 1 .. Len(spent) - n : spent'[k] = spent[n + k]
    BY <2>2, KeptType DEF TypeOK
  <2>4. PICK c \in Nat : OfTick(c)
    BY <2>1 DEF SentInv, InTick
  <2>5. c \in 0 .. Len(spent) /\ n <= Len(spent) - c
    BY <2>2, <2>4, OwnStampsStay DEF OfTick
  <2>6. ASSUME NEW k \in 1 .. Len(spent'), k > Len(spent') - c PROVE spent'[k] = at
    <3>1. k \in 1 .. Len(spent) - n /\ n + k \in 1 .. Len(spent) /\ n + k > Len(spent) - c
      BY <1>0, <2>3, <2>5, <2>6
    <3> QED
      BY <2>3, <2>4, <3>1 DEF OfTick
  <2>7. c \in 0 .. Len(spent')
    BY <1>0, <2>3, <2>5
  <2>8. OfTick(c)'
    BY <2>1, <2>4, <2>6, <2>7 DEF OfTick
  <2>9. Len(spent') <= Budget
    BY <1>0, <2>2, <2>3 DEF SentInv
  <2> QED
    BY <2>1, <2>8, <2>9 DEF SentInv
<1>9. ASSUME NEW d \in 0 .. Latency, Reply(d) PROVE SentInv'
  <2>1. /\ pc = "awaiting" /\ pc' = "ticking" /\ now' = now + d
        /\ UNCHANGED << at, spent, log >>
    BY <1>9 DEF Reply, Elapse
  <2>2. PICK c \in Nat : OfTick(c)
    BY <2>1 DEF SentInv, InTick
  <2>3. OfTick(c)' /\ now' \in Nat /\ now' >= now
    BY <1>0, <2>1, <2>2, TimeAssumption DEF OfTick
  <2> QED
    BY <1>1, <2>1, <2>3
<1>10. CASE TickReturns \/ RunReturns \/ RunGoesOn \/ Cancel \/ Pass
  <2>1. /\ UNCHANGED << spent, log >> /\ pc' \in {"idle", "sleeping"}
        /\ now' \in Nat /\ now' >= now
    BY <1>0, <1>10 DEF TickReturns, RunReturns, RunGoesOn, HandOver, Cancel, Pass, Elapse, Calm
  <2> QED
    BY <1>1, <2>1 DEF InTick
<1>11. ASSUME NEW m \in Ids, Watch(m) \/ TakeError(m) \/ Acknowledge(m) PROVE SentInv'
  BY <1>2, <1>11 DEF Watch, TakeError, Acknowledge, Calm
<1>12. CASE UNCHANGED vars
  BY <1>2, <1>12
<1> QED
  BY <1>4, <1>5, <1>6, <1>7, <1>8, <1>9, <1>10, <1>11, <1>12
     DEF Next, Calls, Steps, Replied, Answered, Limited, Disowned, Blip

(* However slow the requests are, less than twice the budget leaves in any  *)
(* window: a tick that lags books its requests too early, but the tick     *)
(* after the next finds a full window of them.                             *)
THEOREM TwiceIsTheMost == Spec => []SentWithinTwice
<1>1. Init => SentInv
  BY BudgetAssumption DEF Init, SentInv, InTick
<1>2. TypeOK /\ WindowInv /\ SentInv /\ [Next]_vars => SentInv'
  BY SentStep
<1>3. TypeOK /\ SentInv => SentWithinTwice
  <2> SUFFICES ASSUME TypeOK, SentInv, NEW i \in 1 .. Len(log), NEW j \in 1 .. Len(log),
                      i + 2 * Budget - 1 <= j
               PROVE  log[j].sent - log[i].sent >= Window
    <3>1. DOMAIN log = 1 .. Len(log)
      BY DEF TypeOK
    <3> QED
      BY <3>1 DEF SentWithinTwice
  <2> DEFINE k == j - Budget
  <2>1. /\ Budget \in Nat /\ Budget > 0 /\ Len(log) \in Nat
        /\ \A n \in 1 .. Len(log) : log[n].at \in Nat /\ log[n].sent \in Nat
        /\ Window \in Nat
    BY SentTypes DEF SentInv
  <2>2. k \in 1 .. Len(log) /\ i + Budget - 1 <= k /\ k + Budget <= j
    BY <2>1
  <2> HIDE DEF k
  <2>3. log[i].sent <= log[k].at
    BY <2>2 DEF SentInv
  <2>4. log[j].at - log[k].at >= Window
    BY <2>2 DEF SentInv
  <2>5. log[j].at <= log[j].sent
    BY DEF SentInv
  <2>6. /\ log[i].sent \in Nat /\ log[j].sent \in Nat
        /\ log[j].at \in Nat /\ log[k].at \in Nat /\ Window \in Nat
    BY <2>1, <2>2
  <2> QED
    BY <2>3, <2>4, <2>5, <2>6, SMTT(30)
<1>4. TypeOK /\ TypeOK' /\ WindowInv /\ [Next]_vars => WindowInv'
  BY WindowInvStep
<1> QED
  BY <1>1, <1>2, <1>3, <1>4, WindowInvInit, TypeCorrect, PTL DEF Spec
-----------------------------------------------------------------------------
(* How long run stays.  Invariant: a tick that is under way has asked c     *)
(* times, each time within the budget and for a page of its own, and has   *)
(* waited for each answer no longer than a request takes; and it began no  *)
(* more than a sleep after the deadline.                                   *)

Asked(c) ==
    /\ c \in 0 .. Len(spent) /\ (pc = "awaiting" => c > 0)
    /\ c + Cardinality(due) <= Cardinality(Ids)
    /\ \A k \in 1 .. Len(spent) : k > Len(spent) - c => spent[k] = at
    /\ now <= at + Latency * (IF pc = "awaiting" THEN c - 1 ELSE c)

PaceInv ==
    /\ Len(spent) <= Budget
    /\ pc = "idle" => deadline = None
    /\ pc = "sleeping" /\ deadline # None => now < deadline
    /\ InTick => \E c \in Nat : Asked(c)
    /\ InTick /\ deadline # None => at < deadline + Interval

LEMMA Products ==
    ASSUME NEW a \in Nat, NEW b \in Nat
    PROVE  /\ Latency * 0 = 0 /\ Latency * a \in Nat
           /\ a > 0 => Latency * a = Latency * (a - 1) + Latency
           /\ a <= b => Latency * a <= Latency * b
<1>1. Latency \in Nat
  BY TimeAssumption
<1>2. Latency * 0 = 0 /\ Latency * a \in Nat
  BY <1>1
<1>3. a > 0 => Latency * a = Latency * (a - 1) + Latency
  BY <1>1
<1>4. ASSUME a <= b PROVE Latency * a <= Latency * b
  <2>1. /\ b - a \in Nat /\ Latency * (b - a) >= 0
    BY <1>1, <1>4
  <2>2. Latency * b = Latency * a + Latency * (b - a)
    BY <1>1
  <2> QED
    BY <1>1, <2>1, <2>2
<1> QED
  BY <1>2, <1>3, <1>4

(* A tick that begins has asked nothing, of pages that are all watched.     *)
LEMMA BeginAsks ==
    ASSUME TypeOK, IsFiniteSet(Ids), NEW t \in Nat, BeginTick(t), now' = t, spent' = spent
    PROVE  InTick' /\ at' = t /\ (\E c \in Nat : Asked(c))'
<1>1. pc' = "ticking" /\ at' = t /\ due' \subseteq Ids
  BY DEF BeginTick, DueAt, Watching
<1>2. Cardinality(due') \in Nat /\ Cardinality(due') <= Cardinality(Ids)
  BY <1>1, FS_Subset, FS_CardinalityType
<1>3. Len(spent) \in Nat
  BY DEF TypeOK
<1>4. Latency * 0 = 0
  BY TimeAssumption
<1>5. Asked(0)'
  BY <1>1, <1>2, <1>3, <1>4 DEF Asked
<1> QED
  BY <1>1, <1>5 DEF InTick

LEMMA AskKeepsPace ==
    ASSUME TypeOK, IsFiniteSet(Ids), PaceInv, NEW m \in Ids, Ask(m)
    PROVE  PaceInv'
<1>1. /\ pc = "ticking" /\ m \in due /\ pc' = "awaiting" /\ due' = due \ {m}
      /\ UNCHANGED << now, at, deadline >>
  BY DEF Ask, Calm
<1>2. PICK n \in 0 .. Len(spent) :
         /\ Expired(n, at) /\ HasRoom(Kept(n)) /\ spent' = Append(Kept(n), at)
  BY DEF Ask
<1>3. PICK c \in Nat : Asked(c)
  BY <1>1 DEF PaceInv, InTick
<1>4. /\ at \in Nat /\ Len(spent) \in Nat /\ Budget \in Nat /\ Window \in Nat \ {0}
      /\ now \in Nat
  BY BudgetAssumption, TimeAssumption DEF TypeOK, Times
<1>5. /\ Kept(n) \in Seq(Nat) /\ Len(Kept(n)) = Len(spent) - n
      /\ \A k \in 1 .. Len(spent) - n : Kept(n)[k] = spent[n + k]
  BY KeptType DEF TypeOK
<1>6. /\ Len(spent') = Len(spent) - n + 1 /\ Len(spent') <= Budget
      /\ \A k \in 1 .. Len(spent) - n : spent'[k] = spent[n + k]
      /\ spent'[Len(spent) - n + 1] = at
  BY <1>2, <1>4, <1>5 DEF HasRoom
<1>7. c \in 0 .. Len(spent) /\ \A k \in 1 .. Len(spent) : k > Len(spent) - c => spent[k] = at
  BY <1>3 DEF Asked
<1>8. n <= Len(spent) - c
  BY <1>2, <1>7, OwnStampsStay
<1>9. c + 1 \in 0 .. Len(spent')
  BY <1>4, <1>6, <1>7, <1>8
<1>10. \A k \in 1 .. Len(spent') : k > Len(spent') - (c + 1) => spent'[k] = at
  <2> SUFFICES ASSUME NEW k \in 1 .. Len(spent'), k > Len(spent') - (c + 1)
               PROVE  spent'[k] = at
    OBVIOUS
  <2>1. CASE k = Len(spent) - n + 1
    BY <1>6, <2>1
  <2>2. CASE k # Len(spent) - n + 1
    <3>1. Len(spent') = Len(spent) - n + 1
      BY <1>6
    <3>2. k \in 1 .. Len(spent) - n
      BY <1>4, <2>2, <3>1
    <3>3. n + k \in 1 .. Len(spent) /\ n + k > Len(spent) - c
      BY <1>4, <3>1, <3>2
    <3>4. spent'[k] = spent[n + k]
      BY <1>6, <3>2
    <3>5. spent[n + k] = at
      BY <1>7, <3>3
    <3> QED
      BY <3>4, <3>5
  <2> QED
    BY <2>1, <2>2
<1>11. (c + 1) + Cardinality(due') <= Cardinality(Ids)
  <2>1. due \in SUBSET Ids
    BY DEF TypeOK, Watching
  <2>2. IsFiniteSet(due) /\ Cardinality(due) \in Nat /\ Cardinality(Ids) \in Nat
    BY <2>1, FS_Subset, FS_CardinalityType
  <2>3. Cardinality(due') = Cardinality(due) - 1
    BY <1>1, <2>2, FS_RemoveElement
  <2> QED
    BY <1>3, <2>2, <2>3 DEF Asked
<1>12. now' <= at' + Latency * ((c + 1) - 1)
  <2>1. (c + 1) - 1 = c
    OBVIOUS
  <2>2. now <= at + Latency * c
    BY <1>1, <1>3 DEF Asked
  <2> QED
    BY <1>1, <2>1, <2>2
<1>13. Asked(c + 1)'
  BY <1>1, <1>9, <1>10, <1>11, <1>12 DEF Asked
<1> QED
  BY <1>1, <1>6, <1>13 DEF PaceInv, InTick

LEMMA OverBudgetKeepsPace ==
    ASSUME TypeOK, IsFiniteSet(Ids), PaceInv, OverBudget
    PROVE  PaceInv'
<1>1. /\ pc = "ticking" /\ pc' = pc /\ due' = {} /\ UNCHANGED << now, at, deadline >>
  BY DEF OverBudget, Calm
<1>2. PICK n \in 0 .. Len(spent) :
         Expired(n, at) /\ ~ HasRoom(Kept(n)) /\ spent' = Kept(n)
  BY DEF OverBudget
<1>3. PICK c \in Nat : Asked(c)
  BY <1>1 DEF PaceInv, InTick
<1>4. /\ at \in Nat /\ Len(spent) \in Nat /\ Budget \in Nat /\ Window \in Nat \ {0}
  BY BudgetAssumption DEF TypeOK
<1>5. /\ Len(spent') = Len(spent) - n
      /\ \A k \in 1 .. Len(spent) - n : spent'[k] = spent[n + k]
  BY <1>2, KeptType DEF TypeOK
<1>6. c \in 0 .. Len(spent) /\ \A k \in 1 .. Len(spent) : k > Len(spent) - c => spent[k] = at
  BY <1>3 DEF Asked
<1>7. n <= Len(spent) - c
  BY <1>2, <1>6, OwnStampsStay
<1>8. c \in 0 .. Len(spent')
  BY <1>4, <1>5, <1>6, <1>7
<1>9. \A k \in 1 .. Len(spent') : k > Len(spent') - c => spent'[k] = at
  <2> SUFFICES ASSUME NEW k \in 1 .. Len(spent'), k > Len(spent') - c
               PROVE  spent'[k] = at
    OBVIOUS
  <2>1. k \in 1 .. Len(spent) - n /\ n + k \in 1 .. Len(spent) /\ n + k > Len(spent) - c
    BY <1>4, <1>5, <1>6
  <2> QED
    BY <1>5, <1>6, <2>1
<1>10. c + Cardinality(due') <= Cardinality(Ids)
  <2>1. due \in SUBSET Ids
    BY DEF TypeOK, Watching
  <2>2. Cardinality(due) \in Nat /\ Cardinality(Ids) \in Nat /\ Cardinality({}) = 0
    BY <2>1, FS_Subset, FS_CardinalityType, FS_EmptySet
  <2> QED
    BY <1>1, <1>3, <2>2 DEF Asked
<1>11. Asked(c)'
  BY <1>1, <1>3, <1>8, <1>9, <1>10 DEF Asked
<1> QED
  BY <1>1, <1>4, <1>5, <1>11 DEF PaceInv, InTick

LEMMA ReplyKeepsPace ==
    ASSUME TypeOK, IsFiniteSet(Ids), PaceInv, NEW d \in 0 .. Latency, Reply(d), due' \subseteq due
    PROVE  PaceInv'
<1>1. /\ pc = "awaiting" /\ pc' = "ticking" /\ now' = now + d
      /\ UNCHANGED << at, deadline, spent >>
  BY DEF Reply, Elapse
<1>2. PICK c \in Nat : Asked(c)
  BY <1>1 DEF PaceInv, InTick
<1>3. c + Cardinality(due') <= Cardinality(Ids)
  <2>1. due \in SUBSET Ids
    BY DEF TypeOK, Watching
  <2>2. IsFiniteSet(due) /\ Cardinality(due) \in Nat /\ Cardinality(Ids) \in Nat
    BY <2>1, FS_Subset, FS_CardinalityType
  <2>3. Cardinality(due') \in Nat /\ Cardinality(due') <= Cardinality(due)
    BY <2>2, FS_Subset, FS_CardinalityType
  <2> QED
    BY <1>2, <2>2, <2>3 DEF Asked
<1>4. now' <= at' + Latency * c
  <2>1. c > 0 /\ now <= at + Latency * (c - 1)
    BY <1>1, <1>2 DEF Asked
  <2>2. Latency * c = Latency * (c - 1) + Latency /\ c - 1 \in Nat
    BY <2>1, Products
  <2>3. Latency * (c - 1) \in Nat /\ Latency \in Nat
    BY <2>2, Products, TimeAssumption
  <2>4. now \in Nat /\ at \in Nat
    BY TimeAssumption DEF TypeOK, Times
  <2> QED
    BY <1>1, <2>1, <2>2, <2>3, <2>4
<1>5. Asked(c)'
  BY <1>1, <1>2, <1>3, <1>4 DEF Asked
<1> QED
  BY <1>1, <1>5 DEF PaceInv, InTick

LEMMA PaceStep ==
    ASSUME TypeOK, IsFiniteSet(Ids), PaceInv, [Next]_vars
    PROVE  PaceInv'
<1>0. now \in Nat /\ Interval \in Nat \ {0} /\ None \notin Int /\ Timeouts \subseteq Nat \cup {None}
  BY TimeAssumption DEF TypeOK, Times
<1>1. ASSUME NEW m \in Ids, Watch(m) \/ TakeError(m) \/ Acknowledge(m) PROVE PaceInv'
  BY <1>1 DEF Watch, TakeError, Acknowledge, Calm, PaceInv, InTick, Asked
<1>2. CASE CallTick
  <2>1. InTick' /\ (\E c \in Nat : Asked(c))' /\ deadline' = None /\ spent' = spent
    BY <1>0, <1>2, BeginAsks DEF CallTick, Calm
  <2> QED
    BY <2>1 DEF PaceInv, InTick
<1>3. ASSUME NEW timeout \in Timeouts, CallRun(timeout) PROVE PaceInv'
  <2>1. InTick' /\ (\E c \in Nat : Asked(c))' /\ at' = now /\ spent' = spent
    BY <1>0, <1>3, BeginAsks DEF CallRun, Calm
  <2>2. deadline' = IF timeout = None THEN None ELSE now + timeout
    BY <1>3 DEF CallRun
  <2>3. deadline' # None => now < deadline' + Interval
    BY <1>0, <2>2
  <2> QED
    BY <2>1, <2>3 DEF PaceInv, InTick
<1>4. ASSUME NEW m \in Ids, Ask(m) PROVE PaceInv'
  BY <1>4, AskKeepsPace
<1>5. CASE OverBudget
  BY <1>5, OverBudgetKeepsPace
<1>6. ASSUME NEW d \in 0 .. Latency, Reply(d), due' \subseteq due PROVE PaceInv'
  BY <1>6, ReplyKeepsPace
<1>7. CASE Replied
  <2>1. PICK d \in 0 .. Latency : Reply(d) /\ due' \subseteq due
    BY <1>7 DEF Replied, Answered, Disowned, Blip, Limited
  <2> QED
    BY <1>6, <2>1
<1>8. CASE TickReturns \/ RunReturns
  BY <1>8 DEF TickReturns, RunReturns, HandOver, PaceInv, InTick
<1>9. CASE RunGoesOn
  BY <1>0, <1>9 DEF RunGoesOn, Expires, Calm, PaceInv, InTick, TypeOK
<1>10. CASE Wake
  <2>1. pc = "sleeping" /\ now' = now + Interval /\ UNCHANGED << spent, deadline >>
    BY <1>10 DEF Wake, Elapse
  <2>2. InTick' /\ (\E c \in Nat : Asked(c))' /\ at' = now + Interval
    BY <1>0, <1>10, <2>1, BeginAsks DEF Wake
  <2>3. deadline # None => now < deadline /\ deadline \in Nat
    BY <2>1 DEF PaceInv, TypeOK
  <2> QED
    BY <1>0, <2>1, <2>2, <2>3 DEF PaceInv, InTick
<1>11. CASE Cancel \/ Pass \/ UNCHANGED vars
  BY <1>11 DEF Cancel, Pass, PaceInv, InTick, Asked
<1> QED
  BY <1>1, <1>2, <1>3, <1>4, <1>5, <1>7, <1>8, <1>9, <1>10, <1>11 DEF Next, Calls, Steps

(* run overstays its timeout by a sleep and a tick at the most, and a tick  *)
(* lasts no longer than one request a page within the budget.              *)
THEOREM OverrunIsBounded ==
    ASSUME IsFiniteSet(Ids)
    PROVE  Spec => []OverrunBounded
<1>1. Init => PaceInv
  BY BudgetAssumption DEF Init, PaceInv, InTick
<1>2. TypeOK /\ PaceInv /\ [Next]_vars => PaceInv'
  BY PaceStep
<1>3. TypeOK /\ PaceInv => OverrunBounded
  <2> SUFFICES ASSUME TypeOK, PaceInv, deadline # None
               PROVE  now < deadline + Interval + LongestTick
    BY DEF OverrunBounded
  <2> DEFINE most == IF Cardinality(Ids) < Budget THEN Cardinality(Ids) ELSE Budget
  <2>1. /\ now \in Nat /\ at \in Nat /\ deadline \in Nat /\ Interval \in Nat \ {0}
        /\ most \in Nat /\ Latency * most \in Nat /\ LongestTick = Latency * most
    <3>1. most \in Nat
      BY BudgetAssumption, FS_CardinalityType
    <3>2. Latency * most \in Nat
      BY <3>1, Products
    <3> QED
      BY <3>1, <3>2, TimeAssumption DEF TypeOK, Times, LongestTick
  <2>2. CASE pc = "sleeping"
    BY <2>1, <2>2 DEF PaceInv
  <2>3. CASE InTick
    <3>1. PICK c \in Nat : Asked(c)
      BY <2>3 DEF PaceInv
    <3>2. c <= most
      <4>1. due \in SUBSET Ids
        BY DEF TypeOK, Watching
      <4>2. Cardinality(due) \in Nat /\ Cardinality(Ids) \in Nat
        BY <4>1, FS_Subset, FS_CardinalityType
      <4>3. Len(spent) \in Nat /\ Budget \in Nat /\ Len(spent) <= Budget
        BY BudgetAssumption DEF TypeOK, PaceInv
      <4> QED
        BY <3>1, <4>2, <4>3 DEF Asked
    <3>3. Latency * c <= Latency * most /\ Latency * c \in Nat
      BY <2>1, <3>2, Products
    <3>4. now <= at + Latency * c
      <4>1. CASE pc = "awaiting"
        <5>1. c > 0 /\ now <= at + Latency * (c - 1)
          BY <3>1, <4>1 DEF Asked
        <5>2. c - 1 \in Nat /\ Latency * (c - 1) <= Latency * c /\ Latency * (c - 1) \in Nat
          BY <5>1, Products
        <5> QED
          BY <2>1, <3>3, <5>1, <5>2
      <4>2. CASE pc # "awaiting"
        BY <3>1, <4>2 DEF Asked
      <4> QED
        BY <4>1, <4>2
    <3>5. at < deadline + Interval
      BY <2>3 DEF PaceInv
    <3> QED
      BY <2>1, <3>3, <3>4, <3>5
  <2>4. pc = "sleeping" \/ InTick
    BY DEF PaceInv, InTick, TypeOK
  <2> QED
    BY <2>2, <2>3, <2>4
<1> QED
  BY <1>1, <1>2, <1>3, TypeCorrect, PTL DEF Spec
=============================================================================
