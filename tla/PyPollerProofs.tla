--------------------------- MODULE PyPollerProofs ---------------------------
(***************************************************************************)
(* What is proved of the Python poller: its requests, by the moments they  *)
(* leave and however slow they are, keep the promise of the budget, and a  *)
(* page that was watched is not lost but by an exception, and then is      *)
(* still known of.                                                         *)
(***************************************************************************)
EXTENDS PyPoller, PlaceLemmas

USE DEF poller, frame, vars

(* An expired prefix leaves a deque of stamps that are still stamps.       *)
LEMMA KeptType ==
    ASSUME spent \in Seq(Nat), NEW n \in 0 .. Len(spent)
    PROVE  /\ Kept(n) \in Seq(Nat)
           /\ Len(Kept(n)) = Len(spent) - n
           /\ \A k \in 1 .. Len(spent) - n : Kept(n)[k] = spent[n + k]
BY DEF Kept

LEMMA Bounds == Latency \in Nat /\ Horizon \in Nat /\ Interval \in Nat
BY TimeAssumption

-----------------------------------------------------------------------------
(* The state has its type, and a tick asks only about pages it watches.     *)
THEOREM TypeCorrect == Spec => []TypeOK
<1>1. Init => TypeOK
  BY TimeAssumption DEF Init, TypeOK, Times, Watching
<1>2. TypeOK /\ [Next]_vars => TypeOK'
  <2> SUFFICES ASSUME TypeOK, [Next]_vars PROVE TypeOK'
    OBVIOUS
  <2> USE TypeOK DEF TypeOK, Times, Watching
  <2>1. ASSUME NEW m \in Ids, Watch(m) PROVE TypeOK'
    BY <2>1, TimeAssumption DEF Watch, Calm, Page
  <2>2. ASSUME NEW m \in Ids, Acknowledge(m) PROVE TypeOK'
    BY <2>2 DEF Acknowledge
  <2>3. CASE CallTick
    BY <2>3 DEF CallTick, BeginTick, Calm
  <2>4. ASSUME NEW timeout \in Timeouts, CallRun(timeout) PROVE TypeOK'
    BY <2>4, TimeAssumption DEF CallRun, BeginTick, Calm
  <2>5. ASSUME NEW m \in Ids, Ask(m) PROVE TypeOK'
    <3>1. spent' \in Seq(Nat)
      BY <2>5, TimeAssumption, KeptType DEF Ask, Taken
    <3>2. /\ open' \in [Ids -> Page \cup {None}]
          /\ m \in Watching' /\ due' \in SUBSET Watching'
      <4>1. open[m] \in Page
        BY <2>5 DEF Ask
      <4>2. [started |-> open[m].started, lastPoll |-> at] \in Page
        BY <4>1 DEF Page
      <4>3. None \notin Page
        BY NoneAssumption
      <4> QED
        BY <4>2, <4>3, <2>5 DEF Ask
    <3>3. log' \in Seq(Nat)
      BY <2>5, TimeAssumption DEF Ask
    <3> QED
      BY <2>5, <3>1, <3>2, <3>3 DEF Ask, Calm
  <2>6. CASE OverBudget
    BY <2>6, KeptType DEF OverBudget, Refused, Calm
  <2>7. ASSUME NEW d \in 0 .. Latency, Answered(d) PROVE TypeOK'
    <3>1. /\ now' \in Times /\ answered' \in SUBSET Ids
          /\ asking \in Watching \ due
      BY <2>7, Bounds DEF Answered, Reply, Elapse
    <3>2. UNCHANGED << call, at, total, deadline, spent, log, pausedUntil, due, gone >>
      BY <2>7 DEF Answered, Reply
    <3>3. CASE asking \in answered'
      <4>1. /\ open' \in [Ids -> Page \cup {None}] /\ due' \in SUBSET Watching'
            /\ seen' \in [Ids -> {"unread", "pending", "done"}]
            /\ settled' \in SUBSET Ids
        BY <2>7, <3>1, <3>2, <3>3 DEF Answered
      <4> QED
        BY <2>7, <3>1, <3>2, <4>1 DEF Answered, Reply
    <3>4. CASE asking \notin answered'
      <4>1. /\ open' = open /\ settled' = settled
            /\ seen' \in [Ids -> {"unread", "pending", "done"}]
        BY <2>7, <3>1, <3>4 DEF Answered
      <4> QED
        BY <2>7, <3>1, <3>2, <4>1 DEF Answered, Reply
    <3> QED
      BY <3>3, <3>4
  <2>8. ASSUME NEW d \in 0 .. Latency, NEW r \in RetryAfters, Limited(d, r)
        PROVE TypeOK'
    BY <2>8, TimeAssumption DEF Limited, Reply, Elapse
  <2>9. ASSUME NEW d \in 0 .. Latency, Disowned(d) PROVE TypeOK'
    <3>1. /\ now' \in Times /\ answered' \in SUBSET Ids
          /\ asking \in Watching \ due
      BY <2>9, Bounds DEF Disowned, Reply, Elapse
    <3>2. /\ open' \in [Ids -> Page \cup {None}] /\ due' \in SUBSET Watching'
          /\ gone' \in [owed : SUBSET Ids, disowned : SUBSET Ids, taken : SUBSET Ids]
      BY <2>9, <3>1 DEF Disowned
    <3> QED
      BY <2>9, <3>1, <3>2 DEF Disowned, Reply
  <2>10. ASSUME NEW d \in 0 .. Latency, Blip(d) PROVE TypeOK'
    BY <2>10, TimeAssumption DEF Blip, Reply, Elapse
  <2>11. ASSUME NEW d \in 0 .. Latency, Escape(d) PROVE TypeOK'
    <3>1. gone' \in [owed : SUBSET Ids, disowned : SUBSET Ids, taken : SUBSET Ids]
      BY <2>11 DEF Escape
    <3>2. now' \in Times /\ answered' \in SUBSET Ids
      BY <2>11, Bounds DEF Escape, Elapse
    <3> QED
      BY <2>11, <3>1, <3>2 DEF Escape
  <2>12. CASE TickReturns
    BY <2>12 DEF TickReturns, TickDone, HandOver, Calm
  <2>13. CASE RunReturns
    BY <2>13 DEF RunReturns, TickDone, HandOver, Calm
  <2>14. CASE RunGoesOn
    BY <2>14 DEF RunGoesOn, TickDone, Calm
  <2>15. CASE Wake
    BY <2>15, TimeAssumption DEF Wake, BeginTick, Elapse
  <2>16. CASE Pass
    BY <2>16 DEF Pass, Elapse
  <2>17. CASE UNCHANGED vars
    BY <2>17
  <2> QED
    BY <2>1, <2>2, <2>3, <2>4, <2>5, <2>6, <2>7, <2>8, <2>9, <2>10, <2>11, <2>12,
       <2>13, <2>14, <2>15, <2>16, <2>17
       DEF Next, Steps, Replied
<1> QED
  BY <1>1, <1>2, PTL DEF Spec

(* take looks at the front of the deque again and again.  It stops, with    *)
(* one result, whatever the stamps and the clock: a tick is never held up   *)
(* in its limiter, and the choice of n in the model is none.               *)
TakeStops ==
    \A t \in Nat : \E n \in 0 .. Len(spent) :
        Expired(n, t) /\ \A k \in 0 .. Len(spent) : Expired(k, t) => k = n

THEOREM TakeIsDecided == Spec => []TakeStops
<1>1. TypeOK => TakeStops
  <2> SUFFICES ASSUME TypeOK, NEW t \in Nat
               PROVE  \E n \in 0 .. Len(spent) :
                         /\ Expired(n, t)
                         /\ \A k \in 0 .. Len(spent) : Expired(k, t) => k = n
    BY DEF TakeStops
  <2> DEFINE P == { i \in 1 .. Len(spent) : t - spent[i] >= Window }
  <2>1. /\ Len(spent) \in Nat /\ Window \in Nat
        /\ \A i \in 1 .. Len(spent) : spent[i] \in Nat
    BY BudgetAssumption DEF TypeOK
  <2>2. \A n \in 0 .. Len(spent) : Expired(n, t) <=> StopsAt(n, Len(spent), P)
    BY <2>1 DEF Expired, StopsAt
  <2> HIDE DEF P
  <2>3. PICK n \in 0 .. Len(spent) : StopsAt(n, Len(spent), P)
    BY <2>1, FrontEnds
  <2>4. \A k \in 0 .. Len(spent) : StopsAt(k, Len(spent), P) => k = n
    BY <2>1, <2>3, FrontEndsOnce
  <2> QED
    BY <2>2, <2>3, <2>4
<1> QED
  BY <1>1, TypeCorrect, PTL

-----------------------------------------------------------------------------
(* Invariant: no request lies ahead of the clock, and the deque is the tail *)
(* of the requests, the rest of which are a window old.                     *)

Forgotten == Len(log) - Len(spent)

WindowInv == /\ Forgotten >= 0
             /\ \A i \in 1 .. Len(log) : log[i] <= now
             /\ \A k \in 1 .. Len(spent) : spent[k] = log[Forgotten + k]
             /\ \A i \in 1 .. Forgotten : now - log[i] >= Window

LEMMA Stamped ==
    ASSUME TypeOK
    PROVE  /\ Len(log) \in Nat /\ Len(spent) \in Nat /\ now \in Nat
           /\ Window \in Nat /\ Budget \in Nat
           /\ \A i \in 1 .. Len(log) : log[i] \in Nat
           /\ \A k \in 1 .. Len(spent) : spent[k] \in Nat
<1>1. log \in Seq(Nat) /\ spent \in Seq(Nat) /\ now \in Nat
  BY TimeAssumption DEF TypeOK, Times
<1> QED
  BY <1>1, BudgetAssumption

LEMMA OnlyAskBooks ==
    ASSUME [Next]_vars
    PROVE  \/ \E m \in Ids : Ask(m)
           \/ OverBudget
           \/ UNCHANGED << spent, log >>
BY DEF Next, Steps, Replied, Watch, CallTick, CallRun, Answered, Limited, Disowned,
       Blip, Escape, Reply, TickReturns, RunReturns, RunGoesOn, HandOver, Wake, Pass,
       Acknowledge

LEMMA ClockGrows ==
    ASSUME TypeOK, [Next]_vars
    PROVE  now' >= now
<1> USE TimeAssumption DEF TypeOK, Times, Calm, Elapse
<1>1. ASSUME NEW m \in Ids, Watch(m) \/ Acknowledge(m) \/ Ask(m) PROVE now' >= now
  BY <1>1 DEF Watch, Acknowledge, Ask
<1>2. ASSUME NEW timeout \in Timeouts, CallRun(timeout) PROVE now' >= now
  BY <1>2 DEF CallRun
<1>3. ASSUME NEW d \in 0 .. Latency, Reply(d) \/ Escape(d) PROVE now' >= now
  BY <1>3 DEF Reply, Escape
<1>4. CASE CallTick \/ OverBudget \/ TickReturns \/ RunReturns \/ RunGoesOn
  BY <1>4 DEF CallTick, OverBudget, TickReturns, RunReturns, RunGoesOn, HandOver
<1>5. CASE Wake \/ Pass \/ UNCHANGED vars
  BY <1>5 DEF Wake, Pass
<1> QED
  BY <1>1, <1>2, <1>3, <1>4, <1>5
     DEF Next, Steps, Replied, Answered, Limited, Disowned, Blip

(* What take pops is old, as what it popped before was.                     *)
LEMMA ForgottenAreOld ==
    ASSUME TypeOK, WindowInv, NEW n \in 0 .. Len(spent), Expired(n, now)
    PROVE  \A i \in 1 .. Forgotten + n : now - log[i] >= Window
<1>1. /\ Forgotten \in Nat
      /\ \A k \in 1 .. Len(spent) : spent[k] = log[Forgotten + k]
      /\ \A i \in 1 .. Forgotten : now - log[i] >= Window
  BY Stamped DEF WindowInv, Forgotten
<1> SUFFICES ASSUME NEW i \in 1 .. Forgotten + n, i > Forgotten
             PROVE  now - log[i] >= Window
  BY <1>1
<1> DEFINE k == i - Forgotten
<1>2. k \in 1 .. n /\ k \in 1 .. Len(spent) /\ i = Forgotten + k
  BY <1>1, Stamped
<1>3. spent[k] = log[i]
  BY <1>1, <1>2
<1>4. now - spent[k] >= Window
  BY <1>2 DEF Expired
<1> QED
  BY <1>3, <1>4

(* The deque loses its first n stamps and the log grows by the requests     *)
(* booked in that step: none or one, under the clock.                       *)
LEMMA WindowInvStep ==
    ASSUME TypeOK, TypeOK', WindowInv, [Next]_vars
    PROVE  WindowInv'
<1>1. now' >= now /\ now' \in Nat /\ now \in Nat
  BY ClockGrows, TimeAssumption DEF TypeOK, Times
<1>2. /\ Forgotten \in Nat /\ Forgotten = Len(log) - Len(spent)
      /\ \A i \in 1 .. Len(log) : log[i] <= now /\ log[i] \in Nat
      /\ \A k \in 1 .. Len(spent) : spent[k] = log[Forgotten + k]
      /\ \A i \in 1 .. Forgotten : now - log[i] >= Window
  BY Stamped DEF WindowInv, Forgotten
<1>3. CASE UNCHANGED << spent, log >>
  <2>1. \A i \in 1 .. Forgotten : now' - log[i] >= Window
    <3> TAKE i \in 1 .. Forgotten
    <3>1. i \in 1 .. Len(log)
      BY <1>2, Stamped
    <3>2. now - log[i] >= Window /\ log[i] \in Nat
      BY <1>2, <3>1
    <3> QED
      BY <1>1, <3>2, Stamped
  <2>2. \A i \in 1 .. Len(log) : log[i] <= now'
    BY <1>1, <1>2
  <2> QED
    BY <1>2, <1>3, <2>1, <2>2 DEF WindowInv, Forgotten
<1>4. CASE OverBudget
  <2>1. PICK n \in 0 .. Len(spent) : Expired(n, now) /\ spent' = Kept(n)
    BY <1>4 DEF OverBudget, Refused
  <2>2. log' = log /\ now' = now
    BY <1>4 DEF OverBudget, Calm
  <2>3. /\ Len(spent') = Len(spent) - n
        /\ \A k \in 1 .. Len(spent) - n : spent'[k] = spent[n + k]
    BY <2>1, KeptType DEF TypeOK
  <2>4. Forgotten' = Forgotten + n
    BY <1>2, <2>2, <2>3, Stamped DEF Forgotten
  <2>5. \A k \in 1 .. Len(spent') : spent'[k] = log'[Forgotten' + k]
    <3> TAKE k \in 1 .. Len(spent')
    <3>1. k \in 1 .. Len(spent) - n /\ n + k \in 1 .. Len(spent)
      BY <2>3, Stamped
    <3>2. spent'[k] = log[Forgotten + (n + k)]
      BY <1>2, <2>3, <3>1
    <3>3. Forgotten + (n + k) = Forgotten' + k
      BY <1>2, <2>4, <3>1
    <3> QED
      BY <2>2, <3>2, <3>3
  <2>6. \A i \in 1 .. Forgotten' : now' - log'[i] >= Window
    BY <2>1, <2>2, <2>4, ForgottenAreOld
  <2> QED
    BY <1>2, <2>2, <2>4, <2>5, <2>6 DEF WindowInv
<1>5. ASSUME NEW m \in Ids, Ask(m) PROVE WindowInv'
  <2>1. PICK n \in 0 .. Len(spent) : Expired(n, now) /\ spent' = Append(Kept(n), now)
    BY <1>5 DEF Ask, Taken
  <2>2. log' = Append(log, now) /\ now' = now
    BY <1>5 DEF Ask, Calm
  <2>3. /\ Len(log') = Len(log) + 1
        /\ log'[Len(log) + 1] = now
        /\ \A i \in 1 .. Len(log) : log'[i] = log[i]
    BY <2>2 DEF TypeOK
  <2>4. /\ Len(spent') = Len(spent) - n + 1
        /\ spent'[Len(spent) - n + 1] = now
        /\ \A k \in 1 .. Len(spent) - n : spent'[k] = spent[n + k]
    <3>1. /\ Kept(n) \in Seq(Nat)
          /\ Len(Kept(n)) = Len(spent) - n
          /\ \A k \in 1 .. Len(spent) - n : Kept(n)[k] = spent[n + k]
      BY KeptType DEF TypeOK
    <3>2. Len(spent) - n \in Nat
      BY Stamped
    <3> QED
      BY <1>1, <2>1, <3>1, <3>2
  <2>5. Forgotten' = Forgotten + n
    <3>1. Forgotten' = Len(log') - Len(spent')
      BY DEF Forgotten
    <3> QED
      BY <1>2, <2>3, <2>4, <3>1, Stamped
  <2>6. \A k \in 1 .. Len(spent') : spent'[k] = log'[Forgotten' + k]
    <3> TAKE k \in 1 .. Len(spent')
    <3>1. CASE k = Len(spent) - n + 1
      <4>1. Forgotten' + k = Len(log) + 1
        BY <1>2, <2>5, <3>1, Stamped
      <4> QED
        BY <2>3, <2>4, <3>1, <4>1
    <3>2. CASE k \in 1 .. Len(spent) - n
      <4>1. n + k \in 1 .. Len(spent) /\ Forgotten + (n + k) \in 1 .. Len(log)
        BY <1>2, <3>2, Stamped
      <4>2. spent'[k] = log[Forgotten + (n + k)]
        BY <1>2, <2>4, <3>2, <4>1
      <4>3. Forgotten + (n + k) = Forgotten' + k
        BY <1>2, <2>5, <3>2
      <4> QED
        BY <2>3, <4>1, <4>2, <4>3
    <3> QED
      BY <2>4, <3>1, <3>2, Stamped
  <2>7. \A i \in 1 .. Forgotten' : now' - log'[i] >= Window
    <3>1. Forgotten' <= Len(log)
      BY <1>2, <2>5, Stamped
    <3> QED
      BY <1>2, <2>1, <2>2, <2>3, <2>5, <3>1, ForgottenAreOld, Stamped
  <2>8. \A i \in 1 .. Len(log') : log'[i] <= now'
    BY <1>1, <1>2, <2>2, <2>3, Stamped
  <2> QED
    BY <1>2, <2>5, <2>6, <2>7, <2>8 DEF WindowInv
<1> QED
  BY <1>3, <1>4, <1>5, OnlyAskBooks

(* The requests implement RequestWindow: at most per_minute of them leave   *)
(* in any sixty seconds, also when they are slow.                           *)
THEOREM RequestsImplementWindow == Spec => RequestsKeepTheWindow
<1>1. Init => Requests!Init /\ WindowInv
  BY DEF Init, WindowInv, Forgotten, Requests!Init
<1>2. TypeOK /\ TypeOK' /\ WindowInv /\ [Next]_vars
         => WindowInv' /\ [Requests!Next]_log
  <2> SUFFICES ASSUME TypeOK, TypeOK', WindowInv, [Next]_vars
               PROVE  Requests!Next \/ UNCHANGED log
    BY WindowInvStep
  <2>1. ASSUME NEW m \in Ids, Ask(m) PROVE Requests!Next
    <3>1. PICK n \in 0 .. Len(spent) : Expired(n, now) /\ Len(Kept(n)) < Budget
      BY <2>1 DEF Ask, Taken
    <3>2. log' = Append(log, now) /\ now \in Times
      BY <2>1 DEF Ask, TypeOK
    <3>3. Budget > 0 /\ Len(spent) - n < Budget
      <4>1. Len(Kept(n)) = Len(spent) - n
        BY KeptType DEF TypeOK
      <4> QED
        BY <3>1, <4>1, Stamped
    <3>4. Len(log) > 0 => log[Len(log)] <= now
      BY Stamped DEF WindowInv
    <3>5. Len(log) >= Budget => now - log[Len(log) - Budget + 1] >= Window
      <4> SUFFICES ASSUME Len(log) >= Budget
                   PROVE  now - log[Len(log) - Budget + 1] >= Window
        OBVIOUS
      <4>1. Len(log) - Budget + 1 \in 1 .. Forgotten + n
        BY <3>3, Stamped DEF Forgotten
      <4> QED
        BY <3>1, <4>1, ForgottenAreOld
    <3> QED
      BY <3>2, <3>3, <3>4, <3>5 DEF Requests!Next, Requests!Request
  <2>2. OverBudget => UNCHANGED log
    BY DEF OverBudget
  <2> QED
    BY <2>1, <2>2, OnlyAskBooks
<1> QED
  BY <1>1, <1>2, TypeCorrect, PTL DEF Spec, RequestsKeepTheWindow, Requests!Spec

-----------------------------------------------------------------------------
(* What is gained by implementing RequestWindow: its behaviours keep their  *)
(* promise, whatever poller they are of.                                   *)

LEMMA WindowTypeCorrect == Requests!Spec => []Requests!TypeOK
<1>1. Requests!Init => Requests!TypeOK
  BY DEF Requests!Init, Requests!TypeOK
<1>2. Requests!TypeOK /\ [Requests!Next]_log => Requests!TypeOK'
  BY DEF Requests!TypeOK, Requests!Next, Requests!Request
<1> QED
  BY <1>1, <1>2, PTL DEF Requests!Spec

(* Sorted is what makes InWindow inductive: the new request is compared     *)
(* with the one Budget places back only, and all before that are older.    *)
LEMMA WindowStep ==
    ASSUME Requests!WindowTypes, Requests!TypeOK, Requests!Sorted, Requests!InWindow,
           NEW t \in Times, Requests!Request(t)
    PROVE  Requests!Sorted' /\ Requests!InWindow'
<1>1. /\ Len(log) \in Nat /\ Budget \in Nat /\ Window \in Nat /\ t \in Nat
      /\ \A i \in 1 .. Len(log) : log[i] \in Nat
  <2>1. \A i \in 1 .. Len(log) : log[i] \in Times
    BY DEF Requests!TypeOK
  <2>2. Times \subseteq Nat /\ Budget \in Nat /\ Window \in Nat
    BY DEF Requests!WindowTypes
  <2>3. Len(log) \in Nat
    BY DEF Requests!TypeOK
  <2> QED
    BY <2>1, <2>2, <2>3
<1>2. /\ Len(log') = Len(log) + 1
      /\ log'[Len(log) + 1] = t
      /\ \A i \in 1 .. Len(log) : log'[i] = log[i]
  BY DEF Requests!Request, Requests!TypeOK
<1>3. \A i \in 1 .. Len(log) : log[i] <= t
  <2> SUFFICES ASSUME NEW i \in 1 .. Len(log) PROVE log[i] <= t
    OBVIOUS
  <2>1. Len(log) > 0 /\ Len(log) \in 1 .. Len(log)
    BY <1>1
  <2>2. log[i] <= log[Len(log)]
    BY <1>1, <2>1 DEF Requests!Sorted
  <2> QED
    BY <1>1, <2>1, <2>2 DEF Requests!Request
<1>4. Requests!Sorted'
  BY <1>1, <1>2, <1>3 DEF Requests!Sorted
<1>5. Requests!InWindow'
  <2> SUFFICES ASSUME NEW i \in 1 .. Len(log'), NEW j \in 1 .. Len(log'),
                      i + Budget <= j
               PROVE  log'[j] - log'[i] >= Window
    BY DEF Requests!InWindow
  <2>1. CASE j <= Len(log)
    BY <1>1, <1>2, <2>1 DEF Requests!InWindow
  <2>2. CASE j = Len(log) + 1
    <3> DEFINE k == Len(log) - Budget + 1
    <3>1. Budget > 0
      BY DEF Requests!Request
    <3>2. /\ Len(log) >= Budget /\ k \in 1 .. Len(log)
          /\ i <= k /\ i \in 1 .. Len(log)
      BY <1>1, <2>2, <3>1
    <3>3. t - log[k] >= Window
      BY <3>2 DEF Requests!Request
    <3>4. log[i] <= log[k]
      BY <3>2 DEF Requests!Sorted
    <3>5. log'[j] = t /\ log'[i] = log[i]
      BY <1>2, <2>2, <3>2
    <3>6. log[k] \in Nat /\ log[i] \in Nat
      BY <1>1, <3>2
    <3> HIDE DEF k
    <3> QED
      BY <1>1, <3>3, <3>4, <3>5, <3>6
  <2> QED
    BY <1>1, <1>2, <2>1, <2>2
<1> QED
  BY <1>4, <1>5

(* RequestWindow keeps its promise.                                         *)
LEMMA WindowHolds ==
    ASSUME Requests!WindowTypes
    PROVE  Requests!Spec => []Requests!InWindow
<1>1. Requests!Init => Requests!Sorted /\ Requests!InWindow
  BY DEF Requests!Init, Requests!Sorted, Requests!InWindow
<1>2. Requests!TypeOK /\ Requests!Sorted /\ Requests!InWindow /\ [Requests!Next]_log
         => (Requests!Sorted /\ Requests!InWindow)'
  <2> SUFFICES ASSUME Requests!TypeOK, Requests!Sorted, Requests!InWindow,
                      [Requests!Next]_log
               PROVE  (Requests!Sorted /\ Requests!InWindow)'
    OBVIOUS
  <2>1. CASE Requests!Next
    BY <2>1, WindowStep DEF Requests!Next
  <2>2. CASE UNCHANGED log
    BY <2>2 DEF Requests!Sorted, Requests!InWindow
  <2> QED
    BY <2>1, <2>2
<1> QED
  BY <1>1, <1>2, WindowTypeCorrect, PTL DEF Requests!Spec

(* At most per_minute requests leave in any stretch of sixty seconds.       *)
THEOREM RequestsInWindow == Spec => []Requests!InWindow
<1>1. Requests!WindowTypes
  BY BudgetAssumption, TimeAssumption DEF Requests!WindowTypes, Times
<1> QED
  BY <1>1, RequestsImplementWindow, WindowHolds DEF RequestsKeepTheWindow

-----------------------------------------------------------------------------
(* What the caller hears.  Invariant: results are held only while a call is *)
(* in flight, and results of earlier ticks only by run.                     *)

Held == /\ pc \in {"idle", "sleeping"} => settled = {}
        /\ call = "tick" => total = {}
        /\ pc = "idle" => call = "tick"

LEMMA HeldInit == Init => Held
BY DEF Init, Held

LEMMA HeldStep == TypeOK /\ Held /\ [Next]_vars => Held'
<1> SUFFICES ASSUME TypeOK, Held, [Next]_vars PROVE Held'
  OBVIOUS
<1> QED
  BY DEF TypeOK, Held, Next, Steps, Replied, Watch, CallTick, CallRun, Ask, OverBudget,
         Answered, Limited, Disowned, Blip, Escape, Reply, TickReturns, RunReturns,
         RunGoesOn, TickDone, HandOver, Wake, BeginTick, Pass, Acknowledge

(* Watching opens a page, asking about one keeps it open.                   *)
LEMMA PagesStay ==
    ASSUME TypeOK, NEW m \in Ids, Watch(m) \/ Ask(m)
    PROVE  Watching' = Watching \cup {m}
<1>1. [started |-> now, lastPoll |-> 0] # None
  BY NoneAssumption DEF TypeOK, Times, Page
<1>2. CASE Watch(m)
  BY <1>1, <1>2 DEF Watch, Watching, TypeOK
<1>3. CASE Ask(m)
  <2>1. open[m] \in Page
    BY <1>3 DEF Ask, TypeOK, Watching
  <2>2. [started |-> open[m].started, lastPoll |-> at] # None
    BY <2>1, NoneAssumption DEF Page, TypeOK
  <2> QED
    BY <1>3, <2>1, <2>2, NoneAssumption DEF Ask, Watching, TypeOK
<1> QED
  BY <1>2, <1>3

(* A reply closes no page but the one that was asked about.                 *)
LEMMA AskedIsOpen ==
    ASSUME TypeOK, pc = "awaiting"
    PROVE  asking \in Ids /\ open[asking] # None
BY DEF TypeOK, Watching

(* Every message that was watched is open, was disowned, or is in a result  *)
(* that is on its way: only an exception takes results with it.             *)
THEOREM NothingIsLost == Spec => []NothingLost
<1>1. Init => NothingLost
  BY DEF Init, NothingLost
<1>2. TypeOK /\ Held /\ NothingLost /\ [Next]_vars => NothingLost'
  <2> SUFFICES ASSUME TypeOK, Held, NothingLost, [Next]_vars PROVE NothingLost'
    OBVIOUS
  <2> USE DEF NothingLost
  <2>1. ASSUME NEW m \in Ids, Watch(m) PROVE NothingLost'
    <3>1. Watching' = Watching \cup {m}
      BY <2>1, PagesStay
    <3>2. /\ gone'.owed = gone.owed \cup {m}
          /\ gone'.disowned = gone.disowned \ {m} /\ gone'.taken = gone.taken \ {m}
          /\ UNCHANGED << settled, total >>
      BY <2>1 DEF Watch
    <3> QED
      BY <3>1, <3>2
  <2>2. ASSUME NEW m \in Ids, Ask(m) PROVE NothingLost'
    BY <2>2, PagesStay DEF Ask
  <2>3. ASSUME NEW m \in Ids, Acknowledge(m) PROVE NothingLost'
    BY <2>3 DEF Acknowledge, Watching
  <2>4. CASE CallTick
    BY <2>4 DEF CallTick, BeginTick, Held, Watching
  <2>5. ASSUME NEW timeout \in Timeouts, CallRun(timeout) PROVE NothingLost'
    BY <2>5 DEF CallRun, BeginTick, Held, Watching
  <2>6. CASE OverBudget \/ Pass \/ UNCHANGED vars
    BY <2>6 DEF OverBudget, Pass, Watching
  <2>7. ASSUME NEW d \in 0 .. Latency, Answered(d) PROVE NothingLost'
    BY <2>7, AskedIsOpen DEF Answered, Reply, TypeOK, Watching
  <2>8. ASSUME NEW d \in 0 .. Latency, Disowned(d) PROVE NothingLost'
    <3>1. /\ gone'.owed = gone.owed /\ gone'.taken = gone.taken
          /\ gone'.disowned = gone.disowned \cup {asking}
          /\ UNCHANGED << settled, total >>
      BY <2>8 DEF Disowned, Reply, TypeOK
    <3>2. Watching' = Watching \ {asking}
      BY <2>8, AskedIsOpen DEF Disowned, Reply, TypeOK, Watching
    <3> QED
      BY <3>1, <3>2
  <2>9. ASSUME NEW d \in 0 .. Latency, Blip(d) PROVE NothingLost'
    BY <2>9 DEF Blip, Reply, Watching
  <2>10. ASSUME NEW d \in 0 .. Latency, NEW r \in RetryAfters, Limited(d, r)
         PROVE  NothingLost'
    BY <2>10 DEF Limited, Reply, Watching
  <2>11. ASSUME NEW d \in 0 .. Latency, Escape(d) PROVE NothingLost'
    <3>1. /\ gone'.owed = gone.owed /\ gone'.disowned = gone.disowned
          /\ gone'.taken = gone.taken \cup settled \cup total
      BY <2>11 DEF Escape, TypeOK
    <3> QED
      BY <2>11, <3>1 DEF Escape, Watching
  <2>12. CASE TickReturns \/ RunReturns
    <3>1. \E reported \in {settled, total \cup settled} :
             HandOver(reported) /\ settled \cup total \subseteq reported
      BY <2>12 DEF TickReturns, RunReturns, Held
    <3>2. PICK reported \in {settled, total \cup settled} :
             HandOver(reported) /\ settled \cup total \subseteq reported
      BY <3>1
    <3>3. gone'.owed = gone.owed \ reported /\ gone'.disowned = gone.disowned
          /\ gone'.taken = gone.taken /\ Watching' = Watching
      BY <3>2 DEF HandOver, TypeOK, Watching
    <3> QED
      BY <3>2, <3>3
  <2>13. CASE RunGoesOn
    BY <2>13 DEF RunGoesOn, Watching
  <2>14. CASE Wake
    BY <2>14 DEF Wake, BeginTick, Held, Watching
  <2> QED
    BY <2>1, <2>2, <2>3, <2>4, <2>5, <2>6, <2>7, <2>8, <2>9, <2>10, <2>11, <2>12,
       <2>13, <2>14 DEF Next, Steps, Replied
<1> QED
  BY <1>1, <1>2, HeldInit, HeldStep, TypeCorrect, PTL DEF Spec

(* Whether or not exceptions escape, a message that was watched and not     *)
(* reported is open, was disowned, or has a final state in last_status.     *)
THEOREM NothingIsBeyondReach == Spec => []Recoverable
<1>1. Init => Recoverable
  BY DEF Init, Recoverable
<1>2. TypeOK /\ Recoverable /\ [Next]_vars => Recoverable'
  <2> SUFFICES ASSUME TypeOK, Recoverable, [Next]_vars PROVE Recoverable'
    OBVIOUS
  <2> USE DEF Recoverable
  <2>1. ASSUME NEW m \in Ids, Watch(m) PROVE Recoverable'
    <3>1. Watching' = Watching \cup {m}
      BY <2>1, PagesStay
    <3>2. /\ gone'.owed = gone.owed \cup {m}
          /\ gone'.disowned = gone.disowned \ {m} /\ seen' = seen
      BY <2>1 DEF Watch
    <3> QED
      BY <3>1, <3>2
  <2>2. ASSUME NEW m \in Ids, Ask(m) PROVE Recoverable'
    BY <2>2, PagesStay DEF Ask
  <2>3. ASSUME NEW m \in Ids, Acknowledge(m) PROVE Recoverable'
    BY <2>3 DEF Acknowledge, Watching
  <2>4. ASSUME NEW timeout \in Timeouts, CallRun(timeout) PROVE Recoverable'
    BY <2>4 DEF CallRun, Watching
  <2>5. CASE CallTick \/ OverBudget \/ RunGoesOn \/ Wake \/ Pass \/ UNCHANGED vars
    BY <2>5 DEF CallTick, OverBudget, RunGoesOn, Wake, Pass, Watching
  <2>6. ASSUME NEW d \in 0 .. Latency, Answered(d) PROVE Recoverable'
    <3>1. asking \in Ids /\ open[asking] # None /\ gone' = gone
      BY <2>6, AskedIsOpen DEF Answered, Reply
    <3>2. CASE asking \in answered'
      BY <2>6, <3>1, <3>2 DEF Answered, TypeOK, Watching
    <3>3. CASE asking \notin answered'
      BY <2>6, <3>1, <3>3 DEF Answered, TypeOK, Watching
    <3> QED
      BY <3>2, <3>3
  <2>7. ASSUME NEW d \in 0 .. Latency, Disowned(d) PROVE Recoverable'
    <3>1. /\ gone'.owed = gone.owed /\ seen' = seen
          /\ gone'.disowned = gone.disowned \cup {asking}
      BY <2>7 DEF Disowned, Reply, TypeOK
    <3>2. Watching' = Watching \ {asking}
      BY <2>7, AskedIsOpen DEF Disowned, Reply, TypeOK, Watching
    <3> QED
      BY <3>1, <3>2
  <2>8. ASSUME NEW d \in 0 .. Latency, NEW r \in RetryAfters, Limited(d, r)
        PROVE  Recoverable'
    BY <2>8 DEF Limited, Watching
  <2>9. ASSUME NEW d \in 0 .. Latency, Blip(d) PROVE Recoverable'
    BY <2>9 DEF Blip, Watching
  <2>10. ASSUME NEW d \in 0 .. Latency, Escape(d) PROVE Recoverable'
    BY <2>10 DEF Escape, TypeOK, Watching
  <2>11. CASE TickReturns \/ RunReturns
    BY <2>11 DEF TickReturns, RunReturns, HandOver, TypeOK, Watching
  <2> QED
    BY <2>1, <2>2, <2>3, <2>4, <2>5, <2>6, <2>7, <2>8, <2>9, <2>10, <2>11
       DEF Next, Steps, Replied
<1> QED
  BY <1>1, <1>2, TypeCorrect, PTL DEF Spec
=============================================================================
