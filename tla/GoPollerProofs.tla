--------------------------- MODULE GoPollerProofs ---------------------------
(***************************************************************************)
(* What is proved of the Go poller and of Wait, under contexts that may be *)
(* done at any moment: whatever the messages, the budget and the times.    *)
(***************************************************************************)
EXTENDS GoPoller, PlaceLemmas, TLAPS

USE DEF poller, frame, history, vars

LEMMA Bounds == Latency \in Nat /\ Horizon \in Nat /\ Interval \in Nat /\ Slowest \in Nat
BY TimeAssumption

LEMMA PauseIsTime == \A t \in Nat : \A r \in RetryAfters : t + r \in Nat
BY TimeAssumption

(* What is left of a slice of stamps after the cutoff is one.               *)
LEMMA KeptType ==
    ASSUME spent \in Seq(Nat), NEW n \in 0 .. Len(spent)
    PROVE  /\ Kept(n) \in Seq(Nat)
           /\ Len(Kept(n)) = Len(spent) - n
           /\ \A k \in 1 .. Len(spent) - n : Kept(n)[k] = spent[n + k]
BY DEF Kept

LEMMA OpenedIsPage == \A m : now \in Nat => Opened(m) \in Page /\ Opened(m) # None
BY Bounds, NoneAssumption DEF Opened, Page

(* A call that returns hands a status of a type and an error of a type over. *)
LEMMA ReturnTypes ==
    ASSUME TypeOK, NEW reported \in SUBSET Ids, NEW err \in {"nil", "ctx"},
           Return(reported, err)
    PROVE  TypeOK'
<1> USE DEF TypeOK, Watching
<1>1. UNCHANGED << now, answered >>
  BY DEF Return, Calm
<1>2. CASE call = "Wait"
  <2>1. answer' \in [status : {"unread", "pending", "done"}, err : {"nil", "ctx"}]
    <3>1. PICK m \in gone.owed : answer' = Waited(m, reported, err)
      BY <1>2 DEF Return
    <3> QED
      BY <3>1 DEF Waited
  <2> QED
    BY <1>1, <1>2, <2>1 DEF Return
<1>3. CASE call # "Wait"
  <2>1. gone' \in [owed : SUBSET Ids, disowned : SUBSET Ids]
    BY <1>3 DEF Return
  <2>2. UNCHANGED << open, last, spent, paused, answer, log >>
    BY <1>3 DEF Return
  <2>3. /\ pc' = "idle" /\ call' = "Tick" /\ ctx' = "live" /\ late' = 0 /\ at' = 0
        /\ due' = {} /\ asking' = None /\ settled' = {} /\ total' = {}
    BY DEF Return
  <2> QED
    BY <1>1, <2>1, <2>2, <2>3
<1> QED
  BY <1>2, <1>3

-----------------------------------------------------------------------------
(* The state has its type, and a tick asks only about pages it watches.     *)
THEOREM TypeCorrect == Spec => []TypeOK
<1>1. Init => TypeOK
  BY Bounds DEF Init, Unused, TypeOK, Watching
<1>2. TypeOK /\ [Next]_vars => TypeOK'
  <2> SUFFICES ASSUME TypeOK, [Next]_vars PROVE TypeOK'
    OBVIOUS
  <2> USE TypeOK DEF TypeOK, Watching
  <2>1. ASSUME NEW m \in Ids, Watch(m) PROVE TypeOK'
    BY <2>1, OpenedIsPage DEF Watch, Calm
  <2>2. ASSUME NEW m \in Ids, CallWait(m) PROVE TypeOK'
    <3>1. /\ open' \in [Ids -> Page \cup {None}] /\ m \in Watching'
          /\ at' \in Nat /\ due' = {m}
      BY <2>2, OpenedIsPage DEF CallWait, Unused
    <3> QED
      BY <2>2, <3>1 DEF CallWait, Calm
  <2>3. ASSUME NEW m \in Ids, Acknowledge(m) PROVE TypeOK'
    BY <2>3 DEF Acknowledge
  <2>4. ASSUME NEW name \in {"Tick", "Run"}, Call(name) PROVE TypeOK'
    BY <2>4 DEF Call, BeginTick, Calm
  <2>5. ASSUME NEW m \in Ids, Ask(m) PROVE TypeOK'
    <3>1. spent' \in Seq(Nat)
      BY <2>5, KeptType DEF Ask
    <3>2. /\ open' \in [Ids -> Page \cup {None}]
          /\ m \in Watching' /\ due' \in SUBSET Watching'
      <4>1. open[m] \in Page
        BY <2>5 DEF Ask
      <4>2. [started |-> open[m].started, lastPoll |-> at] \in Page
        BY <4>1 DEF Page
      <4> QED
        BY <4>2, <2>5, NoneAssumption DEF Ask
    <3>3. log' \in Seq(Booking) /\ late' \in Nat
      <4>1. [at |-> at, sent |-> now] \in Booking
        BY Bounds DEF Booking
      <4> QED
        BY <2>5, <4>1 DEF Ask
    <3> QED
      BY <2>5, <3>1, <3>2, <3>3 DEF Ask, Calm
  <2>6. CASE OverBudget
    BY <2>6, KeptType DEF OverBudget, Calm
  <2>7. ASSUME NEW d \in 0 .. Latency, Reply(d)
        PROVE  /\ now' \in 0 .. Horizon /\ answered' \in SUBSET Ids
               /\ asking \in Watching \ due
               /\ pc' = "ticking" /\ asking' = None
               /\ UNCHANGED << call, ctx, at, total, spent, answer, late, log >>
    BY <2>7, Bounds DEF Reply, Elapse
  <2>8. ASSUME NEW d \in 0 .. Latency, Answered(d) PROVE TypeOK'
    <3>1. /\ now' \in 0 .. Horizon /\ answered' \in SUBSET Ids
          /\ asking \in Watching \ due
          /\ pc' = "ticking" /\ asking' = None
          /\ UNCHANGED << call, ctx, at, total, spent, answer, late, log >>
      BY <2>7, <2>8 DEF Answered
    <3>2. UNCHANGED << paused, due, gone >>
      BY <2>8 DEF Answered
    <3>3. CASE asking \in answered'
      <4>1. /\ open' \in [Ids -> Page \cup {None}] /\ due' \in SUBSET Watching'
            /\ last' \in [Ids -> {"unread", "pending", "done"}]
            /\ settled' \in SUBSET Ids
        BY <2>8, <3>1, <3>2, <3>3 DEF Answered
      <4> QED
        BY <3>1, <3>2, <4>1
    <3>4. CASE asking \notin answered'
      <4>1. /\ open' = open /\ settled' = settled
            /\ last' \in [Ids -> {"unread", "pending", "done"}]
        BY <2>8, <3>1, <3>4 DEF Answered
      <4> QED
        BY <3>1, <3>2, <4>1
    <3> QED
      BY <3>3, <3>4
  <2>9. ASSUME NEW d \in 0 .. Latency, NEW r \in RetryAfters, Limited(d, r)
        PROVE  TypeOK'
    <3>1. paused' \in Nat
      <4>1. paused' = now' + r /\ now' \in Nat
        <5>1. now' \in 0 .. Horizon /\ paused' = now' + r
          BY <2>7, <2>9 DEF Limited
        <5> QED
          BY <5>1, Bounds
      <4> QED
        BY <4>1, PauseIsTime, Zenon
    <3> QED
      BY <2>7, <2>9, <3>1 DEF Limited
  <2>10. ASSUME NEW d \in 0 .. Latency, Disowned(d) PROVE TypeOK'
    <3>1. asking \in Watching \ due
      BY <2>7, <2>10 DEF Disowned
    <3>2. gone' \in [owed : SUBSET Ids, disowned : SUBSET Ids]
      BY <2>10, <3>1 DEF Disowned
    <3>3. open' \in [Ids -> Page \cup {None}] /\ due' \in SUBSET Watching'
      BY <2>10, <3>1 DEF Disowned
    <3> QED
      BY <2>7, <2>10, <3>2, <3>3 DEF Disowned
  <2>11. ASSUME NEW d \in 0 .. Latency, Blip(d) PROVE TypeOK'
    BY <2>7, <2>11 DEF Blip
  <2>12. CASE TickReturns \/ RunReturns \/ GivesUp
    BY <2>12, ReturnTypes DEF TickReturns, RunReturns, GivesUp
  <2>13. CASE RunGoesOn
    BY <2>13 DEF RunGoesOn, TickDone, Calm
  <2>14. CASE Wake
    BY <2>14, Bounds DEF Wake, BeginTick, Elapse
  <2>15. CASE CtxDone
    BY <2>15 DEF CtxDone
  <2>16. CASE Pass
    BY <2>16 DEF Pass, Elapse
  <2>17. CASE UNCHANGED vars
    BY <2>17
  <2> QED
    BY <2>1, <2>2, <2>3, <2>4, <2>5, <2>6, <2>8, <2>9, <2>10, <2>11, <2>12,
       <2>13, <2>14, <2>15, <2>16, <2>17
       DEF Next, Steps, Replied
<1> QED
  BY <1>1, <1>2, PTL DEF Spec

-----------------------------------------------------------------------------
(* A done context.  Invariant: a request booked under one is the last thing *)
(* its call does, and the call is waiting for it to fail.                   *)

LateIsLast == late \in {0, 1} /\ (late = 1 => pc = "awaiting")

(* However many pages a tick has still to ask about, one request is booked  *)
(* and no more once the context is done.                                   *)
THEOREM OneRequestAtMost == Spec => []StopsAtCtx
<1>1. Init => LateIsLast
  BY DEF Init, LateIsLast
<1>2. LateIsLast /\ [Next]_vars => LateIsLast'
  <2> SUFFICES ASSUME LateIsLast, [Next]_vars PROVE LateIsLast'
    OBVIOUS
  <2> USE DEF LateIsLast
  <2>1. ASSUME NEW m \in Ids, Ask(m) PROVE LateIsLast'
    BY <2>1 DEF Ask
  <2>2. ASSUME NEW m \in Ids, Watch(m) \/ CallWait(m) \/ Acknowledge(m) PROVE LateIsLast'
    BY <2>2 DEF Watch, CallWait, Acknowledge
  <2>3. ASSUME NEW name, Call(name) PROVE LateIsLast'
    BY <2>3 DEF Call
  <2>4. ASSUME NEW d \in 0 .. Latency, Reply(d) PROVE LateIsLast'
    BY <2>4 DEF Reply
  <2>5. CASE TickReturns \/ RunReturns \/ GivesUp
    BY <2>5 DEF TickReturns, RunReturns, GivesUp, Return
  <2>6. CASE OverBudget \/ RunGoesOn \/ Wake \/ CtxDone \/ Pass \/ UNCHANGED vars
    BY <2>6 DEF OverBudget, RunGoesOn, TickDone, Wake, CtxDone, Pass
  <2> QED
    BY <2>1, <2>2, <2>3, <2>4, <2>5, <2>6
       DEF Next, Steps, Replied, Answered, Limited, Disowned, Blip
<1>3. LateIsLast => StopsAtCtx
  BY DEF LateIsLast, StopsAtCtx
<1> QED
  BY <1>1, <1>2, <1>3, PTL DEF Spec

-----------------------------------------------------------------------------
(* What the caller hears.  Invariant: results are held only while a call is *)
(* in flight, and results of earlier ticks only by Run.                     *)

Held == /\ pc \in {"idle", "sleeping"} => settled = {}
        /\ call = "Tick" => total = {}
        /\ pc = "idle" => call = "Tick"

LEMMA HeldInit == Init => Held
BY DEF Init, Held

LEMMA HeldStep == TypeOK /\ Held /\ [Next]_vars => Held'
<1> SUFFICES ASSUME TypeOK, Held, [Next]_vars PROVE Held'
  OBVIOUS
<1> QED
  BY DEF TypeOK, Held, Next, Steps, Replied, Watch, CallWait, Call, Ask, OverBudget,
         Answered, Limited, Disowned, Blip, Reply, TickReturns, RunReturns, GivesUp,
         RunGoesOn, TickDone, Return, Wake, BeginTick, CtxDone, Pass, Acknowledge

(* Watching opens a page, asking about one keeps it open.                   *)
LEMMA PagesStay ==
    ASSUME TypeOK, NEW m \in Ids, Watch(m) \/ Ask(m)
    PROVE  Watching' = Watching \cup {m}
<1>1. CASE Watch(m)
  BY <1>1, OpenedIsPage DEF Watch, Watching, TypeOK
<1>2. CASE Ask(m)
  <2>1. open[m] \in Page
    BY <1>2 DEF Ask, TypeOK, Watching
  <2>2. [started |-> open[m].started, lastPoll |-> at] # None
    BY <2>1, NoneAssumption DEF Page, TypeOK
  <2> QED
    BY <1>2, <2>1, <2>2, NoneAssumption DEF Ask, Watching, TypeOK
<1> QED
  BY <1>1, <1>2

(* A reply closes no page but the one that was asked about.                 *)
LEMMA AskedIsOpen ==
    ASSUME TypeOK, pc = "awaiting"
    PROVE  asking \in Ids /\ open[asking] # None
BY DEF TypeOK, Watching

(* A message that was watched and not handed over is open, was disowned, or *)
(* is in a result on its way: no return, with or without an error, and no  *)
(* end of a context leaves one out.                                        *)
THEOREM NothingIsLost == Spec => []NothingLost
<1>1. Init => NothingLost
  BY DEF Init, NothingLost
<1>2. TypeOK /\ Held /\ NothingLost /\ [Next]_vars => NothingLost'
  <2> SUFFICES ASSUME TypeOK, Held, NothingLost, [Next]_vars PROVE NothingLost'
    OBVIOUS
  <2> USE DEF NothingLost
  <2>1. ASSUME NEW m \in Ids, Watch(m) PROVE NothingLost'
    <3>1. Watching' = Watching \cup {m}
      BY <2>1, PagesStay
    <3>2. /\ gone'.owed = gone.owed \cup {m} /\ gone'.disowned = gone.disowned \ {m}
          /\ UNCHANGED << settled, total >>
      BY <2>1 DEF Watch
    <3> QED
      BY <3>1, <3>2
  <2>2. ASSUME NEW m \in Ids, CallWait(m) PROVE NothingLost'
    <3>1. m \in Watching'
      BY <2>2, OpenedIsPage DEF CallWait, Unused, Watching, TypeOK
    <3> QED
      BY <2>2, <3>1 DEF CallWait
  <2>3. ASSUME NEW m \in Ids, Ask(m) PROVE NothingLost'
    BY <2>3, PagesStay DEF Ask
  <2>4. ASSUME NEW m \in Ids, Acknowledge(m) PROVE NothingLost'
    BY <2>4 DEF Acknowledge, Watching
  <2>5. ASSUME NEW name, Call(name) PROVE NothingLost'
    BY <2>5 DEF Call, BeginTick, Held, Watching
  <2>6. CASE OverBudget \/ CtxDone \/ Pass \/ UNCHANGED vars
    BY <2>6 DEF OverBudget, CtxDone, Pass, Watching
  <2>7. ASSUME NEW d \in 0 .. Latency, Answered(d) PROVE NothingLost'
    <3>1. asking \in Ids /\ open[asking] # None /\ UNCHANGED << gone, total >>
      BY <2>7, AskedIsOpen DEF Answered, Reply
    <3> QED
      BY <2>7, <3>1 DEF Answered, TypeOK, Watching
  <2>8. ASSUME NEW d \in 0 .. Latency, Disowned(d) PROVE NothingLost'
    <3>1. /\ gone'.owed = gone.owed /\ gone'.disowned = gone.disowned \cup {asking}
          /\ UNCHANGED << settled, total >>
      BY <2>8 DEF Disowned, Reply, TypeOK
    <3>2. Watching' = Watching \ {asking}
      BY <2>8, AskedIsOpen DEF Disowned, Reply, TypeOK, Watching
    <3> QED
      BY <3>1, <3>2
  <2>9. ASSUME NEW d \in 0 .. Latency, Blip(d) PROVE NothingLost'
    BY <2>9 DEF Blip, Reply, Watching
  <2>10. ASSUME NEW d \in 0 .. Latency, NEW r \in RetryAfters, Limited(d, r)
         PROVE  NothingLost'
    BY <2>10 DEF Limited, Reply, Watching
  <2>11. CASE TickReturns \/ RunReturns \/ GivesUp
    <3>1. PICK reported \in {settled, total \cup settled}, err \in {"nil", "ctx"} :
             Return(reported, err) /\ settled \cup total \subseteq reported
      BY <2>11 DEF TickReturns, RunReturns, GivesUp, Held
    <3>2. CASE call = "Wait"
      BY <3>1, <3>2 DEF Return
    <3>3. CASE call # "Wait"
      <4>1. /\ gone'.owed = gone.owed \ reported /\ gone'.disowned = gone.disowned
            /\ Watching' = Watching
        BY <3>1, <3>3 DEF Return, TypeOK, Watching
      <4> QED
        BY <3>1, <4>1
    <3> QED
      BY <3>2, <3>3
  <2>12. CASE RunGoesOn
    BY <2>12 DEF RunGoesOn, Watching
  <2>13. CASE Wake
    BY <2>13 DEF Wake, BeginTick, Held, Watching
  <2> QED
    BY <2>1, <2>2, <2>3, <2>4, <2>5, <2>6, <2>7, <2>8, <2>9, <2>10, <2>11, <2>12,
       <2>13 DEF Next, Steps, Replied
<1> QED
  BY <1>1, <1>2, HeldInit, HeldStep, TypeCorrect, PTL DEF Spec

-----------------------------------------------------------------------------
(* The budget.  Invariant: a tick's stamp lies behind the clock, the slice  *)
(* is the tail of what was booked, and what take has cut off is a minute   *)
(* old for the tick that is asking.                                        *)

Stamp == IF pc \in {"ticking", "awaiting"} THEN at ELSE now

Forgotten == Len(log) - Len(spent)

SliceIsTail == /\ Forgotten >= 0
               /\ \A k \in 1 .. Len(spent) : spent[k] = log[Forgotten + k].at
               /\ \A i \in 1 .. Forgotten : Stamp - log[i].at >= Window

WindowInv == at <= now /\ SliceIsTail /\ StampsInWindow

LEMMA StampTypes ==
    ASSUME TypeOK
    PROVE  /\ Len(log) \in Nat /\ Len(spent) \in Nat /\ Window \in Nat /\ Budget \in Nat
           /\ at \in Nat /\ now \in Nat /\ Stamp \in Nat /\ DOMAIN log = 1 .. Len(log)
           /\ \A i \in 1 .. Len(log) : log[i].at \in Nat /\ log[i].sent \in Nat
           /\ \A k \in 1 .. Len(spent) : spent[k] \in Nat
<1>1. log \in Seq(Booking) /\ spent \in Seq(Nat) /\ at \in Nat /\ now \in Nat
  BY Bounds DEF TypeOK
<1>2. \A i \in 1 .. Len(log) : log[i] \in Booking
  BY <1>1
<1> QED
  BY <1>1, <1>2, BudgetAssumption DEF Stamp, Booking

(* Only Ask books a request; a Wait that returns throws its poller away.    *)
LEMMA OnlyAskBooks ==
    ASSUME [Next]_vars
    PROVE  \/ \E m \in Ids : Ask(m)
           \/ OverBudget
           \/ spent' = << >> /\ log' = << >>
           \/ UNCHANGED << spent, log >>
BY DEF Next, Steps, Replied, Watch, CallWait, Call, Answered, Limited, Disowned, Blip,
       Reply, TickReturns, RunReturns, GivesUp, RunGoesOn, Return, Wake, CtxDone, Pass,
       Acknowledge

(* The stamp a request gets does not go back from one step to the next,     *)
(* however long a tick lags behind the clock.                               *)
LEMMA StampGrows ==
    ASSUME TypeOK, at <= now, [Next]_vars
    PROVE  at' <= now' /\ Stamp' >= Stamp
<1>0. now \in Nat /\ at \in Nat
  BY StampTypes
<1> USE <1>0, Bounds DEF Stamp
<1>1. ASSUME NEW m \in Ids, Watch(m) \/ CallWait(m) \/ Ask(m) \/ Acknowledge(m)
      PROVE  at' <= now' /\ Stamp' >= Stamp
  BY <1>1 DEF Watch, CallWait, Ask, Acknowledge, Calm
<1>2. ASSUME NEW name, Call(name)
      PROVE  at' <= now' /\ Stamp' >= Stamp
  BY <1>2 DEF Call, BeginTick, Calm
<1>3. ASSUME NEW d \in 0 .. Latency, Reply(d)
      PROVE  at' <= now' /\ Stamp' >= Stamp
  BY <1>3 DEF Reply, Elapse
<1>4. ASSUME NEW reported, NEW err, Return(reported, err)
      PROVE  at' <= now' /\ Stamp' >= Stamp
  BY <1>4 DEF Return, Calm
<1>5. CASE OverBudget \/ RunGoesOn \/ CtxDone \/ UNCHANGED vars
  BY <1>5 DEF OverBudget, RunGoesOn, TickDone, CtxDone, Calm
<1>6. CASE Wake \/ Pass
  BY <1>6 DEF Wake, Pass, BeginTick, Elapse
<1> QED
  BY <1>1, <1>2, <1>3, <1>4, <1>5, <1>6
     DEF Next, Steps, Replied, Answered, Limited, Disowned, Blip, TickReturns,
         RunReturns, GivesUp

(* What take cuts off is old, as what it cut off before was.                *)
LEMMA ForgottenAreOld ==
    ASSUME TypeOK, SliceIsTail, Stamp = at, NEW n \in 0 .. Len(spent), Cut(n, at)
    PROVE  \A i \in 1 .. Forgotten + n : at - log[i].at >= Window
<1>0. Len(log) \in Nat /\ Len(spent) \in Nat
  BY StampTypes
<1>1. /\ Forgotten \in Nat /\ Len(log) = Forgotten + Len(spent)
      /\ \A k \in 1 .. Len(spent) : spent[k] = log[Forgotten + k].at
      /\ \A i \in 1 .. Forgotten : at - log[i].at >= Window
  BY <1>0 DEF SliceIsTail, Forgotten
<1> SUFFICES ASSUME NEW i \in 1 .. Forgotten + n, i > Forgotten
             PROVE  at - log[i].at >= Window
  BY <1>1
<1> DEFINE k == i - Forgotten
<1>2. k \in 1 .. n /\ k \in 1 .. Len(spent) /\ i = Forgotten + k
  BY <1>1, StampTypes
<1>3. spent[k] = log[i].at
  BY <1>1, <1>2
<1>4. ~ (at - spent[k] < Window)
  BY <1>2 DEF Cut
<1> QED
  BY <1>2, <1>3, <1>4, StampTypes

(* The slice after a cut, and before a request is added to it.              *)
LEMMA CutKeepsTail ==
    ASSUME TypeOK, SliceIsTail, NEW n \in 0 .. Len(spent)
    PROVE  /\ Forgotten + n \in Nat /\ Len(log) = Forgotten + n + Len(Kept(n))
           /\ Len(Kept(n)) \in Nat
           /\ \A k \in 1 .. Len(Kept(n)) : Kept(n)[k] = log[Forgotten + n + k].at
<1>0. Len(log) \in Nat /\ Len(spent) \in Nat
  BY StampTypes
<1>1. /\ Forgotten \in Nat /\ Len(log) = Forgotten + Len(spent)
      /\ \A k \in 1 .. Len(spent) : spent[k] = log[Forgotten + k].at
  BY <1>0 DEF SliceIsTail, Forgotten
<1>2. /\ Len(Kept(n)) = Len(spent) - n
      /\ \A k \in 1 .. Len(spent) - n : Kept(n)[k] = spent[n + k]
  BY KeptType DEF TypeOK
<1>3. ASSUME NEW k \in 1 .. Len(Kept(n))
      PROVE  Kept(n)[k] = log[Forgotten + n + k].at
  <2>1. k \in 1 .. Len(spent) - n /\ n + k \in 1 .. Len(spent)
    BY <1>2, StampTypes
  <2>2. Kept(n)[k] = log[Forgotten + (n + k)].at
    BY <1>1, <1>2, <2>1
  <2>3. Forgotten + (n + k) = Forgotten + n + k
    BY <1>1, <2>1
  <2> QED
    BY <2>2, <2>3
<1> QED
  BY <1>1, <1>2, <1>3, StampTypes

LEMMA WindowInvStep ==
    ASSUME TypeOK, TypeOK', WindowInv, [Next]_vars
    PROVE  WindowInv'
<1>1. at' <= now' /\ Stamp' >= Stamp
  BY StampGrows DEF WindowInv
<1>2. Stamp' \in Nat
  BY Bounds DEF TypeOK, Stamp
<1>3. CASE spent' = << >> /\ log' = << >>
  BY <1>1, <1>3 DEF WindowInv, SliceIsTail, StampsInWindow, Forgotten
<1>4. CASE UNCHANGED << spent, log >>
  <2>1. Forgotten' = Forgotten
    BY <1>4 DEF Forgotten
  <2>2. ASSUME NEW i \in 1 .. Forgotten PROVE Stamp' - log[i].at >= Window
    <3>1. i \in 1 .. Len(log) /\ Stamp - log[i].at >= Window
      BY StampTypes DEF WindowInv, SliceIsTail, Forgotten
    <3> QED
      BY <1>1, <1>2, <3>1, StampTypes
  <2>3. SliceIsTail'
    BY <1>4, <2>1, <2>2 DEF WindowInv, SliceIsTail
  <2>4. StampsInWindow'
    BY <1>4 DEF WindowInv, StampsInWindow
  <2> QED
    BY <1>1, <2>3, <2>4 DEF WindowInv
<1>5. CASE OverBudget
  <2>1. PICK n \in 0 .. Len(spent) : Cut(n, at) /\ spent' = Kept(n)
    BY <1>5 DEF OverBudget
  <2>2. log' = log /\ Stamp = at /\ Stamp' = at
    BY <1>5 DEF OverBudget, Stamp
  <2>3. Forgotten' = Forgotten + n
    <3>1. /\ Len(log') = Forgotten + n + Len(spent') /\ Forgotten + n \in Nat
          /\ Len(spent') \in Nat
      BY <2>1, <2>2, CutKeepsTail DEF WindowInv
    <3> QED
      BY <3>1 DEF Forgotten
  <2>4. SliceIsTail'
    BY <2>1, <2>2, <2>3, CutKeepsTail, ForgottenAreOld DEF WindowInv, SliceIsTail
  <2>5. StampsInWindow'
    BY <2>2 DEF WindowInv, StampsInWindow
  <2> QED
    BY <1>1, <2>4, <2>5 DEF WindowInv
<1>6. ASSUME NEW m \in Ids, Ask(m) PROVE WindowInv'
  <2>1. PICK n \in 0 .. Len(spent) :
           Cut(n, at) /\ Len(Kept(n)) < Budget /\ spent' = Append(Kept(n), at)
    BY <1>6 DEF Ask
  <2>2. log' = Append(log, [at |-> at, sent |-> now]) /\ Stamp = at /\ Stamp' = at
    BY <1>6 DEF Ask, Stamp
  <2> DEFINE room == Len(Kept(n))
  <2>3. /\ Len(log') = Len(log) + 1 /\ log'[Len(log) + 1].at = at
        /\ \A i \in 1 .. Len(log) : log'[i] = log[i]
        /\ DOMAIN log' = 1 .. Len(log) + 1
    BY <2>2, StampTypes DEF TypeOK
  <2>4. /\ Len(spent') = room + 1 /\ spent'[room + 1] = at
        /\ \A k \in 1 .. room : spent'[k] = Kept(n)[k]
    <3>1. Kept(n) \in Seq(Nat)
      BY KeptType DEF TypeOK
    <3> QED
      BY <2>1, <3>1, StampTypes
  <2>5. /\ Forgotten + n \in Nat /\ Len(log) = Forgotten + n + room
        /\ room \in Nat /\ room < Budget
        /\ \A k \in 1 .. room : Kept(n)[k] = log[Forgotten + n + k].at
    BY <2>1, CutKeepsTail DEF WindowInv
  <2>6. \A i \in 1 .. Forgotten + n : at - log[i].at >= Window
    BY <2>1, <2>2, ForgottenAreOld DEF WindowInv
  <2> HIDE DEF room
  <2>7. Forgotten' = Forgotten + n
    BY <2>3, <2>4, <2>5 DEF Forgotten
  <2>8. ASSUME NEW k \in 1 .. room + 1
        PROVE  spent'[k] = log'[Forgotten' + k].at
    <3>1. CASE k = room + 1
      BY <2>3, <2>4, <2>5, <2>7, <3>1
    <3>2. CASE k \in 1 .. room
      <4>1. Forgotten + n + k \in 1 .. Len(log)
        BY <2>5, <3>2
      <4> QED
        BY <2>3, <2>4, <2>5, <2>7, <3>2, <4>1
    <3> QED
      BY <2>5, <3>1, <3>2
  <2>9. ASSUME NEW i \in 1 .. Forgotten'
        PROVE  Stamp' - log'[i].at >= Window
    <3>1. i \in 1 .. Forgotten + n /\ i \in 1 .. Len(log)
      BY <2>5, <2>7
    <3> QED
      BY <2>2, <2>3, <2>6, <3>1
  <2>10. SliceIsTail'
    BY <2>4, <2>5, <2>7, <2>8, <2>9 DEF SliceIsTail
  <2>11. ASSUME NEW i \in 1 .. Len(log) + 1, NEW j \in 1 .. Len(log) + 1, i + Budget <= j
         PROVE  log'[j].at - log'[i].at >= Window
    <3>1. CASE j \in 1 .. Len(log)
      <4>1. i \in 1 .. Len(log)
        BY <2>11, <3>1, StampTypes
      <4>2. log[j].at - log[i].at >= Window
        BY <2>11, <3>1, <4>1, StampTypes DEF WindowInv, StampsInWindow
      <4> QED
        BY <2>3, <3>1, <4>1, <4>2
    <3>2. CASE j = Len(log) + 1
      <4>1. Len(log) \in Nat /\ Budget \in Nat
        BY StampTypes
      <4>2. i \in 1 .. Forgotten + n /\ i \in 1 .. Len(log)
        BY <2>5, <2>11, <3>2, <4>1
      <4> QED
        BY <2>3, <2>6, <3>2, <4>2
    <3> QED
      BY <3>1, <3>2, StampTypes
  <2>12. StampsInWindow'
    BY <2>3, <2>11 DEF StampsInWindow
  <2> QED
    BY <1>1, <2>10, <2>12 DEF WindowInv
<1> QED
  BY <1>3, <1>4, <1>5, <1>6, OnlyAskBooks

-----------------------------------------------------------------------------
(* When the requests leave.  Invariant: a tick that is under way has made   *)
(* the last c requests, none of which its own take pops; the first of them *)
(* left when the tick began, and those of other ticks before that.  So a   *)
(* request has left by the time the one Budget - 1 after it is booked.     *)

InTick == pc \in {"ticking", "awaiting"}

OfTick(c) ==
    /\ c \in 0 .. Len(spent) /\ (pc = "awaiting" => c > 0) /\ (c = 0 => now = at)
    /\ \A k \in 1 .. Len(spent) : k > Len(spent) - c => spent[k] = at
    /\ \A i \in 1 .. Len(log) : i <= Len(log) - c + 1 => log[i].sent <= at

SentInv ==
    /\ Len(spent) <= Budget /\ (Len(log) > 0 => Budget > 0)
    /\ \A i \in 1 .. Len(log) : log[i].at <= log[i].sent /\ log[i].sent <= now
    /\ \A i, j \in 1 .. Len(log) : i + Budget <= j => log[j].at - log[i].at >= Window
    /\ \A i, j \in 1 .. Len(log) : i + Budget - 1 <= j => log[i].sent <= log[j].at
    /\ InTick => \E c \in Nat : OfTick(c)

(* A window is longer than nothing: a tick pops no stamp of its own.        *)
LEMMA OwnStampsStay ==
    ASSUME TypeOK, NEW c \in 0 .. Len(spent), NEW n \in 0 .. Len(spent), Cut(n, at),
           \A k \in 1 .. Len(spent) : k > Len(spent) - c => spent[k] = at
    PROVE  n <= Len(spent) - c
<1>1. at \in Nat /\ Len(spent) \in Nat /\ Window \in Nat \ {0}
  BY BudgetAssumption DEF TypeOK
<1> SUFFICES ASSUME n > Len(spent) - c PROVE FALSE
  BY <1>1
<1>2. n \in 1 .. n /\ n \in 1 .. Len(spent)
  BY <1>1
<1>3. spent[n] = at /\ ~ (at - spent[n] < Window)
  BY <1>2 DEF Cut
<1> QED
  BY <1>1, <1>3

LEMMA SentTypes ==
    ASSUME TypeOK
    PROVE  /\ now \in Nat /\ at \in Nat /\ Len(log) \in Nat /\ Len(spent) \in Nat
           /\ Budget \in Nat /\ Window \in Nat \ {0}
           /\ \A i \in 1 .. Len(log) : log[i].at \in Nat /\ log[i].sent \in Nat
BY StampTypes, BudgetAssumption

LEMMA AskKeepsSent ==
    ASSUME TypeOK, WindowInv, SentInv, NEW m \in Ids, Ask(m)
    PROVE  SentInv'
<1>1. /\ pc = "ticking" /\ pc' = "awaiting" /\ UNCHANGED << now, at >> /\ Stamp = at
      /\ log' = Append(log, [at |-> at, sent |-> now])
  BY DEF Ask, Calm, Stamp
<1>2. PICK n \in 0 .. Len(spent) :
         /\ Cut(n, at) /\ Len(Kept(n)) < Budget /\ spent' = Append(Kept(n), at)
  BY DEF Ask
<1>3. PICK c \in Nat : OfTick(c)
  BY <1>1 DEF SentInv, InTick
<1>4. /\ now \in Nat /\ at \in Nat /\ Len(log) \in Nat /\ Len(spent) \in Nat
      /\ Budget \in Nat /\ Window \in Nat \ {0} /\ at <= now
      /\ \A i \in 1 .. Len(log) : log[i].at \in Nat /\ log[i].sent \in Nat
  BY SentTypes DEF WindowInv
<1>5. /\ Len(spent') = Len(spent) - n + 1 /\ spent'[Len(spent) - n + 1] = at
      /\ \A k \in 1 .. Len(spent) - n : spent'[k] = spent[n + k]
      /\ Len(spent') <= Budget
  <2>1. /\ Kept(n) \in Seq(Nat) /\ Len(Kept(n)) = Len(spent) - n
        /\ \A k \in 1 .. Len(spent) - n : Kept(n)[k] = spent[n + k]
    BY KeptType DEF TypeOK
  <2> QED
    BY <1>2, <1>4, <2>1
<1>6. /\ Len(log') = Len(log) + 1
      /\ log'[Len(log) + 1].at = at /\ log'[Len(log) + 1].sent = now
      /\ \A i \in 1 .. Len(log) : log'[i] = log[i]
  BY <1>1 DEF TypeOK
<1>7. c \in 0 .. Len(spent) /\ n <= Len(spent) - c /\ (c = 0 => now = at)
  BY <1>2, <1>3, OwnStampsStay DEF OfTick
<1>8. /\ Len(spent) <= Len(log)
      /\ \A i \in 1 .. Len(log) - (Len(spent) - n) : at - log[i].at >= Window
  <2>1. Forgotten \in Nat /\ Forgotten + n = Len(log) - (Len(spent) - n)
    BY <1>4 DEF WindowInv, SliceIsTail, Forgotten
  <2> QED
    BY <1>1, <1>2, <1>4, <2>1, ForgottenAreOld DEF WindowInv, Forgotten
<1>9. \A i \in 1 .. Len(log') : log'[i].at <= log'[i].sent /\ log'[i].sent <= now'
  BY <1>1, <1>4, <1>6 DEF SentInv
<1>10. ASSUME NEW i \in 1 .. Len(log'), NEW j \in 1 .. Len(log'), i + Budget <= j
       PROVE  log'[j].at - log'[i].at >= Window
  <2>1. CASE j \in 1 .. Len(log)
    <3>1. i \in 1 .. Len(log)
      BY <1>4, <1>6, <1>10, <2>1
    <3>2. log[j].at - log[i].at >= Window
      BY <1>10, <2>1, <3>1 DEF SentInv
    <3> QED
      BY <1>6, <2>1, <3>1, <3>2
  <2>2. CASE j = Len(log) + 1
    <3>1. i \in 1 .. Len(log) - (Len(spent) - n) /\ i \in 1 .. Len(log)
      BY <1>4, <1>5, <1>8, <1>10, <2>2
    <3> QED
      BY <1>6, <1>8, <2>2, <3>1
  <2> QED
    BY <1>4, <1>6, <2>1, <2>2
<1>11. \A i \in 1 .. Len(log') : i <= Len(log') - (c + 1) + 1 => log'[i].sent <= at
  <2> SUFFICES ASSUME NEW i \in 1 .. Len(log'), i <= Len(log) - c + 1
               PROVE  log'[i].sent <= at
    BY <1>4, <1>6, <1>7
  <2>1. CASE i \in 1 .. Len(log)
    BY <1>3, <1>6, <2>1 DEF OfTick
  <2>2. CASE i = Len(log) + 1
    BY <1>4, <1>6, <1>7, <2>2
  <2> QED
    BY <1>4, <1>6, <2>1, <2>2
<1>12. ASSUME NEW i \in 1 .. Len(log'), NEW j \in 1 .. Len(log'), i + Budget - 1 <= j
       PROVE  log'[i].sent <= log'[j].at
  <2>1. CASE j \in 1 .. Len(log)
    <3>1. i \in 1 .. Len(log) \/ i = Len(log) + 1
      BY <1>4, <1>6
    <3>2. Budget > 0
      BY <1>4, <1>5, <1>7
    <3>3. i \in 1 .. Len(log)
      BY <1>4, <1>12, <2>1, <3>1, <3>2
    <3> QED
      BY <1>6, <1>12, <2>1, <3>3 DEF SentInv
  <2>2. CASE j = Len(log) + 1
    <3>1. c + 1 <= Budget
      BY <1>4, <1>5, <1>7
    <3>2. i <= Len(log') - (c + 1) + 1
      BY <1>4, <1>6, <1>7, <1>12, <2>2, <3>1
    <3> QED
      BY <1>6, <1>11, <2>2, <3>2
  <2> QED
    BY <1>4, <1>6, <2>1, <2>2
<1>13. OfTick(c + 1)'
  <2>1. c + 1 \in 0 .. Len(spent')
    BY <1>4, <1>5, <1>7
  <2>2. ASSUME NEW k \in 1 .. Len(spent'), k > Len(spent') - (c + 1) PROVE spent'[k] = at
    <3>1. CASE k = Len(spent) - n + 1
      BY <1>5, <3>1
    <3>2. CASE k # Len(spent) - n + 1
      <4>1. /\ Len(spent') = Len(spent) - n + 1 /\ n \in Nat /\ c \in Nat
            /\ k \in Nat /\ k >= 1 /\ k <= Len(spent')
        BY <1>4, <1>5
      <4>2. k \in 1 .. Len(spent) - n
        BY <1>4, <3>2, <4>1
      <4>3. n + k \in 1 .. Len(spent) /\ n + k > Len(spent) - c
        BY <1>4, <2>2, <4>1, <4>2
      <4> QED
        BY <1>3, <1>5, <4>2, <4>3 DEF OfTick
    <3> QED
      BY <3>1, <3>2
  <2>3. c + 1 > 0 /\ c + 1 # 0
    BY <1>7
  <2> QED
    BY <1>1, <1>11, <2>1, <2>2, <2>3 DEF OfTick
<1>14. Len(log') > 0 => Budget > 0
  BY <1>4, <1>5, <1>7
<1> QED
  BY <1>5, <1>7, <1>9, <1>10, <1>12, <1>13, <1>14 DEF SentInv

LEMMA SentStep ==
    ASSUME TypeOK, WindowInv, SentInv, [Next]_vars
    PROVE  SentInv'
<1>0. /\ now \in Nat /\ at \in Nat /\ Len(log) \in Nat /\ Len(spent) \in Nat
      /\ Budget \in Nat /\ Window \in Nat \ {0} /\ at <= now
      /\ \A i \in 1 .. Len(log) : log[i].at \in Nat /\ log[i].sent \in Nat
  BY SentTypes DEF WindowInv
<1>1. ASSUME UNCHANGED << spent, log >>, now' \in Nat, now' >= now,
             InTick' => \E c \in Nat : OfTick(c)'
      PROVE  SentInv'
  BY <1>0, <1>1 DEF SentInv
<1>2. ASSUME UNCHANGED << spent, log, now, pc, at >> PROVE SentInv'
  BY <1>2 DEF SentInv, InTick, OfTick
<1>3. ASSUME NEW t \in Nat, BeginTick(t), now' = t, t >= now, UNCHANGED << spent, log >>
      PROVE  SentInv'
  <2>1. at' = t /\ pc' = "ticking"
    BY <1>3 DEF BeginTick
  <2>2. OfTick(0)'
    BY <1>0, <1>3, <2>1 DEF OfTick, SentInv
  <2> QED
    BY <1>1, <1>3, <2>2
<1>4. ASSUME NEW name, Call(name) PROVE SentInv'
  BY <1>0, <1>3, <1>4 DEF Call, Calm
<1>5. ASSUME NEW m \in Ids, CallWait(m) PROVE SentInv'
  <2>1. UNCHANGED << spent, log, now >> /\ at' = now /\ pc' = "ticking"
    BY <1>5 DEF CallWait, Calm
  <2>2. OfTick(0)'
    BY <1>0, <2>1 DEF OfTick, SentInv
  <2> QED
    BY <1>0, <1>1, <2>1, <2>2
<1>6. CASE Wake
  BY <1>0, <1>3, <1>6, Bounds DEF Wake, Elapse
<1>7. ASSUME NEW m \in Ids, Ask(m) PROVE SentInv'
  BY <1>7, AskKeepsSent
<1>8. CASE OverBudget
  <2>1. pc = "ticking" /\ log' = log /\ UNCHANGED << now, at, pc >>
    BY <1>8 DEF OverBudget, Calm
  <2>2. PICK n \in 0 .. Len(spent) : Cut(n, at) /\ spent' = Kept(n)
    BY <1>8 DEF OverBudget
  <2>3. /\ Len(spent') = Len(spent) - n
        /\ \A k \in 1 .. Len(spent) - n : spent'[k] = spent[n + k]
    BY <2>2, KeptType DEF TypeOK
  <2>4. PICK c \in Nat : OfTick(c)
    BY <2>1 DEF SentInv, InTick
  <2>5. c \in 0 .. Len(spent) /\ n <= Len(spent) - c
    BY <2>2, <2>4, OwnStampsStay DEF OfTick
  <2>6. ASSUME NEW k \in 1 .. Len(spent'), k > Len(spent') - c PROVE spent'[k] = at
    <3>1. k \in 1 .. Len(spent) - n /\ n + k \in 1 .. Len(spent) /\ n + k > Len(spent) - c
      BY <1>0, <2>3, <2>5, <2>6
    <3> QED
      BY <2>3, <2>4, <3>1 DEF OfTick
  <2>7. c \in 0 .. Len(spent')
    BY <1>0, <2>3, <2>5
  <2>8. OfTick(c)'
    BY <2>1, <2>4, <2>6, <2>7 DEF OfTick
  <2>9. Len(spent') <= Budget
    BY <1>0, <2>2, <2>3 DEF SentInv
  <2> QED
    BY <2>1, <2>8, <2>9 DEF SentInv
<1>9. ASSUME NEW d \in 0 .. Latency, Reply(d) PROVE SentInv'
  <2>1. /\ pc = "awaiting" /\ pc' = "ticking" /\ now' = now + d
        /\ UNCHANGED << at, spent, log >>
    BY <1>9 DEF Reply, Elapse
  <2>2. PICK c \in Nat : OfTick(c)
    BY <2>1 DEF SentInv, InTick
  <2>3. OfTick(c)' /\ now' \in Nat /\ now' >= now
    BY <1>0, <2>1, <2>2, Bounds DEF OfTick
  <2> QED
    BY <1>1, <2>1, <2>3
<1>10. ASSUME NEW reported, NEW err, Return(reported, err) PROVE SentInv'
  <2>1. pc' = "idle" /\ now' = now /\ at' = 0
    BY <1>10 DEF Return, Calm
  <2>2. CASE call = "Wait"
    <3>1. spent' = << >> /\ log' = << >>
      BY <1>10, <2>2 DEF Return
    <3> QED
      BY <1>0, <2>1, <3>1 DEF SentInv, InTick
  <2>3. CASE call # "Wait"
    <3>1. UNCHANGED << spent, log >>
      BY <1>10, <2>3 DEF Return
    <3> QED
      BY <1>0, <1>1, <2>1, <3>1 DEF InTick
  <2> QED
    BY <2>2, <2>3
<1>11. CASE RunGoesOn \/ Pass
  <2>1. /\ UNCHANGED << spent, log >> /\ pc' \in {"idle", "sleeping"}
        /\ now' \in Nat /\ now' >= now
    BY <1>0, <1>11 DEF RunGoesOn, Pass, Elapse, Calm
  <2> QED
    BY <1>1, <2>1 DEF InTick
<1>12. ASSUME NEW m \in Ids, Watch(m) \/ Acknowledge(m) PROVE SentInv'
  BY <1>2, <1>12 DEF Watch, Acknowledge, Calm
<1>13. CASE CtxDone \/ UNCHANGED vars
  BY <1>2, <1>13 DEF CtxDone
<1> QED
  BY <1>4, <1>5, <1>6, <1>7, <1>8, <1>9, <1>10, <1>11, <1>12, <1>13
     DEF Next, Steps, Replied, Answered, Limited, Disowned, Blip, TickReturns, RunReturns,
         GivesUp

(* No window holds more than the budget of the stamps a poller books its    *)
(* requests under, whatever the contexts of its calls did; nor does one see *)
(* twice the budget leave, however slow the requests are.                  *)
THEOREM BudgetIsKept == Spec => []BudgetKept
<1>1. Init => WindowInv /\ SentInv
  BY BudgetAssumption DEF Init, Unused, WindowInv, SliceIsTail, StampsInWindow, Forgotten,
     Stamp, SentInv, InTick
<1>2. TypeOK /\ TypeOK' /\ WindowInv /\ SentInv /\ [Next]_vars => WindowInv' /\ SentInv'
  BY WindowInvStep, SentStep
<1>3. TypeOK /\ WindowInv /\ SentInv => BudgetKept
  <2> SUFFICES ASSUME TypeOK, WindowInv, SentInv, NEW i \in 1 .. Len(log), NEW j \in 1 .. Len(log),
                      i + 2 * Budget - 1 <= j
               PROVE  log[j].sent - log[i].sent >= Window
    <3>1. DOMAIN log = 1 .. Len(log)
      BY DEF TypeOK
    <3> QED
      BY <3>1 DEF BudgetKept, SentWithinTwice, WindowInv
  <2> DEFINE k == j - Budget
  <2>1. /\ Budget \in Nat /\ Budget > 0 /\ Len(log) \in Nat
        /\ \A n \in 1 .. Len(log) : log[n].at \in Nat /\ log[n].sent \in Nat
        /\ Window \in Nat
    BY SentTypes DEF SentInv
  <2>2. k \in 1 .. Len(log) /\ i + Budget - 1 <= k /\ k + Budget <= j
    BY <2>1
  <2> HIDE DEF k
  <2>3. log[i].sent <= log[k].at
    BY <2>2 DEF SentInv
  <2>4. log[j].at - log[k].at >= Window
    BY <2>2 DEF SentInv
  <2>5. log[j].at <= log[j].sent
    BY DEF SentInv
  <2>6. /\ log[i].sent \in Nat /\ log[j].sent \in Nat
        /\ log[j].at \in Nat /\ log[k].at \in Nat /\ Window \in Nat
    BY <2>1, <2>2
  <2> QED
    BY <2>3, <2>4, <2>5, <2>6, SMTT(30)
<1> QED
  BY <1>1, <1>2, <1>3, TypeCorrect, PTL DEF Spec

-----------------------------------------------------------------------------
(* What take keeps.  The slice is in the order of its stamps, and none of   *)
(* them is ahead of the tick that asks, or of the clock between two ticks:  *)
(* so the stamps after the cutoff are those behind some place of it.        *)

InOrder ==
    /\ \A i, j \in 1 .. Len(spent) : i <= j => spent[i] <= spent[j]
    /\ \A i \in 1 .. Len(spent) : spent[i] <= Stamp

LEMMA CutKeepsOrder ==
    ASSUME TypeOK, InOrder, NEW n \in 0 .. Len(spent)
    PROVE  /\ \A i, j \in 1 .. Len(Kept(n)) : i <= j => Kept(n)[i] <= Kept(n)[j]
           /\ \A i \in 1 .. Len(Kept(n)) : Kept(n)[i] <= Stamp
<1>1. /\ Len(Kept(n)) = Len(spent) - n
      /\ \A k \in 1 .. Len(spent) - n : Kept(n)[k] = spent[n + k]
  BY KeptType DEF TypeOK
<1>2. \A k \in 1 .. Len(spent) - n : n + k \in 1 .. Len(spent)
  BY StampTypes
<1>3. ASSUME NEW i \in 1 .. Len(Kept(n)), NEW j \in 1 .. Len(Kept(n)), i <= j
      PROVE  Kept(n)[i] <= Kept(n)[j]
  <2>1. n + i \in 1 .. Len(spent) /\ n + j \in 1 .. Len(spent) /\ n + i <= n + j
    BY <1>1, <1>2, <1>3
  <2> QED
    BY <1>1, <2>1 DEF InOrder
<1> QED
  BY <1>1, <1>2, <1>3 DEF InOrder

LEMMA OrderStep ==
    ASSUME TypeOK, TypeOK', at <= now, InOrder, [Next]_vars
    PROVE  InOrder'
<1>1. Stamp' >= Stamp /\ Stamp' \in Nat /\ Stamp \in Nat
  BY StampGrows, Bounds DEF TypeOK, Stamp
<1>2. CASE spent' = << >>
  BY <1>2 DEF InOrder
<1>3. CASE UNCHANGED spent
  BY <1>1, <1>3, StampTypes DEF InOrder
<1>4. CASE OverBudget
  <2>1. PICK n \in 0 .. Len(spent) : spent' = Kept(n)
    BY <1>4 DEF OverBudget
  <2>2. Stamp' = Stamp
    BY <1>4 DEF OverBudget, Stamp
  <2> QED
    BY <2>1, <2>2, CutKeepsOrder DEF InOrder
<1>5. ASSUME NEW m \in Ids, Ask(m) PROVE InOrder'
  <2>1. PICK n \in 0 .. Len(spent) : spent' = Append(Kept(n), at)
    BY <1>5 DEF Ask
  <2>2. Stamp' = at /\ Stamp = at
    BY <1>5 DEF Ask, Stamp
  <2>3. Kept(n) \in Seq(Nat) /\ Len(Kept(n)) \in Nat
    BY KeptType DEF TypeOK
  <2>4. /\ Len(spent') = Len(Kept(n)) + 1 /\ spent'[Len(Kept(n)) + 1] = at
        /\ \A i \in 1 .. Len(Kept(n)) : spent'[i] = Kept(n)[i]
    BY <2>1, <2>3
  <2>5. /\ \A i, j \in 1 .. Len(Kept(n)) : i <= j => Kept(n)[i] <= Kept(n)[j]
        /\ \A i \in 1 .. Len(Kept(n)) : Kept(n)[i] <= at
    BY <2>2, CutKeepsOrder
  <2>6. at \in Nat
    BY StampTypes
  <2>7. \A i, j \in 1 .. Len(spent') : i <= j => spent'[i] <= spent'[j]
    <3> SUFFICES ASSUME NEW i \in 1 .. Len(spent'), NEW j \in 1 .. Len(spent'), i <= j
                 PROVE  spent'[i] <= spent'[j]
      OBVIOUS
    <3>1. CASE j = Len(Kept(n)) + 1
      BY <2>3, <2>4, <2>5, <2>6, <3>1
    <3>2. CASE j \in 1 .. Len(Kept(n))
      <4>1. i \in 1 .. Len(Kept(n))
        BY <2>3, <3>2
      <4> QED
        BY <2>4, <2>5, <3>2, <4>1
    <3> QED
      BY <2>3, <2>4, <3>1, <3>2
  <2>8. \A i \in 1 .. Len(spent') : spent'[i] <= Stamp'
    BY <2>2, <2>3, <2>4, <2>5, <2>6
  <2> QED
    BY <2>7, <2>8 DEF InOrder
<1> QED
  BY <1>2, <1>3, <1>4, <1>5, OnlyAskBooks

(* Wherever a tick is, there is one place, and no other, that the stamps    *)
(* take keeps lie behind: it is never stuck, and never has a choice.        *)
TakeStops ==
    \E n \in 0 .. Len(spent) :
        Cut(n, Stamp) /\ \A k \in 0 .. Len(spent) : Cut(k, Stamp) => k = n

THEOREM TakeIsDecided == Spec => []TakeStops
<1>1. Init => InOrder /\ WindowInv
  BY DEF Init, Unused, InOrder, WindowInv, SliceIsTail, StampsInWindow, Forgotten, Stamp
<1>2. TypeOK /\ TypeOK' /\ InOrder /\ WindowInv /\ [Next]_vars => InOrder' /\ WindowInv'
  BY OrderStep, WindowInvStep DEF WindowInv
<1>3. TypeOK /\ InOrder => TakeStops
  <2> SUFFICES ASSUME TypeOK, InOrder
               PROVE  \E n \in 0 .. Len(spent) :
                         /\ Cut(n, Stamp)
                         /\ \A k \in 0 .. Len(spent) : Cut(k, Stamp) => k = n
    BY DEF TakeStops
  <2> DEFINE Old == { i \in 1 .. Len(spent) : ~ (Stamp - spent[i] < Window) }
  <2>1. PICK n \in 0 .. Len(spent) : StopsAt(n, Len(spent), Old)
    BY FrontEnds, StampTypes
  <2>2. ASSUME NEW i \in 1 .. Len(spent), i > n PROVE Stamp - spent[i] < Window
    <3>1. n + 1 \in 1 .. Len(spent) /\ n + 1 <= i /\ n < Len(spent)
      BY <2>2, StampTypes
    <3>2. n + 1 \notin Old
      BY <2>1, <3>1 DEF StopsAt
    <3>3. Stamp - spent[n + 1] < Window
      BY <3>1, <3>2
    <3>4. spent[n + 1] <= spent[i]
      BY <3>1 DEF InOrder
    <3> QED
      BY <3>1, <3>3, <3>4, StampTypes
  <2>3. Cut(n, Stamp)
    <3>1. \A i \in 1 .. n : i \in Old
      BY <2>1 DEF StopsAt
    <3>2. ASSUME NEW i \in 1 .. Len(spent), ~ (i > n) PROVE ~ (Stamp - spent[i] < Window)
      <4>1. i \in 1 .. n
        BY <3>2
      <4> QED
        BY <3>1, <4>1
    <3> QED
      BY <2>2, <3>2 DEF Cut
  <2>4. ASSUME NEW k \in 0 .. Len(spent), Cut(k, Stamp) PROVE k = n
    <3>1. CASE k < n
      <4>1. k + 1 \in 1 .. Len(spent) /\ k + 1 > k /\ ~ (k + 1 > n)
        BY <3>1
      <4> QED
        BY <2>3, <2>4, <4>1 DEF Cut
    <3>2. CASE n < k
      <4>1. n + 1 \in 1 .. Len(spent) /\ n + 1 > n /\ ~ (n + 1 > k)
        BY <3>2
      <4> QED
        BY <2>3, <2>4, <4>1 DEF Cut
    <3> QED
      BY <3>1, <3>2
  <2> QED
    BY <2>3, <2>4
<1> QED
  BY <1>1, <1>2, <1>3, TypeCorrect, PTL DEF Spec
=============================================================================
