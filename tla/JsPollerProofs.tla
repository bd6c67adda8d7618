--------------------------- MODULE JsPollerProofs ---------------------------
(***************************************************************************)
(* What is proved of the JavaScript poller for any number of calls of tick *)
(* and run that overlap on it, and for any messages, budget and times.     *)
(***************************************************************************)
EXTENDS JsPoller, PlaceLemmas

USE DEF poller, history, vars

LEMMA Bounds == /\ Latency \in Nat /\ Horizon \in Nat /\ Interval \in Nat /\ Start \in Nat
                /\ Start <= Horizon /\ None \notin Ids /\ Window \in Nat /\ Budget \in Nat
BY TimeAssumption, BudgetAssumption

LEMMA KeptType ==
    ASSUME spent \in Seq(Nat), NEW n \in 0 .. Len(spent)
    PROVE  /\ Kept(n) \in Seq(Nat)
           /\ Len(Kept(n)) = Len(spent) - n
           /\ \A k \in 1 .. Len(spent) - n : Kept(n)[k] = spent[n + k]
BY DEF Kept

-----------------------------------------------------------------------------
(* The frames of the calls.  A frame is right when it has its type and      *)
(* waits for an answer, or its body, exactly while there is a page it asked *)
(* about.                                                                  *)

Right(f) == f \in Frame /\ (f.pc \in {"awaiting", "reading"} <=> f.asking # None)

Frames == /\ frame \in [Calls -> Frame]
          /\ \A c \in Calls : (frame[c].pc \in {"awaiting", "reading"}) <=> (frame[c].asking # None)

LEMMA RightFrames ==
    ASSUME Frames, NEW c \in Calls, NEW f, Right(f), frame' = [frame EXCEPT ![c] = f]
    PROVE  Frames'
BY DEF Frames, Right

LEMMA EachIsRight == ASSUME Frames, NEW c \in Calls PROVE Right(frame[c])
BY DEF Frames, Right

LEMMA DoneIsRight == /\ Right(Done) /\ Done.pc = "done" /\ Done.asking = None
                     /\ Done.due = {} /\ Done.settled = {} /\ Done.total = {} /\ Done.at = 0
BY DEF Right, Frame, Done

LEMMA TickingIsRight ==
    ASSUME NEW f, Right(f), f.asking = None, open \in SUBSET Ids, now \in Nat
    PROVE  Right(Ticking(f)) /\ Ticking(f).asking = None
BY DEF Right, Frame, Ticking

LEMMA EndedIsRight ==
    ASSUME NEW f, Right(f), f.asking = None
    PROVE  /\ Right([f EXCEPT !.pc = "ticking", !.since = 0])
           /\ Right([f EXCEPT !.since = 0])
           /\ now \in Nat => Right([f EXCEPT !.pc = "sleeping", !.since = now, !.settled = {},
                                             !.total = f.total \cup f.settled])
           /\ \A t \in Nat \cup {None} : Right([f EXCEPT !.call = "run", !.deadline = t])
BY DEF Right, Frame

LEMMA ResumedIsRight ==
    ASSUME NEW f, Right(f), NEW due \in SUBSET Ids, NEW settled \in SUBSET Ids
    PROVE  Right([f EXCEPT !.pc = "ticking", !.asking = None, !.due = due,
                           !.settled = settled, !.since = 0])
BY DEF Right, Frame

LEMMA AskedIsRight ==
    ASSUME NEW f, Right(f), NEW m \in Ids, now \in Nat
    PROVE  Right([f EXCEPT !.pc = "awaiting", !.asking = m, !.due = f.due \ {m},
                           !.since = now])
BY Bounds DEF Right, Frame

LEMMA OutlastingIsRight ==
    ASSUME NEW f, Right(f), f.pc = "awaiting"
    PROVE  Right([f EXCEPT !.pc = "reading", !.since = 0])
BY DEF Right, Frame

LEMMA EmptiedIsRight == ASSUME NEW f, Right(f) PROVE Right([f EXCEPT !.due = {}])
BY DEF Right, Frame

-----------------------------------------------------------------------------
(* The state has its type, whichever calls overlap.                         *)
THEOREM TypeCorrect == Spec => []TypeOK
<1>1. Init => TypeOK
  <2> SUFFICES ASSUME Init PROVE TypeOK
    OBVIOUS
  <2>1. Frames
    BY DoneIsRight DEF Init, Frames, Right
  <2> QED
    BY <2>1, Bounds DEF Init, TypeOK, Frames
<1>2. TypeOK /\ [Next]_vars => TypeOK'
  <2> SUFFICES ASSUME TypeOK, [Next]_vars PROVE TypeOK'
    OBVIOUS
  <2>0. /\ Frames /\ now \in Nat /\ open \in SUBSET Ids
        /\ \A c \in Calls : Right(frame[c])
    <3>1. Frames /\ now \in Nat /\ open \in SUBSET Ids
      BY Bounds DEF TypeOK, Frames
    <3> QED
      BY <3>1, EachIsRight
  <2> USE DEF TypeOK
  <2>1. ASSUME NEW m \in Ids, Watch(m) PROVE TypeOK'
    BY <2>0, <2>1 DEF Watch, Calm
  <2>2. ASSUME NEW m \in Ids, Acknowledge(m) PROVE TypeOK'
    BY <2>2 DEF Acknowledge
  <2>3. ASSUME NEW c \in Calls, CallTick(c) PROVE TypeOK'
    <3>1. Frames'
      BY <2>0, <2>3, DoneIsRight, TickingIsRight, RightFrames DEF CallTick
    <3> QED
      BY <2>3, <3>1 DEF CallTick, Calm, Frames
  <2>4. ASSUME NEW c \in Calls, NEW timeout \in Timeouts, CallRun(c, timeout) PROVE TypeOK'
    <3> DEFINE f == [Ticking(Done) EXCEPT
                        !.call = "run",
                        !.deadline = IF timeout = None THEN None ELSE now + timeout]
    <3>1. Right(Ticking(Done))
      BY <2>0, DoneIsRight, TickingIsRight
    <3>2. Right(f)
      <4>1. Ticking(Done).asking = None
        BY DEF Ticking, Done
      <4>2. (IF timeout = None THEN None ELSE now + timeout) \in Nat \cup {None}
        BY <2>0, TimeAssumption
      <4> QED
        BY <3>1, <4>1, <4>2, EndedIsRight
    <3>3. Frames'
      BY <2>0, <2>4, <3>2, RightFrames DEF CallRun
    <3> QED
      BY <2>4, <3>3 DEF CallRun, Calm, Frames
  <2>5. ASSUME NEW c \in Calls, NEW m \in Ids, Ask(c, m) PROVE TypeOK'
    <3>1. PICK f : /\ f = [frame[c] EXCEPT !.pc = "awaiting", !.asking = m,
                                            !.due = frame[c].due \ {m}, !.since = now]
                   /\ frame' = [frame EXCEPT ![c] = f]
      BY <2>5 DEF Ask
    <3>2. Frames'
      BY <2>0, <3>1, AskedIsRight, RightFrames
    <3>3. spent' \in Seq(Nat)
      BY <2>0, <2>5, KeptType DEF Ask, Taken
    <3>4. page' \in [Ids -> [started : Nat, lastPoll : Nat]]
      BY <2>0, <2>5 DEF Ask, Right, Frame
    <3>5. log' \in Seq(Nat)
      BY <2>0, <2>5 DEF Ask
    <3> QED
      BY <2>5, <3>2, <3>3, <3>4, <3>5 DEF Ask, Calm, Frames
  <2>6. ASSUME NEW c \in Calls, OverBudget(c) PROVE TypeOK'
    <3>1. PICK f : f = [frame[c] EXCEPT !.due = {}] /\ frame' = [frame EXCEPT ![c] = f]
      BY <2>6 DEF OverBudget
    <3>2. Frames'
      BY <2>0, <3>1, EmptiedIsRight, RightFrames
    <3>3. spent' \in Seq(Nat)
      BY <2>6, KeptType DEF OverBudget, Refused
    <3> QED
      BY <2>6, <3>2, <3>3 DEF OverBudget, Calm, Frames
  <2>7. ASSUME NEW c \in Calls, NEW due \in SUBSET Ids, NEW settled \in SUBSET Ids,
               Resume(c, due, settled)
        PROVE  Frames' /\ UNCHANGED << now, answered, page, spent, log >>
    <3>1. Right([frame[c] EXCEPT !.pc = "ticking", !.asking = None, !.due = due,
                                 !.settled = settled, !.since = 0])
      BY <2>0, ResumedIsRight
    <3> QED
      BY <2>0, <2>7, <3>1, RightFrames DEF Resume, Calm
  <2>8. ASSUME NEW c \in Calls, Ending(c)
        PROVE  frame[c].asking \in Ids /\ frame[c].due \in SUBSET Ids
               /\ frame[c].settled \in SUBSET Ids
    BY <2>0, <2>8 DEF Ending, Right, Frame
  <2>9. ASSUME NEW c \in Calls, Answered(c) PROVE TypeOK'
    <3>1. Ending(c)
      BY <2>9 DEF Answered, Resume
    <3>2. Frames' /\ UNCHANGED << now, answered, page, spent, log >>
      <4>1. /\ frame[c].asking \in Ids /\ frame[c].due \in SUBSET Ids
            /\ frame[c].settled \cup {frame[c].asking} \in SUBSET Ids
            /\ frame[c].settled \in SUBSET Ids
        BY <2>8, <3>1
      <4> QED
        BY <2>7, <2>9, <4>1 DEF Answered
    <3>3. seen' \in [Ids -> {"unread", "pending", "done"}] /\ open' \in SUBSET Ids
      BY <2>8, <2>9, <3>1 DEF Answered
    <3>4. gone' \in [owed : SUBSET Ids, disowned : SUBSET Ids, closed : [Ids -> Nat]]
      <4>1. CASE gone' = [gone EXCEPT !.closed[frame[c].asking] = now]
        BY <2>0, <2>8, <3>1, <4>1
      <4>2. CASE gone' = gone
        BY <4>2
      <4> QED
        BY <2>9, <4>1, <4>2 DEF Answered
    <3> QED
      BY <2>9, <3>2, <3>3, <3>4 DEF Answered, Frames
  <2>10. ASSUME NEW c \in Calls, NEW r \in RetryAfters, Limited(c, r) PROVE TypeOK'
    <3>1. Ending(c)
      BY <2>10 DEF Limited, Resume
    <3>2. Frames' /\ UNCHANGED << now, answered, page, spent, log >>
      <4>1. /\ {} \in SUBSET Ids /\ frame[c].due \in SUBSET Ids
            /\ frame[c].settled \in SUBSET Ids
        BY <2>8, <3>1
      <4> QED
        BY <2>7, <2>10, <4>1 DEF Limited
    <3>3. /\ pausedUntil' \in Nat
          /\ limit' \in [by : Calls \cup {None}, since : Nat, until : Nat]
      BY <2>0, <2>10, TimeAssumption DEF Limited
    <3> QED
      BY <2>10, <3>2, <3>3 DEF Limited, Frames
  <2>11. ASSUME NEW c \in Calls, Disowned(c) PROVE TypeOK'
    <3>1. Ending(c)
      BY <2>11 DEF Disowned, Resume
    <3>2. Frames' /\ UNCHANGED << now, answered, page, spent, log >>
      <4>1. /\ {} \in SUBSET Ids /\ frame[c].due \in SUBSET Ids
            /\ frame[c].settled \in SUBSET Ids
        BY <2>8, <3>1
      <4> QED
        BY <2>7, <2>11, <4>1 DEF Disowned
    <3>3. /\ open' \in SUBSET Ids
          /\ gone' \in [owed : SUBSET Ids, disowned : SUBSET Ids, closed : [Ids -> Nat]]
      BY <2>0, <2>8, <2>11, <3>1 DEF Disowned
    <3> QED
      BY <2>11, <3>2, <3>3 DEF Disowned, Frames
  <2>12. ASSUME NEW c \in Calls, Blip(c) PROVE TypeOK'
    <3>1. Ending(c)
      BY <2>12 DEF Blip, Resume
    <3>2. Frames' /\ UNCHANGED << now, answered, page, spent, log >>
      BY <2>7, <2>8, <2>12, <3>1 DEF Blip
    <3> QED
      BY <2>12, <3>2 DEF Blip, Frames
  <2>13. ASSUME NEW c \in Calls, Resolves(c) PROVE TypeOK'
    <3>1. Frames'
      BY <2>0, <2>13, DoneIsRight, RightFrames DEF Resolves
    <3>2. gone' \in [owed : SUBSET Ids, disowned : SUBSET Ids, closed : [Ids -> Nat]]
      BY <2>13 DEF Resolves
    <3> QED
      BY <2>13, <3>1, <3>2 DEF Resolves, Calm, Frames
  <2>14. ASSUME NEW c \in Calls, RunGoesOn(c) PROVE TypeOK'
    <3>1. PICK f : /\ f = [frame[c] EXCEPT !.pc = "sleeping", !.since = now, !.settled = {},
                                            !.total = frame[c].total \cup frame[c].settled]
                   /\ frame' = [frame EXCEPT ![c] = f]
      BY <2>14 DEF RunGoesOn
    <3>2. Frames'
      <4>1. Right(frame[c]) /\ frame[c].asking = None
        BY <2>0, <2>14 DEF Right, RunGoesOn, TickDone
      <4> QED
        BY <2>0, <3>1, <4>1, EndedIsRight, RightFrames
    <3> QED
      BY <2>14, <3>2 DEF RunGoesOn, Calm, Frames
  <2>15. ASSUME NEW c \in Calls, Wake(c) PROVE TypeOK'
    <3>1. Right(frame[c]) /\ frame[c].asking = None
      BY <2>0, <2>15 DEF Wake, Right
    <3>2. Right([frame[c] EXCEPT !.pc = "ticking", !.since = 0])
      BY <3>1, EndedIsRight
    <3>3. Right([Ticking(frame[c]) EXCEPT !.since = 0])
      <4>1. Right(Ticking(frame[c])) /\ Ticking(frame[c]).asking = None
        BY <2>0, <3>1, TickingIsRight
      <4> QED
        BY <4>1, EndedIsRight
    <3>4. Frames'
      BY <2>0, <2>15, <3>2, <3>3, RightFrames DEF Wake
    <3> QED
      BY <2>15, <3>4 DEF Wake, Calm, Frames
  <2>16. CASE Pass
    BY <2>16, Bounds DEF Pass
  <2>18. ASSUME NEW c \in Calls, Outlasts(c) PROVE TypeOK'
    <3>1. Right([frame[c] EXCEPT !.pc = "reading", !.since = 0])
      BY <2>0, <2>18, OutlastingIsRight DEF Outlasts
    <3>2. Frames'
      BY <2>0, <2>18, <3>1, RightFrames DEF Outlasts
    <3> QED
      BY <2>18, <3>2 DEF Outlasts, Calm, Frames
  <2>17. CASE UNCHANGED vars
    BY <2>17
  <2> QED
    BY <2>1, <2>2, <2>3, <2>4, <2>5, <2>6, <2>9, <2>10, <2>11, <2>12, <2>13, <2>14,
       <2>15, <2>16, <2>17, <2>18 DEF Next, Steps, Replied
<1> QED
  BY <1>1, <1>2, PTL DEF Spec

(* take looks at the front of the array again and again.  It stops, with    *)
(* one result, whatever the stamps and the clock: a tick is never held up   *)
(* in its limiter, and the choice of n in the model is none.               *)
TakeStops ==
    \E n \in 0 .. Len(spent) : Expired(n) /\ \A k \in 0 .. Len(spent) : Expired(k) => k = n

THEOREM TakeIsDecided == Spec => []TakeStops
<1>1. TypeOK => TakeStops
  <2> SUFFICES ASSUME TypeOK
               PROVE  \E n \in 0 .. Len(spent) :
                         /\ Expired(n)
                         /\ \A k \in 0 .. Len(spent) : Expired(k) => k = n
    BY DEF TakeStops
  <2> DEFINE P == { i \in 1 .. Len(spent) : now - spent[i] >= Window }
  <2>1. /\ Len(spent) \in Nat /\ Window \in Nat /\ now \in Nat
        /\ \A i \in 1 .. Len(spent) : spent[i] \in Nat
    BY BudgetAssumption, Bounds DEF TypeOK
  <2>2. \A n \in 0 .. Len(spent) : Expired(n) <=> StopsAt(n, Len(spent), P)
    BY <2>1 DEF Expired, StopsAt
  <2> HIDE DEF P
  <2>3. PICK n \in 0 .. Len(spent) : StopsAt(n, Len(spent), P)
    BY <2>1, FrontEnds
  <2>4. \A k \in 0 .. Len(spent) : StopsAt(k, Len(spent), P) => k = n
    BY <2>1, <2>3, FrontEndsOnce
  <2> QED
    BY <2>2, <2>3, <2>4
<1> QED
  BY <1>1, TypeCorrect, PTL

-----------------------------------------------------------------------------
(* The window.  Invariant: no request lies ahead of the clock, and what the *)
(* budget holds is the tail of the requests, the rest a window old.          *)

Forgotten == Len(log) - Len(spent)

WindowInv == /\ Forgotten >= 0
             /\ \A i \in 1 .. Len(log) : log[i] <= now
             /\ \A k \in 1 .. Len(spent) : spent[k] = log[Forgotten + k]
             /\ \A i \in 1 .. Forgotten : now - log[i] >= Window

LEMMA Stamped ==
    ASSUME TypeOK
    PROVE  /\ Len(log) \in Nat /\ Len(spent) \in Nat /\ now \in Nat
           /\ Window \in Nat /\ Budget \in Nat
           /\ \A i \in 1 .. Len(log) : log[i] \in Nat
           /\ \A k \in 1 .. Len(spent) : spent[k] \in Nat
<1>1. log \in Seq(Nat) /\ spent \in Seq(Nat) /\ now \in Nat
  BY Bounds DEF TypeOK
<1> QED
  BY <1>1, Bounds

LEMMA Appended ==
    ASSUME NEW s \in Seq(Nat), NEW x \in Nat
    PROVE  /\ Len(Append(s, x)) = Len(s) + 1
           /\ Append(s, x)[Len(s) + 1] = x
           /\ \A k \in 1 .. Len(s) : Append(s, x)[k] = s[k]
OBVIOUS

LEMMA OnlyAskBooks ==
    ASSUME [Next]_vars
    PROVE  \/ \E c \in Calls, m \in Ids : Ask(c, m)
           \/ \E c \in Calls : OverBudget(c)
           \/ UNCHANGED << spent, log >>
BY DEF Next, Steps, Replied, Watch, CallTick, CallRun, Answered, Limited, Disowned,
       Blip, Resume, Resolves, RunGoesOn, Outlasts, Wake, Pass, Acknowledge

LEMMA ClockGrows == ASSUME TypeOK, [Next]_vars PROVE now' >= now
<1> USE Bounds DEF TypeOK, Calm
<1>1. CASE Pass
  BY <1>1 DEF Pass
<1>2. CASE ~ Pass
  <2>1. now' = now
    BY <1>2 DEF Next, Steps, Replied, Watch, CallTick, CallRun, Ask, OverBudget,
                Answered, Limited, Disowned, Blip, Resume, Resolves, RunGoesOn,
                Outlasts, Wake, Acknowledge
  <2>2. now \in Nat
    OBVIOUS
  <2> QED
    BY <2>1, <2>2
<1> QED
  BY <1>1, <1>2

(* What take shifts off the front is old, as what it shifted before was.     *)
LEMMA ForgottenAreOld ==
    ASSUME TypeOK, WindowInv, NEW n \in 0 .. Len(spent), Expired(n)
    PROVE  \A i \in 1 .. Forgotten + n : now - log[i] >= Window
<1>1. /\ Forgotten \in Nat
      /\ \A k \in 1 .. Len(spent) : spent[k] = log[Forgotten + k]
      /\ \A i \in 1 .. Forgotten : now - log[i] >= Window
  BY Stamped DEF WindowInv, Forgotten
<1> SUFFICES ASSUME NEW i \in 1 .. Forgotten + n, i > Forgotten
             PROVE  now - log[i] >= Window
  BY <1>1
<1> DEFINE k == i - Forgotten
<1>2. k \in 1 .. n /\ k \in 1 .. Len(spent) /\ i = Forgotten + k
  BY <1>1, Stamped
<1>3. spent[k] = log[i]
  BY <1>1, <1>2
<1>4. now - spent[k] >= Window
  BY <1>2 DEF Expired
<1> QED
  BY <1>3, <1>4

(* The budget forgets its first n stamps, and the log grows by the request  *)
(* of the step, if it makes one.                                            *)
LEMMA WindowInvStep == ASSUME TypeOK, TypeOK', WindowInv, [Next]_vars PROVE WindowInv'
<1>1. now' >= now /\ now' \in Nat /\ now \in Nat
  <2>1. now \in Start .. Horizon /\ now' \in Start .. Horizon
    BY DEF TypeOK
  <2> QED
    BY <2>1, ClockGrows, Bounds
<1>2. /\ Forgotten \in Nat /\ Forgotten = Len(log) - Len(spent)
      /\ \A i \in 1 .. Len(log) : log[i] <= now /\ log[i] \in Nat
      /\ \A k \in 1 .. Len(spent) : spent[k] = log[Forgotten + k]
      /\ \A i \in 1 .. Forgotten : now - log[i] >= Window
  BY Stamped DEF WindowInv, Forgotten
<1>3. CASE UNCHANGED << spent, log >>
  <2>1. \A i \in 1 .. Forgotten : now' - log[i] >= Window
    <3> TAKE i \in 1 .. Forgotten
    <3>1. i \in 1 .. Len(log)
      BY <1>2, Stamped
    <3>2. now - log[i] >= Window /\ log[i] \in Nat
      BY <1>2, <3>1
    <3> QED
      BY <1>1, <3>2, Stamped
  <2>2. \A i \in 1 .. Len(log) : log[i] <= now'
    BY <1>1, <1>2
  <2> QED
    BY <1>2, <1>3, <2>1, <2>2 DEF WindowInv, Forgotten
<1>4. ASSUME NEW c \in Calls, OverBudget(c) PROVE WindowInv'
  <2>1. PICK n \in 0 .. Len(spent) : Expired(n) /\ spent' = Kept(n)
    BY <1>4 DEF OverBudget, Refused
  <2>2. log' = log /\ now' = now
    BY <1>4 DEF OverBudget, Calm
  <2>3. /\ Len(spent') = Len(spent) - n
        /\ \A k \in 1 .. Len(spent) - n : spent'[k] = spent[n + k]
    BY <2>1, KeptType DEF TypeOK
  <2>4. Forgotten' = Forgotten + n
    BY <1>2, <2>2, <2>3, Stamped DEF Forgotten
  <2>5. \A k \in 1 .. Len(spent') : spent'[k] = log'[Forgotten' + k]
    <3> TAKE k \in 1 .. Len(spent')
    <3>1. k \in 1 .. Len(spent) - n /\ n + k \in 1 .. Len(spent)
      BY <2>3, Stamped
    <3>2. spent'[k] = log[Forgotten + (n + k)]
      BY <1>2, <2>3, <3>1
    <3>3. Forgotten + (n + k) = Forgotten' + k
      BY <1>2, <2>4, <3>1
    <3> QED
      BY <2>2, <3>2, <3>3
  <2>6. \A i \in 1 .. Forgotten' : now' - log'[i] >= Window
    BY <2>1, <2>2, <2>4, ForgottenAreOld
  <2> QED
    BY <1>2, <2>2, <2>4, <2>5, <2>6 DEF WindowInv
<1>5. ASSUME NEW c \in Calls, NEW m \in Ids, Ask(c, m) PROVE WindowInv'
  <2>1. PICK n \in 0 .. Len(spent) : Expired(n) /\ spent' = Append(Kept(n), now)
    BY <1>5 DEF Ask, Taken
  <2>2. log' = Append(log, now) /\ now' = now
    BY <1>5 DEF Ask, Calm
  <2>3. /\ Len(log') = Len(log) + 1
        /\ log'[Len(log) + 1] = now
        /\ \A i \in 1 .. Len(log) : log'[i] = log[i]
    BY <2>2 DEF TypeOK
  <2>4. /\ Len(spent') = Len(spent) - n + 1
        /\ spent'[Len(spent) - n + 1] = now
        /\ \A k \in 1 .. Len(spent) - n : spent'[k] = spent[n + k]
    <3>1. /\ Kept(n) \in Seq(Nat)
          /\ Len(Kept(n)) = Len(spent) - n
          /\ \A k \in 1 .. Len(spent) - n : Kept(n)[k] = spent[n + k]
      BY KeptType DEF TypeOK
    <3>2. /\ Len(spent') = Len(Kept(n)) + 1
          /\ spent'[Len(Kept(n)) + 1] = now
          /\ \A k \in 1 .. Len(Kept(n)) : spent'[k] = Kept(n)[k]
      BY <1>1, <2>1, <3>1, Appended
    <3> QED
      BY <3>1, <3>2
  <2>5. Forgotten' = Forgotten + n
    <3>1. Forgotten' = Len(log') - Len(spent')
      BY DEF Forgotten
    <3> QED
      BY <1>2, <2>3, <2>4, <3>1, Stamped
  <2>6. \A k \in 1 .. Len(spent') : spent'[k] = log'[Forgotten' + k]
    <3> TAKE k \in 1 .. Len(spent')
    <3>1. CASE k = Len(spent) - n + 1
      <4>1. Forgotten' + k = Len(log) + 1
        BY <1>2, <2>5, <3>1, Stamped
      <4> QED
        BY <2>3, <2>4, <3>1, <4>1
    <3>2. CASE k \in 1 .. Len(spent) - n
      <4>1. n + k \in 1 .. Len(spent) /\ Forgotten + (n + k) \in 1 .. Len(log)
        BY <1>2, <3>2, Stamped
      <4>2. spent'[k] = log[Forgotten + (n + k)]
        BY <1>2, <2>4, <3>2, <4>1
      <4>3. Forgotten + (n + k) = Forgotten' + k
        BY <1>2, <2>5, <3>2
      <4> QED
        BY <2>3, <4>1, <4>2, <4>3
    <3> QED
      BY <2>4, <3>1, <3>2, Stamped
  <2>7. \A i \in 1 .. Forgotten' : now' - log'[i] >= Window
    <3>1. Forgotten' <= Len(log)
      BY <1>2, <2>5, Stamped
    <3> QED
      BY <1>2, <2>1, <2>2, <2>3, <2>5, <3>1, ForgottenAreOld, Stamped
  <2>8. \A i \in 1 .. Len(log') : log'[i] <= now'
    BY <1>1, <1>2, <2>2, <2>3, Stamped
  <2> QED
    BY <1>2, <2>5, <2>6, <2>7, <2>8 DEF WindowInv
<1> QED
  BY <1>3, <1>4, <1>5, OnlyAskBooks

(* The requests of all calls together implement RequestWindow: at most      *)
(* perMinute of them leave in any sixty seconds.                            *)
THEOREM RequestsImplementWindow == Spec => RequestsKeepTheWindow
<1>1. Init => Requests!Init /\ WindowInv
  BY DEF Init, WindowInv, Forgotten, Requests!Init
<1>2. TypeOK /\ TypeOK' /\ WindowInv /\ [Next]_vars
         => WindowInv' /\ [Requests!Next]_log
  <2> SUFFICES ASSUME TypeOK, TypeOK', WindowInv, [Next]_vars
               PROVE  Requests!Next \/ UNCHANGED log
    BY WindowInvStep
  <2>1. ASSUME NEW c \in Calls, NEW m \in Ids, Ask(c, m) PROVE Requests!Next
    <3>1. PICK n \in 0 .. Len(spent) : Expired(n) /\ Len(Kept(n)) < Budget
      BY <2>1 DEF Ask, Taken
    <3>2. log' = Append(log, now) /\ now \in Start .. Horizon
      BY <2>1 DEF Ask, TypeOK
    <3>3. Budget > 0 /\ Len(spent) - n < Budget
      <4>1. Len(Kept(n)) = Len(spent) - n
        BY KeptType DEF TypeOK
      <4> QED
        BY <3>1, <4>1, Stamped
    <3>4. Len(log) > 0 => log[Len(log)] <= now
      BY Stamped DEF WindowInv
    <3>5. Len(log) >= Budget => now - log[Len(log) - Budget + 1] >= Window
      <4> SUFFICES ASSUME Len(log) >= Budget
                   PROVE  now - log[Len(log) - Budget + 1] >= Window
        OBVIOUS
      <4>1. Len(log) - Budget + 1 \in 1 .. Forgotten + n
        BY <3>3, Stamped DEF Forgotten
      <4> QED
        BY <3>1, <4>1, ForgottenAreOld
    <3> QED
      BY <3>2, <3>3, <3>4, <3>5 DEF Requests!Next, Requests!Request
  <2>2. ASSUME NEW c \in Calls, OverBudget(c) PROVE UNCHANGED log
    BY <2>2 DEF OverBudget
  <2> QED
    BY <2>1, <2>2, OnlyAskBooks
<1> QED
  BY <1>1, <1>2, TypeCorrect, PTL DEF Spec, RequestsKeepTheWindow, Requests!Spec
-----------------------------------------------------------------------------
(* The calls that overlap.  Invariant, of each call: it holds results only  *)
(* while it is in flight, its tick did not begin in the future, and what    *)
(* its tick has still to ask about is open, or was closed after the tick    *)
(* began, and is not held up by a pause that was there before it.           *)

Sound(c, f) ==
    /\ f.pc \in {"done", "sleeping"} => f.settled = {}
    /\ f.pc = "done" => f.total = {}
    /\ f.at <= now
    /\ \A m \in f.due : m \in open \/ f.at <= gone.closed[m]
    /\ f.due # {} => now >= limit.until \/ (c # limit.by /\ f.at <= limit.since)

CallsInv == /\ pausedUntil = limit.until /\ limit.since <= now
            /\ \A c \in Calls : Sound(c, frame[c])

LEMMA DoneIsSound == ASSUME NEW c \in Calls, now \in Nat PROVE Sound(c, Done)
BY DoneIsRight DEF Sound

(* A frame that asks about no more than before is as sound as before.       *)
LEMMA LessIsSound ==
    ASSUME NEW c \in Calls, NEW f, NEW g, Sound(c, f), g.at = f.at, g.due \subseteq f.due,
           g.pc \in {"done", "sleeping"} => g.settled = {}, g.pc # "done"
    PROVE  Sound(c, g)
BY DEF Sound

LEMMA TickingIsSound ==
    ASSUME NEW c \in Calls, NEW f, Right(f), now \in Nat, open \in SUBSET Ids,
           pausedUntil = limit.until, pausedUntil \in Nat
    PROVE  /\ Sound(c, Ticking(f)) /\ Ticking(f).pc = "ticking"
           /\ Ticking(f).settled = {} /\ Ticking(f).total = f.total
           /\ Ticking(f).due \subseteq open
<1>1. /\ Ticking(f).pc = "ticking" /\ Ticking(f).at = now
      /\ Ticking(f).settled = {} /\ Ticking(f).total = f.total
      /\ Ticking(f).due \subseteq open
      /\ now < pausedUntil => Ticking(f).due = {}
  BY DEF Ticking, Right, Frame
<1> QED
  BY <1>1 DEF Sound

(* A step of one call that leaves the pages, the clock and the pause alone.  *)
LEMMA OneCallMoves ==
    ASSUME TypeOK, CallsInv, NEW c \in Calls, NEW f, Sound(c, f),
           frame' = [frame EXCEPT ![c] = f],
           UNCHANGED << now, open, gone.closed, pausedUntil, limit >>
    PROVE  CallsInv'
<1> SUFFICES ASSUME NEW d \in Calls PROVE Sound(d, frame[d])'
  BY DEF CallsInv
<1>1. frame'[d] = IF d = c THEN f ELSE frame[d]
  BY DEF TypeOK
<1>2. Sound(d, frame'[d])
  BY <1>1 DEF CallsInv
<1> QED
  BY <1>2 DEF Sound

(* The await of one call is over: it has no more to ask about than before,  *)
(* and no page is closed but now.                                           *)
LEMMA OneCallResumes ==
    ASSUME TypeOK, CallsInv, NEW c \in Calls, NEW due \in SUBSET frame[c].due,
           NEW settled \in SUBSET Ids, Resume(c, due, settled),
           UNCHANGED << pausedUntil, limit >>,
           \A m \in open \ open' : m \in Ids /\ gone'.closed[m] = now,
           \A m \in Ids : gone'.closed[m] \in {now, gone.closed[m]}
    PROVE  CallsInv'
<1> SUFFICES ASSUME NEW d \in Calls PROVE Sound(d, frame[d])'
  BY DEF CallsInv, Resume, Calm
<1>1. PICK g : /\ frame' = [frame EXCEPT ![c] = g]
               /\ g = [frame[c] EXCEPT !.pc = "ticking", !.asking = None, !.due = due,
                                       !.settled = settled, !.since = 0]
  BY DEF Resume
<1>2. g.pc = "ticking" /\ g.at = frame[c].at /\ g.due = due /\ frame[c].at \in Nat
  BY <1>1 DEF TypeOK, Frame
<1>3. Sound(d, frame'[d])
  <2>1. CASE d = c
    <3>1. frame'[d] = g /\ Sound(c, frame[c])
      BY <1>1, <2>1 DEF CallsInv, TypeOK
    <3> QED
      BY <1>2, <2>1, <3>1, LessIsSound
  <2>2. CASE d # c
    BY <1>1, <2>2 DEF CallsInv, TypeOK
  <2> QED
    BY <2>1, <2>2
<1>4. frame'[d] \in Frame /\ now' = now
  <2>1. frame[d] \in Frame /\ g \in Frame
    <3>1. Right(frame[c]) /\ Right(frame[d]) /\ due \in SUBSET Ids
      BY DEF TypeOK, Right, Frame
    <3> QED
      BY <1>1, <3>1, ResumedIsRight DEF Right
  <2> QED
    BY <1>1, <2>1 DEF TypeOK, Resume, Calm
<1>5. \A m \in frame'[d].due : m \in open' \/ frame'[d].at <= gone'.closed[m]
  <2> TAKE m \in frame'[d].due
  <2>1. m \in Ids /\ frame'[d].at <= now
    BY <1>3, <1>4 DEF Sound, Frame
  <2>2. m \in open \/ frame'[d].at <= gone.closed[m]
    BY <1>3 DEF Sound
  <2> QED
    BY <2>1, <2>2
<1> QED
  BY <1>3, <1>4, <1>5 DEF Sound

LEMMA CallsInvInit == Init => CallsInv
<1> SUFFICES ASSUME Init PROVE CallsInv
  OBVIOUS
<1>1. now \in Nat /\ limit.until = 0 /\ limit.since = 0 /\ pausedUntil = 0
  BY Bounds DEF Init
<1>2. \A c \in Calls : frame[c] = Done
  BY DEF Init
<1> QED
  BY <1>1, <1>2, DoneIsSound DEF CallsInv

LEMMA CallsInvStep == TypeOK /\ CallsInv /\ [Next]_vars => CallsInv'
<1> SUFFICES ASSUME TypeOK, CallsInv, [Next]_vars PROVE CallsInv'
  OBVIOUS
<1>0. /\ now \in Nat /\ open \in SUBSET Ids /\ pausedUntil = limit.until /\ pausedUntil \in Nat
      /\ \A c \in Calls : Right(frame[c]) /\ Sound(c, frame[c]) /\ frame[c] \in Frame
  <2>1. now \in Nat
    BY Bounds DEF TypeOK
  <2> QED
    BY <2>1 DEF TypeOK, CallsInv, Right
<1>1. ASSUME NEW m \in Ids, Watch(m) PROVE CallsInv'
  <2>1. /\ open' = open \cup {m} /\ UNCHANGED << now, frame, pausedUntil, limit >>
        /\ \A n \in Ids \ {m} : gone'.closed[n] = gone.closed[n]
    BY <1>1 DEF Watch, Calm, TypeOK
  <2> SUFFICES ASSUME NEW c \in Calls PROVE Sound(c, frame[c])'
    BY <2>1 DEF CallsInv
  <2>2. frame[c].due \subseteq Ids
    BY <1>0 DEF Frame
  <2> QED
    BY <1>0, <2>1, <2>2 DEF Sound
<1>2. ASSUME NEW m \in Ids, Acknowledge(m) PROVE CallsInv'
  BY <1>2 DEF Acknowledge, CallsInv, Sound
<1>3. ASSUME NEW c \in Calls, CallTick(c) PROVE CallsInv'
  <2>1. Sound(c, Ticking(Done))
    BY <1>0, DoneIsRight, TickingIsSound
  <2> QED
    BY <1>3, <2>1, OneCallMoves DEF CallTick, Calm
<1>4. ASSUME NEW c \in Calls, NEW timeout \in Timeouts, CallRun(c, timeout) PROVE CallsInv'
  <2>1. PICK t, f : /\ f = [Ticking(Done) EXCEPT !.call = "run", !.deadline = t]
                    /\ frame' = [frame EXCEPT ![c] = f]
    BY <1>4 DEF CallRun
  <2>2. Sound(c, Ticking(Done)) /\ Ticking(Done).pc = "ticking" /\ Right(Ticking(Done))
    BY <1>0, DoneIsRight, TickingIsSound, TickingIsRight
  <2>3. f.pc = "ticking" /\ f.at = Ticking(Done).at /\ f.due = Ticking(Done).due
    BY <2>1, <2>2 DEF Right, Frame
  <2>4. Sound(c, f)
    BY <2>2, <2>3, LessIsSound
  <2> QED
    BY <1>4, <2>1, <2>4, OneCallMoves DEF CallRun, Calm
<1>5. ASSUME NEW c \in Calls, NEW m \in Ids, Ask(c, m) PROVE CallsInv'
  <2>1. PICK f : /\ f = [frame[c] EXCEPT !.pc = "awaiting", !.asking = m,
                                         !.due = frame[c].due \ {m}, !.since = now]
                 /\ frame' = [frame EXCEPT ![c] = f]
    BY <1>5 DEF Ask
  <2>2. f.pc = "awaiting" /\ f.at = frame[c].at /\ f.due = frame[c].due \ {m}
    BY <1>0, <2>1 DEF Frame
  <2>3. Sound(c, f)
    BY <1>0, <2>2, LessIsSound
  <2> QED
    BY <1>5, <2>1, <2>3, OneCallMoves DEF Ask, Calm
<1>6. ASSUME NEW c \in Calls, OverBudget(c) PROVE CallsInv'
  <2>1. PICK f : f = [frame[c] EXCEPT !.due = {}] /\ frame' = [frame EXCEPT ![c] = f]
    BY <1>6 DEF OverBudget
  <2>2. f.pc = frame[c].pc /\ frame[c].pc = "ticking" /\ f.at = frame[c].at /\ f.due = {}
    BY <1>0, <1>6, <2>1 DEF Frame, OverBudget
  <2>3. Sound(c, f)
    BY <1>0, <2>2, LessIsSound
  <2> QED
    BY <1>6, <2>1, <2>3, OneCallMoves DEF OverBudget, Calm
<1>7. ASSUME NEW c \in Calls, Ending(c)
      PROVE  /\ frame[c].asking \in Ids /\ frame[c].due \in SUBSET frame[c].due
             /\ frame[c].settled \in SUBSET Ids /\ {} \in SUBSET frame[c].due
             /\ frame[c].settled \cup {frame[c].asking} \in SUBSET Ids
  BY <1>0, <1>7 DEF Ending, Right, Frame
<1>8. ASSUME NEW c \in Calls, Answered(c) PROVE CallsInv'
  <2>1. Ending(c) /\ UNCHANGED << pausedUntil, limit >>
    BY <1>8 DEF Answered, Resume
  <2>2. CASE frame[c].asking \in answered
    <3>1. /\ open' = open \ {frame[c].asking}
          /\ gone' = [gone EXCEPT !.closed[frame[c].asking] = now]
      BY <1>8, <2>2 DEF Answered
    <3>2. PICK settled \in SUBSET Ids : Resume(c, frame[c].due, settled)
      BY <1>7, <1>8, <2>1, <2>2 DEF Answered
    <3>3. /\ gone'.closed[frame[c].asking] = now
          /\ \A m \in Ids \ {frame[c].asking} : gone'.closed[m] = gone.closed[m]
      BY <1>7, <2>1, <3>1 DEF TypeOK
    <3>4. /\ \A m \in open \ open' : m \in Ids /\ gone'.closed[m] = now
          /\ \A m \in Ids : gone'.closed[m] \in {now, gone.closed[m]}
      BY <1>0, <3>1, <3>3
    <3> QED
      BY <1>7, <2>1, <3>2, <3>4, OneCallResumes
  <2>3. CASE frame[c].asking \notin answered
    BY <1>7, <1>8, <2>1, <2>3, OneCallResumes DEF Answered
  <2> QED
    BY <2>2, <2>3
<1>9. ASSUME NEW c \in Calls, Disowned(c) PROVE CallsInv'
  <2>1. /\ Ending(c) /\ UNCHANGED << pausedUntil, limit >>
        /\ Resume(c, frame[c].due, frame[c].settled)
        /\ open' = open \ {frame[c].asking}
    BY <1>9 DEF Disowned, Resume
  <2>2. /\ gone'.closed[frame[c].asking] = now
        /\ \A m \in Ids \ {frame[c].asking} : gone'.closed[m] = gone.closed[m]
    BY <1>7, <1>9, <2>1 DEF Disowned, TypeOK
  <2>3. /\ \A m \in open \ open' : m \in Ids /\ gone'.closed[m] = now
        /\ \A m \in Ids : gone'.closed[m] \in {now, gone.closed[m]}
    BY <1>0, <2>1, <2>2
  <2> QED
    BY <1>7, <2>1, <2>3, OneCallResumes
<1>10. ASSUME NEW c \in Calls, Blip(c) PROVE CallsInv'
  <2>1. Ending(c) /\ Resume(c, frame[c].due, frame[c].settled)
        /\ UNCHANGED << open, pausedUntil, limit, gone >>
    BY <1>10 DEF Blip, Resume
  <2> QED
    BY <1>7, <2>1, OneCallResumes
<1>11. ASSUME NEW c \in Calls, NEW r \in RetryAfters, Limited(c, r) PROVE CallsInv'
  <2>1. /\ Ending(c) /\ UNCHANGED << now, open, gone >>
        /\ pausedUntil' = now + r /\ limit' = [by |-> c, since |-> now, until |-> now + r]
    BY <1>11 DEF Limited, Resume, Calm
  <2>2. PICK g : /\ frame' = [frame EXCEPT ![c] = g]
                 /\ g = [frame[c] EXCEPT !.pc = "ticking", !.asking = None, !.due = {},
                                         !.settled = frame[c].settled, !.since = 0]
    BY <1>11 DEF Limited, Resume
  <2>3. g.pc = "ticking" /\ g.at = frame[c].at /\ g.due = {}
    BY <1>0, <2>2 DEF Frame
  <2> SUFFICES ASSUME NEW d \in Calls PROVE Sound(d, frame[d])'
    BY <1>0, <2>1 DEF CallsInv
  <2>4. CASE d = c
    <3>1. frame'[d] = g
      BY <2>2, <2>4 DEF TypeOK
    <3> QED
      BY <1>0, <2>1, <2>3, <2>4, <3>1 DEF Sound
  <2>5. CASE d # c
    <3>1. frame'[d] = frame[d]
      BY <2>2, <2>5 DEF TypeOK
    <3> QED
      BY <1>0, <2>1, <2>5, <3>1 DEF Sound
  <2> QED
    BY <2>4, <2>5
<1>12. ASSUME NEW c \in Calls, Resolves(c) PROVE CallsInv'
  <2>1. UNCHANGED << now, open, gone.closed, pausedUntil, limit >>
    BY <1>12 DEF Resolves, Calm, TypeOK
  <2> QED
    BY <1>0, <1>12, <2>1, DoneIsSound, OneCallMoves DEF Resolves
<1>13. ASSUME NEW c \in Calls, RunGoesOn(c) PROVE CallsInv'
  <2>1. PICK f : /\ f = [frame[c] EXCEPT !.pc = "sleeping", !.since = now, !.settled = {},
                                         !.total = frame[c].total \cup frame[c].settled]
                 /\ frame' = [frame EXCEPT ![c] = f]
    BY <1>13 DEF RunGoesOn
  <2>2. f.pc = "sleeping" /\ f.at = frame[c].at /\ f.due = frame[c].due /\ f.settled = {}
    BY <1>0, <2>1 DEF Frame
  <2>3. Sound(c, f)
    BY <1>0, <2>2, LessIsSound
  <2> QED
    BY <1>13, <2>1, <2>3, OneCallMoves DEF RunGoesOn, Calm
<1>14. ASSUME NEW c \in Calls, Wake(c) PROVE CallsInv'
  <2>1. frame[c].asking = None /\ UNCHANGED << now, open, gone, pausedUntil, limit >>
    BY <1>0, <1>14 DEF Wake, Right, Calm
  <2>2. CASE open = {}
    <3>1. PICK f : /\ f = [frame[c] EXCEPT !.pc = "ticking", !.since = 0]
                   /\ frame' = [frame EXCEPT ![c] = f]
      BY <1>14, <2>2 DEF Wake
    <3>2. f.pc = "ticking" /\ f.at = frame[c].at /\ f.due = frame[c].due
      BY <1>0, <3>1 DEF Frame
    <3>3. Sound(c, f)
      BY <1>0, <3>2, LessIsSound
    <3> QED
      BY <2>1, <3>1, <3>3, OneCallMoves
  <2>3. CASE open # {}
    <3>1. PICK f : /\ f = [Ticking(frame[c]) EXCEPT !.since = 0]
                   /\ frame' = [frame EXCEPT ![c] = f]
      BY <1>14, <2>3 DEF Wake
    <3>2. /\ Sound(c, Ticking(frame[c])) /\ Right(Ticking(frame[c]))
          /\ Ticking(frame[c]).pc = "ticking"
      BY <1>0, <2>1, TickingIsSound, TickingIsRight
    <3>3. f.pc = "ticking" /\ f.at = Ticking(frame[c]).at /\ f.due = Ticking(frame[c]).due
      BY <3>1, <3>2 DEF Right, Frame
    <3>4. Sound(c, f)
      BY <3>2, <3>3, LessIsSound
    <3> QED
      BY <2>1, <3>1, <3>4, OneCallMoves
  <2> QED
    BY <2>2, <2>3
<1>15. CASE Pass
  <2>1. now' = now + 1 /\ UNCHANGED << open, gone, pausedUntil, limit, frame >>
    BY <1>15 DEF Pass
  <2>2. limit.since \in Nat /\ limit.until \in Nat
    BY DEF TypeOK
  <2> SUFFICES ASSUME NEW c \in Calls PROVE Sound(c, frame[c])'
    BY <1>0, <2>1, <2>2 DEF CallsInv
  <2>3. frame[c].at \in Nat
    BY <1>0 DEF Frame
  <2> QED
    BY <1>0, <2>1, <2>2, <2>3 DEF Sound
<1>16. CASE UNCHANGED vars
  BY <1>16 DEF CallsInv, Sound
<1>17. ASSUME NEW c \in Calls, Outlasts(c) PROVE CallsInv'
  <2>1. PICK f : /\ f = [frame[c] EXCEPT !.pc = "reading", !.since = 0]
                 /\ frame' = [frame EXCEPT ![c] = f]
    BY <1>17 DEF Outlasts
  <2>2. f.pc = "reading" /\ f.at = frame[c].at /\ f.due = frame[c].due
    BY <1>0, <2>1 DEF Frame
  <2>3. Sound(c, f)
    BY <1>0, <2>2, LessIsSound
  <2> QED
    BY <1>17, <2>1, <2>3, OneCallMoves DEF Outlasts, Calm
<1> QED
  BY <1>1, <1>2, <1>3, <1>4, <1>5, <1>6, <1>8, <1>9, <1>10, <1>11, <1>12, <1>13, <1>14,
     <1>15, <1>16, <1>17 DEF Next, Steps, Replied

LEMMA CallsAreSound == Spec => [](TypeOK /\ CallsInv)
<1> QED
  BY CallsInvInit, CallsInvStep, TypeCorrect, PTL DEF Spec

(* Only Ask sends, and it asks about a page of the call's own tick.          *)
LEMMA OnlyAskSends ==
    ASSUME TypeOK, [Next]_vars, NEW c \in Calls, Sends(c)
    PROVE  \E m \in frame[c].due : frame'[c].asking = m
<1>1. \E m \in Ids : Ask(c, m)
  <2> SUFFICES ASSUME \A m \in Ids : ~ Ask(c, m) PROVE FALSE
    OBVIOUS
  <2>0. frame[c].pc = "ticking" /\ frame'[c].pc = "awaiting"
    BY DEF Sends
  <2>1. ~ Free
    BY <2>0 DEF Free
  <2>2. frame'[c] # frame[c]
    BY <2>0
  <2>3. \E d \in Calls : \/ \E m \in Ids : Ask(d, m)
                         \/ OverBudget(d) \/ Resolves(d) \/ RunGoesOn(d)
    BY <2>1, <2>2 DEF Next, Steps, Replied, Watch, CallTick, CallRun, Answered, Limited,
                     Disowned, Blip, Resume, Outlasts, Wake, Pass, Acknowledge
  <2>4. PICK d \in Calls : \/ \E m \in Ids : Ask(d, m)
                           \/ OverBudget(d) \/ Resolves(d) \/ RunGoesOn(d)
    BY <2>3
  <2>5. PICK f : frame' = [frame EXCEPT ![d] = f]
    BY <2>4 DEF Ask, OverBudget, Resolves, RunGoesOn
  <2>6. d = c
    BY <2>2, <2>5 DEF TypeOK
  <2>7. OverBudget(c) \/ Resolves(c) \/ RunGoesOn(c)
    BY <2>4, <2>6
  <2>8. frame[c] \in Frame
    BY DEF TypeOK
  <2>9. CASE OverBudget(c)
    BY <2>0, <2>8, <2>9 DEF OverBudget, Frame, TypeOK
  <2>10. CASE Resolves(c)
    BY <2>0, <2>10, DoneIsRight DEF Resolves, TypeOK
  <2>11. CASE RunGoesOn(c)
    BY <2>0, <2>8, <2>11 DEF RunGoesOn, Frame, TypeOK
  <2> QED
    BY <2>7, <2>9, <2>10, <2>11
<1>2. PICK m \in Ids : Ask(c, m)
  BY <1>1
<1>3. PICK f : /\ f = [frame[c] EXCEPT !.pc = "awaiting", !.asking = m,
                                       !.due = frame[c].due \ {m}, !.since = now]
               /\ frame' = [frame EXCEPT ![c] = f]
  BY <1>2 DEF Ask
<1>4. f.asking = m
  BY <1>3 DEF TypeOK, Frame
<1>5. frame'[c] = f
  BY <1>3 DEF TypeOK
<1>6. m \in frame[c].due
  BY <1>2 DEF Ask
<1> QED
  BY <1>4, <1>5, <1>6

(* A page that was closed is asked about only by a tick that was under way, *)
(* in another call, when it was.                                            *)
THEOREM ClosedIsLeftAlone == Spec => StopsWhenSettled
<1>1. TypeOK /\ CallsInv /\ [Next]_vars =>
        \A c \in Calls : Sends(c) =>
            frame'[c].asking \in open \/ frame[c].at <= gone.closed[frame'[c].asking]
  BY OnlyAskSends DEF CallsInv, Sound
<1> QED
  BY <1>1, CallsAreSound, PTL DEF Spec, StopsWhenSettled

(* After a 429, and until its pause is over, only the ticks that were under *)
(* way in other calls still ask.                                            *)
THEOREM PauseIsKept == Spec => PauseStopsTicks
<1>1. TypeOK /\ CallsInv /\ [Next]_vars =>
        \A c \in Calls : Sends(c) =>
            \/ now >= limit.until
            \/ c # limit.by /\ frame[c].at <= limit.since
  BY OnlyAskSends DEF CallsInv, Sound
<1> QED
  BY <1>1, CallsAreSound, PTL DEF Spec, PauseStopsTicks
-----------------------------------------------------------------------------
(* What the calls hold for the program.                                     *)

Results == UNION { frame[c].settled \cup frame[c].total : c \in Calls }

(* A step of one call loses no result but what that call no longer holds.   *)
LEMMA ResultsMove ==
    ASSUME frame \in [Calls -> Frame], NEW c \in Calls, NEW f,
           frame' = [frame EXCEPT ![c] = f], NEW lost,
           frame[c].settled \cup frame[c].total \subseteq f.settled \cup f.total \cup lost
    PROVE  /\ Results \subseteq Results' \cup lost
           /\ f.settled \cup f.total \subseteq Results'
<1>1. \A d \in Calls : frame'[d] = IF d = c THEN f ELSE frame[d]
  OBVIOUS
<1>2. f.settled \cup f.total \subseteq Results'
  BY <1>1 DEF Results
<1>3. ASSUME NEW m \in Results, m \notin lost PROVE m \in Results'
  <2>1. PICK d \in Calls : m \in frame[d].settled \cup frame[d].total
    BY DEF Results
  <2>2. CASE d = c
    BY <1>2, <1>3, <2>1, <2>2
  <2>3. CASE d # c
    BY <1>1, <2>1, <2>3 DEF Results
  <2> QED
    BY <2>2, <2>3
<1> QED
  BY <1>2, <1>3

(* A page that was watched and not reported is open, was disowned, or is in *)
(* the results of a call in flight, whichever call found it settled.         *)
THEOREM NothingIsLost == Spec => []NothingLost
<1> USE DEF NothingLost
<1>1. Init => NothingLost
  BY DEF Init
<1>2. TypeOK /\ CallsInv /\ NothingLost /\ [Next]_vars => NothingLost'
  <2> SUFFICES ASSUME TypeOK, CallsInv, NothingLost, [Next]_vars PROVE NothingLost'
    OBVIOUS
  <2>0. /\ gone.owed \subseteq open \cup gone.disowned \cup Results
        /\ frame \in [Calls -> Frame]
        /\ \A c \in Calls : frame[c] \in Frame /\ Sound(c, frame[c])
    BY DEF Results, TypeOK, CallsInv
  <2> SUFFICES gone'.owed \subseteq open' \cup gone'.disowned \cup Results'
    BY DEF Results
  <2>1. ASSUME NEW m \in Ids, Watch(m)
        PROVE  gone'.owed \subseteq open' \cup gone'.disowned \cup Results'
    <3>1. /\ gone'.owed = gone.owed \cup {m} /\ gone'.disowned = gone.disowned \ {m}
          /\ open' = open \cup {m} /\ frame' = frame
      BY <2>1 DEF Watch, TypeOK
    <3> QED
      BY <2>0, <3>1 DEF Results
  <2>2. CASE Pass \/ (\E m \in Ids : Acknowledge(m)) \/ UNCHANGED vars
    BY <2>0, <2>2 DEF Pass, Acknowledge, Results
  <2>3. ASSUME NEW c \in Calls, NEW f, frame' = [frame EXCEPT ![c] = f],
               frame[c].settled \cup frame[c].total \subseteq f.settled \cup f.total,
               UNCHANGED << open, gone >>
        PROVE  gone'.owed \subseteq open' \cup gone'.disowned \cup Results'
    BY <2>0, <2>3, ResultsMove
  <2>4. ASSUME NEW c \in Calls, CallTick(c)
        PROVE  gone'.owed \subseteq open' \cup gone'.disowned \cup Results'
    <3>1. frame[c].settled = {} /\ frame[c].total = {}
      BY <2>0, <2>4 DEF CallTick, Sound
    <3> QED
      BY <2>3, <2>4, <3>1 DEF CallTick
  <2>5. ASSUME NEW c \in Calls, NEW timeout \in Timeouts, CallRun(c, timeout)
        PROVE  gone'.owed \subseteq open' \cup gone'.disowned \cup Results'
    <3>1. frame[c].settled = {} /\ frame[c].total = {}
      BY <2>0, <2>5 DEF CallRun, Sound
    <3> QED
      BY <2>3, <2>5, <3>1 DEF CallRun
  <2>6. ASSUME NEW c \in Calls, NEW m \in Ids, Ask(c, m)
        PROVE  gone'.owed \subseteq open' \cup gone'.disowned \cup Results'
    <3>1. PICK f : /\ f = [frame[c] EXCEPT !.pc = "awaiting", !.asking = m,
                                           !.due = frame[c].due \ {m}, !.since = now]
                   /\ frame' = [frame EXCEPT ![c] = f]
      BY <2>6 DEF Ask
    <3>2. f.settled = frame[c].settled /\ f.total = frame[c].total
      BY <2>0, <3>1 DEF Frame
    <3> QED
      BY <2>3, <2>6, <3>1, <3>2 DEF Ask
  <2>7. ASSUME NEW c \in Calls, OverBudget(c)
        PROVE  gone'.owed \subseteq open' \cup gone'.disowned \cup Results'
    <3>1. PICK f : f = [frame[c] EXCEPT !.due = {}] /\ frame' = [frame EXCEPT ![c] = f]
      BY <2>7 DEF OverBudget
    <3>2. f.settled = frame[c].settled /\ f.total = frame[c].total
      BY <2>0, <3>1 DEF Frame
    <3> QED
      BY <2>3, <2>7, <3>1, <3>2 DEF OverBudget
  <2>8. ASSUME NEW c \in Calls, NEW due, NEW settled, Resume(c, due, settled),
               frame[c].settled \subseteq settled
        PROVE  Results \subseteq Results' /\ settled \subseteq Results'
    <3>1. PICK f : /\ f = [frame[c] EXCEPT !.pc = "ticking", !.asking = None, !.due = due,
                                           !.settled = settled, !.since = 0]
                   /\ frame' = [frame EXCEPT ![c] = f]
      BY <2>8 DEF Resume
    <3>2. f.settled = settled /\ f.total = frame[c].total
      BY <2>0, <3>1 DEF Frame
    <3> DEFINE none == {}
    <3>3. frame[c].settled \cup frame[c].total \subseteq f.settled \cup f.total \cup none
      BY <2>8, <3>2
    <3>4. Results \subseteq Results' \cup none /\ f.settled \cup f.total \subseteq Results'
      <4>1. frame' = [frame EXCEPT ![c] = f]
        BY <3>1
      <4> HIDE DEF none
      <4> QED
        BY <2>0, <3>3, <4>1, ResultsMove
    <3> QED
      BY <3>2, <3>4
  <2>9. ASSUME NEW c \in Calls, Answered(c)
        PROVE  gone'.owed \subseteq open' \cup gone'.disowned \cup Results'
    <3>1. gone'.owed = gone.owed /\ gone'.disowned = gone.disowned
      BY <2>9 DEF Answered, TypeOK
    <3>2. CASE frame[c].asking \in answered
      <4>1. Results \subseteq Results' /\ frame[c].asking \in Results'
        BY <2>8, <2>9, <3>2 DEF Answered
      <4>2. open' = open \ {frame[c].asking}
        BY <2>9, <3>2 DEF Answered
      <4> QED
        BY <2>0, <3>1, <4>1, <4>2
    <3>3. CASE frame[c].asking \notin answered
      <4>1. Results \subseteq Results' /\ open' = open
        BY <2>8, <2>9, <3>3 DEF Answered
      <4> QED
        BY <2>0, <3>1, <4>1
    <3> QED
      BY <3>2, <3>3
  <2>10. ASSUME NEW c \in Calls, Disowned(c)
         PROVE  gone'.owed \subseteq open' \cup gone'.disowned \cup Results'
    <3>1. Results \subseteq Results' /\ open' = open \ {frame[c].asking}
      BY <2>8, <2>10 DEF Disowned
    <3>2. gone'.owed = gone.owed /\ gone'.disowned = gone.disowned \cup {frame[c].asking}
      BY <2>10 DEF Disowned, TypeOK
    <3> QED
      BY <2>0, <3>1, <3>2
  <2>11. ASSUME NEW c \in Calls, Blip(c) \/ \E r \in RetryAfters : Limited(c, r)
         PROVE  gone'.owed \subseteq open' \cup gone'.disowned \cup Results'
    <3>1. Results \subseteq Results' /\ UNCHANGED << open, gone >>
      BY <2>8, <2>11 DEF Blip, Limited
    <3> QED
      BY <2>0, <3>1
  <2>12. ASSUME NEW c \in Calls, Resolves(c)
         PROVE  gone'.owed \subseteq open' \cup gone'.disowned \cup Results'
    <3>1. /\ gone'.owed = gone.owed \ (frame[c].settled \cup frame[c].total)
          /\ gone'.disowned = gone.disowned /\ open' = open
      BY <2>12 DEF Resolves, TypeOK
    <3> DEFINE reported == frame[c].settled \cup frame[c].total
    <3>2. frame[c].settled \cup frame[c].total
             \subseteq Done.settled \cup Done.total \cup reported
      OBVIOUS
    <3>3. Results \subseteq Results' \cup reported
      <4>1. frame' = [frame EXCEPT ![c] = Done]
        BY <2>12 DEF Resolves
      <4> HIDE DEF reported
      <4> QED
        BY <2>0, <3>2, <4>1, ResultsMove
    <3> QED
      BY <2>0, <3>1, <3>3
  <2>13. ASSUME NEW c \in Calls, RunGoesOn(c)
         PROVE  gone'.owed \subseteq open' \cup gone'.disowned \cup Results'
    <3>1. PICK f : /\ f = [frame[c] EXCEPT !.pc = "sleeping", !.since = now, !.settled = {},
                                           !.total = frame[c].total \cup frame[c].settled]
                   /\ frame' = [frame EXCEPT ![c] = f]
      BY <2>13 DEF RunGoesOn
    <3>2. f.total = frame[c].total \cup frame[c].settled
      BY <2>0, <3>1 DEF Frame
    <3> QED
      BY <2>3, <2>13, <3>1, <3>2 DEF RunGoesOn
  <2>14. ASSUME NEW c \in Calls, Wake(c)
         PROVE  gone'.owed \subseteq open' \cup gone'.disowned \cup Results'
    <3>1. frame[c].settled = {} /\ UNCHANGED << open, gone >>
      BY <2>0, <2>14 DEF Wake, Sound
    <3>2. CASE open = {}
      <4>1. PICK f : /\ f = [frame[c] EXCEPT !.pc = "ticking", !.since = 0]
                     /\ frame' = [frame EXCEPT ![c] = f]
        BY <2>14, <3>2 DEF Wake
      <4>2. f.total = frame[c].total
        BY <2>0, <4>1 DEF Frame
      <4> QED
        BY <2>3, <3>1, <4>1, <4>2
    <3>3. CASE open # {}
      <4>1. PICK f : /\ f = [Ticking(frame[c]) EXCEPT !.since = 0]
                     /\ frame' = [frame EXCEPT ![c] = f]
        BY <2>14, <3>3 DEF Wake
      <4>2. f.total = frame[c].total
        BY <2>0, <4>1 DEF Frame, Ticking
      <4> QED
        BY <2>3, <3>1, <4>1, <4>2
    <3> QED
      BY <3>2, <3>3
  <2>15. ASSUME NEW c \in Calls, Outlasts(c)
         PROVE  gone'.owed \subseteq open' \cup gone'.disowned \cup Results'
    <3>1. PICK f : /\ f = [frame[c] EXCEPT !.pc = "reading", !.since = 0]
                   /\ frame' = [frame EXCEPT ![c] = f]
      BY <2>15 DEF Outlasts
    <3>2. f.settled = frame[c].settled /\ f.total = frame[c].total
      BY <2>0, <3>1 DEF Frame
    <3> QED
      BY <2>3, <2>15, <3>1, <3>2 DEF Outlasts
  <2> QED
    BY <2>1, <2>2, <2>4, <2>5, <2>6, <2>7, <2>9, <2>10, <2>11, <2>12, <2>13, <2>14, <2>15
       DEF Next, Steps, Replied
<1> QED
  BY <1>1, <1>2, CallsAreSound, PTL DEF Spec
=============================================================================
