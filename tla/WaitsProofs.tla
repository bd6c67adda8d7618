---------------------------- MODULE WaitsProofs ----------------------------
(***************************************************************************)
(* What is proved of waits that share a key: for any number of them, about *)
(* any messages, of any of the three clients, whatever the ladder, the     *)
(* budget, the latency, Mast's limit and what Retry-After says.            *)
(***************************************************************************)
EXTENDS Waits, PlaceLemmas, TLAPS

LEMMA Bounds ==
    /\ Slow \in Nat /\ Slowest \in Nat /\ Latency \in Nat /\ Horizon \in Nat
    /\ Fast \in Nat /\ Interval \in Nat /\ Window \in Nat /\ Budget \in Nat
    /\ Fast > 0 /\ Interval > 0 /\ Window > 0 /\ Budget > 0
    /\ Fast <= Slow /\ Slow <= Slowest
BY LadderAssumption

LEMMA Unknown == /\ None \notin Int /\ None \notin Texts /\ None \notin States
                 /\ "acked" \in Texts /\ "acked" \in Terminal
BY ServerAssumption DEF Terminal

-----------------------------------------------------------------------------
(* What a poller has, and the invariant of one wait.                        *)

Verdicts == States \cup {"other"}

Reply == [kind : {"status"}, what : Verdicts] \cup [kind : {"limited"}, what : Headers]
         \cup [kind : {"unknown"}, what : {None}]

Poll == [pc : Waiting \cup {"called"}, at : Int, started : Int, lastPoll : Int,
         pausedUntil : Int, told : Int, spent : Seq(Int), reply : Reply \cup {None},
         open : BOOLEAN, last : Verdicts \cup {None}, error : BOOLEAN,
         deadline : Int \cup {None}]

(* The stamps of a poller lie a rung of the ladder apart.                   *)
Spaced(s) == \A i, k \in 1 .. Len(s) : i <= k => s[k] - s[i] >= (k - i) * Fast

(* A wait that is out, at the time t.                                       *)
Running(p, t) ==
    /\ p.open /\ ~ p.error /\ p.last \notin Terminal
    /\ p.told <= p.pausedUntil /\ p.lastPoll <= t
    /\ Len(p.spent) <= Budget /\ Spaced(p.spent)
    /\ \A i \in 1 .. Len(p.spent) : p.spent[i] <= p.lastPoll

(* The time t is at most so long after the page turned final and the wait   *)
(* last went without an answer.                                            *)
Within(t, turned, from, slack) == turned # None => t <= Later(turned, from) + slack

Before(t, deadline, slack) == deadline # None => t < deadline + slack

(* What is on its way says what Mast said when it left, after the request.  *)
Truthful(p, turned, said) ==
    p.reply # None /\ p.reply.kind = "status" =>
        IF p.reply.what \in Terminal THEN turned # None /\ p.reply.what = said
        ELSE turned # None => p.lastPoll <= turned

Awaiting(p, turned, said, from, t) ==
    /\ Running(p, t) /\ Truthful(p, turned, said)
    /\ p.at = p.lastPoll + Latency /\ t <= p.at
    /\ p.pausedUntil <= p.lastPoll /\ p.pausedUntil <= from
    /\ Within(p.lastPoll, turned, from, Longest + Interval)
    /\ Before(p.lastPoll, p.deadline, Interval)

Sleeping(p, turned, from, t) ==
    /\ Running(p, t) /\ p.reply = None
    /\ t <= p.at /\ p.at <= t + Interval
    /\ p.pausedUntil <= from
    /\ Within(p.lastPoll, turned, from, 0)
    /\ Within(p.at, turned, from, Longest + Interval)
    /\ Before(p.at, p.deadline, Interval)

Returned(p, turned, said, from, t) ==
    /\ p.reply = None /\ p.spent = << >> /\ p.at <= t
    /\ Before(p.at, p.deadline, Interval + Latency)
    /\ p.last \in Terminal => turned # None /\ turned <= p.at /\ p.last = said
    /\ p.last \notin Terminal /\ ~ p.error =>
          /\ p.deadline # None /\ p.at >= p.deadline
          /\ turned # None /\ turned <= p.at =>
                p.at <= Later(turned, from) + Longest + Interval + Latency

Good(p, turned, said, from, t) ==
    /\ p \in Poll /\ p.pc \in Waiting
    /\ p.pc = "idle" => p.reply = None /\ ~ p.error /\ p.told = 0 /\ p.spent = << >>
    /\ p.pc = "awaiting" => Awaiting(p, turned, said, from, t)
    /\ p.pc = "sleeping" => Sleeping(p, turned, from, t)
    /\ p.pc = "done" => Returned(p, turned, said, from, t)

(* A page of Mast's, at the time t: when it turned final, and its state.    *)
Mast(turned, said, t) ==
    /\ said \in Texts
    /\ turned # None <=> said \in Terminal
    /\ turned # None => turned \in Nat /\ turned <= t

IInv == /\ now \in 0 .. Horizon
        /\ state \in [Messages -> Texts] /\ final \in [Messages -> Nat \cup {None}]
        /\ wait \in [Callers -> Poll] /\ crossed \in [Callers -> Int]
        /\ \A m \in Messages : Mast(final[m], state[m], now)
        /\ \A w \in Callers :
              Good(wait[w], final[About[w]], state[About[w]], crossed[w], now)

-----------------------------------------------------------------------------
(* The ladder, and what may hold a poll back.                               *)

LEMMA EveryBetween ==
    ASSUME NEW age \in Int
    PROVE  Every(age) \in Nat /\ Fast <= Every(age) /\ Every(age) <= Slowest
BY LadderAssumption DEF Every

LEMMA LongestIs ==
    Longest \in Nat /\ Slowest <= Longest /\ Latency <= Longest /\ Spread <= Longest
<1> DEFINE S == {Slowest, Latency, Spread}
<1>1. Spread \in Nat /\ Slowest \in Nat /\ Latency \in Nat
  BY Bounds DEF Spread
<1> HIDE DEF Spread
<1>2. \E t \in S : \A u \in S : u <= t
  BY <1>1
<1>3. Longest \in S /\ \A u \in S : u <= Longest
  BY <1>2 DEF Longest
<1> QED
  BY <1>1, <1>3

LEMMA LaterIs ==
    ASSUME NEW turned \in Int, NEW from \in Int
    PROVE  Later(turned, from) \in Int /\ turned <= Later(turned, from) /\ from <= Later(turned, from)
BY DEF Later

(* Stamps that lie a rung apart still do when old ones are dropped and one  *)
(* is added a rung after the last.                                         *)

LEMMA OneMore == ASSUME NEW a \in Int, NEW b \in Int PROVE (a + 1) * b = a * b + b
OBVIOUS

LEMMA Widened ==
    ASSUME NEW x \in Int, NEW y \in Int, NEW z \in Int, NEW d \in Int, NEW f \in Int,
           y - x >= d, z - y >= f
    PROVE  z - x >= d + f
OBVIOUS

LEMMA KeptIs ==
    ASSUME NEW p, p.spent \in Seq(Int), NEW n \in 0 .. Len(p.spent)
    PROVE  /\ Kept(p, n) \in Seq(Int)
           /\ Len(Kept(p, n)) = Len(p.spent) - n
           /\ \A k \in 1 .. Len(p.spent) - n : Kept(p, n)[k] = p.spent[n + k]
BY DEF Kept

LEMMA KeptIsSpaced ==
    ASSUME NEW p, p.spent \in Seq(Int), NEW n \in 0 .. Len(p.spent), Spaced(p.spent)
    PROVE  Spaced(Kept(p, n))
<1> SUFFICES ASSUME NEW i \in 1 .. Len(p.spent) - n, NEW k \in 1 .. Len(p.spent) - n, i <= k
             PROVE  Kept(p, n)[k] - Kept(p, n)[i] >= (k - i) * Fast
  BY KeptIs DEF Spaced
<1>1. n + i \in 1 .. Len(p.spent) /\ n + k \in 1 .. Len(p.spent) /\ n + i <= n + k
  OBVIOUS
<1>2. p.spent[n + k] - p.spent[n + i] >= ((n + k) - (n + i)) * Fast
  BY <1>1 DEF Spaced
<1>3. (n + k) - (n + i) = k - i
  OBVIOUS
<1> QED
  BY <1>2, <1>3, KeptIs

LEMMA AppendedIsSpaced ==
    ASSUME NEW s \in Seq(Int), Spaced(s), NEW t \in Int,
           \A i \in 1 .. Len(s) : t - s[i] >= Fast
    PROVE  Spaced(Append(s, t))
<1> DEFINE r == Append(s, t)
<1>1. /\ Len(s) \in Nat /\ Len(r) = Len(s) + 1 /\ r[Len(s) + 1] = t
      /\ \A i \in 1 .. Len(s) : r[i] = s[i] /\ s[i] \in Int
  OBVIOUS
<1>2. Fast \in Nat
  BY Bounds
<1> SUFFICES ASSUME NEW i \in 1 .. Len(r), NEW k \in 1 .. Len(r), i <= k
             PROVE  r[k] - r[i] >= (k - i) * Fast
  BY DEF Spaced
<1> HIDE DEF r
<1>3. CASE k <= Len(s)
  <2>1. i \in 1 .. Len(s) /\ k \in 1 .. Len(s)
    BY <1>1, <1>3
  <2>2. s[k] - s[i] >= (k - i) * Fast
    BY <2>1 DEF Spaced
  <2> QED
    BY <1>1, <2>1, <2>2
<1>4. CASE k = Len(s) + 1 /\ i = k
  <2>1. r[k] - r[i] = 0 /\ (k - i) * Fast = 0
    BY <1>1, <1>2, <1>4
  <2> QED
    BY <2>1
<1>5. CASE k = Len(s) + 1 /\ i < k
  <2> DEFINE l == Len(s)
             a == l - i
  <2>1. i \in 1 .. l /\ l \in 1 .. l /\ i <= l /\ k - i = a + 1 /\ a \in Int
    BY <1>1, <1>5
  <2>2. s[l] - s[i] >= a * Fast
    BY <2>1 DEF Spaced
  <2>3. t - s[l] >= Fast
    BY <2>1
  <2>4. (k - i) * Fast = a * Fast + Fast
    BY <1>2, <2>1, OneMore
  <2>5. a * Fast \in Int /\ s[l] \in Int /\ s[i] \in Int
    BY <1>1, <1>2, <2>1
  <2>6. r[k] = t /\ r[i] = s[i]
    BY <1>1, <1>5, <2>1
  <2> HIDE DEF a, l
  <2>7. t - s[i] >= a * Fast + Fast
    BY <1>2, <2>2, <2>3, <2>5, Widened
  <2> QED
    BY <2>4, <2>6, <2>7
<1> QED
  BY <1>1, <1>3, <1>4, <1>5

(* A poll that is due and finds no room comes within a window of the last:  *)
(* and it never does when the ladder alone spaces requests out enough.     *)
LEMMA FullIsRecent ==
    ASSUME now \in Int, NEW p \in Poll, Running(p, now), Due(p),
           NEW n \in 0 .. Len(p.spent), Expired(p, n), Len(Kept(p, n)) >= Budget
    PROVE  now < p.lastPoll + Spread
<1> DEFINE s == p.spent
<1>1. /\ s \in Seq(Int) /\ Len(s) \in Nat /\ p.lastPoll \in Int /\ p.started \in Int
      /\ \A i \in 1 .. Len(s) : s[i] \in Int
  BY DEF Poll
<1>2. Budget \in Nat /\ Budget > 0 /\ Fast \in Nat /\ Window \in Nat
  BY Bounds
<1>3. Len(s) = Budget /\ n = 0
  BY <1>1, <1>2, KeptIs DEF Running
<1>4. now - s[1] < Window /\ s[1] <= p.lastPoll
  BY <1>1, <1>2, <1>3 DEF Expired, Running
<1>5. now - p.lastPoll >= Fast
  <2> DEFINE age == now - p.started
  <2>1. age \in Int
    BY <1>1
  <2>2. Every(age) \in Nat /\ Fast <= Every(age)
    BY <2>1, EveryBetween
  <2>3. now - p.lastPoll >= Every(age)
    BY DEF Due
  <2> HIDE DEF age
  <2> QED
    BY <1>1, <1>2, <2>2, <2>3
<1>6. CASE Budget * Fast < Window
  BY <1>1, <1>2, <1>3, <1>4, <1>6 DEF Spread
<1>7. CASE ~ (Budget * Fast < Window)
  <2> DEFINE b == Budget - 1
  <2>1. s[Budget] - s[1] >= b * Fast /\ s[Budget] <= p.lastPoll /\ s[Budget] \in Int /\ s[1] \in Int
    BY <1>1, <1>2, <1>3 DEF Running, Spaced
  <2>2. Budget * Fast = b * Fast + Fast
    <3>1. b \in Int /\ Budget = b + 1
      BY <1>2
    <3> HIDE DEF b
    <3> QED
      BY <1>2, <3>1, OneMore
  <2>3. b * Fast \in Int /\ Budget * Fast \in Int
    BY <1>2
  <2>4. Budget * Fast >= Window
    BY <1>2, <1>7, <2>3
  <2> DEFINE bf   == b * Fast
             all  == Budget * Fast
             near == s[Budget]
             far  == s[1]
  <2>5. /\ near - far >= bf /\ near <= p.lastPoll /\ near \in Int /\ far \in Int
        /\ all = bf + Fast /\ bf \in Int /\ all >= Window /\ now - far < Window
    BY <1>4, <2>1, <2>2, <2>3, <2>4
  <2> HIDE DEF bf, all, near, far
  <2> QED
    BY <1>1, <1>2, <1>5, <2>5
<1> QED
  BY <1>6, <1>7

-----------------------------------------------------------------------------
(* What a step makes of the poller it is about, at the time now.            *)

LEMMA OverIs ==
    ASSUME now \in Nat, NEW p \in Poll
    PROVE  /\ Over(p) \in Poll /\ Over(p).pc = "done" /\ Over(p).at = now
           /\ Over(p).reply = p.reply /\ Over(p).spent = << >> /\ Over(p).last = p.last
           /\ Over(p).error = p.error /\ Over(p).deadline = p.deadline
<1>1. Over(p) \in Poll
  <2>1. Never \in Int /\ 0 \in Int /\ now \in Int
    BY Bounds DEF Never
  <2>2. "done" \in Waiting \cup {"called"} /\ << >> \in Seq(Int)
    BY DEF Waiting
  <2> QED
    BY <2>1, <2>2 DEF Over, Poll
<1> QED
  BY <1>1 DEF Over, Poll

LEMMA AsleepIs ==
    ASSUME now \in Nat, NEW p \in Poll
    PROVE  /\ Asleep(p) \in Poll /\ Asleep(p).pc = "sleeping" /\ Asleep(p).at = now + Interval
           /\ Asleep(p).reply = p.reply /\ Asleep(p).open = p.open
           /\ Asleep(p).error = p.error /\ Asleep(p).last = p.last
           /\ Asleep(p).told = p.told /\ Asleep(p).pausedUntil = p.pausedUntil
           /\ Asleep(p).lastPoll = p.lastPoll /\ Asleep(p).spent = p.spent
           /\ Asleep(p).deadline = p.deadline
<1>1. Asleep(p) \in Poll
  <2>1. now + Interval \in Int
    BY Bounds
  <2>2. "sleeping" \in Waiting \cup {"called"}
    BY DEF Waiting
  <2> QED
    BY <2>1, <2>2 DEF Asleep, Poll
<1> QED
  BY <1>1 DEF Asleep, Poll

LEMMA AskedIs ==
    ASSUME now \in Nat, NEW p \in Poll, NEW s \in Seq(Int)
    PROVE  /\ Asked(p, s) \in Poll /\ Asked(p, s).pc = "awaiting"
           /\ Asked(p, s).at = now + Latency /\ Asked(p, s).lastPoll = now
           /\ Asked(p, s).spent = s /\ Asked(p, s).reply = None
           /\ Asked(p, s).open = p.open /\ Asked(p, s).error = p.error
           /\ Asked(p, s).last = p.last /\ Asked(p, s).told = p.told
           /\ Asked(p, s).pausedUntil = p.pausedUntil /\ Asked(p, s).deadline = p.deadline
<1>1. Asked(p, s) \in Poll
  <2>1. now + Latency \in Int /\ now \in Int
    BY Bounds
  <2>2. "awaiting" \in Waiting \cup {"called"}
    BY DEF Waiting
  <2> QED
    BY <2>1, <2>2 DEF Asked, Poll
<1> QED
  BY <1>1 DEF Asked, Poll

LEMMA AppendIs ==
    ASSUME NEW s \in Seq(Int), NEW t \in Int
    PROVE  /\ Append(s, t) \in Seq(Int) /\ Len(s) \in Nat /\ Len(Append(s, t)) = Len(s) + 1
           /\ \A i \in 1 .. Len(s) + 1 : Append(s, t)[i] = IF i = Len(s) + 1 THEN t ELSE s[i]
OBVIOUS

(* A wait that ends, for its page is closed.                                *)
LEMMA ClosedIsGood ==
    ASSUME now \in Nat, NEW p \in Poll, NEW turned, NEW said, NEW from,
           p.reply = None, ~ p.open,
           p.last \in Terminal => turned # None /\ turned <= now /\ p.last = said,
           p.last \notin Terminal => p.error,
           Before(now, p.deadline, Interval + Latency)
    PROVE  Good(Landed(p), turned, said, from, now)
<1>1. Landed(p) = Over(p)
  BY DEF Landed
<1>2. Returned(Over(p), turned, said, from, now)
  BY OverIs DEF Returned, Before
<1> QED
  BY <1>1, <1>2, OverIs DEF Good, Waiting

(* A wait whose page is open after a tick goes on, or ends at its deadline. *)
LEMMA OpenIsGood ==
    ASSUME now \in Nat, NEW p \in Poll, NEW turned \in Int \cup {None}, NEW said,
           NEW from \in Int,
           p.reply = None, Running(p, now), p.pausedUntil <= from,
           Within(p.lastPoll, turned, from, 0), Within(now, turned, from, Longest),
           Before(now, p.deadline, Interval + Latency)
    PROVE  Good(Landed(p), turned, said, from, now)
<1>0. /\ Longest \in Nat /\ Latency \in Nat /\ Interval \in Nat /\ Interval > 0
      /\ turned # None => Later(turned, from) \in Int
  BY Bounds, LongestIs, LaterIs
<1>1. CASE p.deadline # None /\ now >= p.deadline
  <2>1. Landed(p) = Over(p)
    BY <1>1 DEF Landed
  <2>2. Returned(Over(p), turned, said, from, now)
    BY <1>0, <1>1, OverIs DEF Returned, Running, Before, Within
  <2> QED
    BY <2>1, <2>2, OverIs DEF Good, Waiting
<1>2. CASE ~ (p.deadline # None /\ now >= p.deadline)
  <2> DEFINE q == Asleep(p)
  <2>1. Landed(p) = q
    BY <1>2 DEF Landed, Running
  <2>2. q \in Poll /\ q.pc = "sleeping" /\ q.pc \in Waiting
    BY AsleepIs DEF Waiting
  <2>3. /\ q.at = now + Interval
        /\ q.reply = p.reply /\ q.open = p.open /\ q.error = p.error /\ q.last = p.last
        /\ q.told = p.told /\ q.pausedUntil = p.pausedUntil /\ q.lastPoll = p.lastPoll
        /\ q.spent = p.spent /\ q.deadline = p.deadline
    BY AsleepIs
  <2> HIDE DEF q
  <2>4. Running(q, now)
    BY <2>3 DEF Running
  <2>5. Within(q.at, turned, from, Longest + Interval) /\ Within(q.lastPoll, turned, from, 0)
    BY <1>0, <2>3 DEF Within
  <2>6. Before(q.at, q.deadline, Interval)
    <3>1. p.deadline \in Int \cup {None}
      BY DEF Poll
    <3> QED
      BY <1>0, <1>2, <2>3, <3>1 DEF Before
  <2>7. Sleeping(q, turned, from, now)
    BY <1>0, <2>3, <2>4, <2>5, <2>6 DEF Sleeping
  <2> QED
    BY <2>1, <2>2, <2>7 DEF Good
<1> QED
  BY <1>1, <1>2

(* The request of a tick leaves.                                            *)
LEMMA AskingIsGood ==
    ASSUME now \in Nat, NEW p \in Poll, NEW turned \in Int \cup {None}, NEW said,
           NEW from \in Int,
           Running(p, now), Due(p), now >= p.pausedUntil, p.pausedUntil <= from,
           Within(now, turned, from, Longest + Interval), Before(now, p.deadline, Interval),
           NEW kept \in Seq(Int), Len(kept) < Budget, Spaced(kept),
           \A i \in 1 .. Len(kept) : kept[i] <= p.lastPoll
    PROVE  Good(Asked(p, Append(kept, now)), turned, said, from, now)
<1> DEFINE s == Append(kept, now)
           q == Asked(p, s)
<1>0. /\ Latency \in Nat /\ Budget \in Nat /\ Fast \in Nat
      /\ p.lastPoll \in Int /\ p.started \in Int
  BY Bounds DEF Poll
<1>1. /\ s \in Seq(Int) /\ Len(s) = Len(kept) + 1 /\ Len(kept) \in Nat
      /\ \A i \in 1 .. Len(s) : s[i] = IF i = Len(kept) + 1 THEN now ELSE kept[i]
  BY AppendIs
<1>2. now - p.lastPoll >= Fast
  <2> DEFINE age == now - p.started
  <2>1. age \in Int
    BY <1>0
  <2>2. Every(age) \in Nat /\ Fast <= Every(age)
    BY <2>1, EveryBetween
  <2>3. now - p.lastPoll >= Every(age)
    BY DEF Due
  <2> HIDE DEF age
  <2> QED
    BY <1>0, <2>2, <2>3
<1>3. \A i \in 1 .. Len(kept) : kept[i] \in Int
  OBVIOUS
<1>4. Spaced(s)
  <2>1. \A i \in 1 .. Len(kept) : now - kept[i] >= Fast
    BY <1>0, <1>2, <1>3
  <2> QED
    BY <2>1, AppendedIsSpaced
<1> HIDE DEF s
<1>5. Len(s) <= Budget /\ \A i \in 1 .. Len(s) : s[i] <= now
  <2>1. p.lastPoll <= now
    BY DEF Running
  <2>2. Len(s) <= Budget
    BY <1>0, <1>1
  <2>3. ASSUME NEW i \in 1 .. Len(s) PROVE s[i] <= now
    <3>1. CASE i = Len(kept) + 1
      <4>1. s[i] = now
        BY <1>1, <3>1
      <4> QED
        BY <4>1
    <3>2. CASE i # Len(kept) + 1
      <4>1. i \in 1 .. Len(kept) /\ s[i] = kept[i]
        BY <1>1, <3>2
      <4>2. kept[i] \in Int /\ kept[i] <= p.lastPoll
        BY <1>3, <4>1
      <4> QED
        BY <1>0, <2>1, <4>1, <4>2
    <3> QED
      BY <3>1, <3>2
  <2> QED
    BY <2>2, <2>3
<1>6. /\ q \in Poll /\ q.pc = "awaiting" /\ q.at = now + Latency /\ q.lastPoll = now
      /\ q.spent = s /\ q.reply = None /\ q.open = p.open /\ q.error = p.error
      /\ q.last = p.last /\ q.told = p.told /\ q.pausedUntil = p.pausedUntil
      /\ q.deadline = p.deadline
  BY <1>1, AskedIs
<1> HIDE DEF q
<1>7. Running(q, now)
  <2>1. q.open /\ ~ q.error /\ q.last \notin Terminal /\ q.told <= q.pausedUntil
    BY <1>6 DEF Running
  <2>2. q.lastPoll <= now /\ \A i \in 1 .. Len(q.spent) : q.spent[i] <= q.lastPoll
    BY <1>5, <1>6
  <2> QED
    BY <1>4, <1>5, <1>6, <2>1, <2>2 DEF Running
<1>8. Awaiting(q, turned, said, from, now)
  BY <1>0, <1>6, <1>7 DEF Awaiting, Truthful
<1>9. Good(q, turned, said, from, now)
  BY <1>6, <1>8 DEF Good, Waiting
<1> QED
  BY <1>9 DEF q, s

(* A tick of a wait that is called or wakes in time.                        *)
LEMMA TickedIsGood ==
    ASSUME now \in Nat, NEW p \in Poll, NEW turned \in Int \cup {None}, NEW said,
           NEW from \in Int,
           p.reply = None, Running(p, now), p.pausedUntil <= from,
           Within(p.lastPoll, turned, from, 0), Within(now, turned, from, Longest + Interval),
           Before(now, p.deadline, Interval),
           NEW n \in 0 .. Len(p.spent), Expired(p, n)
    PROVE  Good(Ticked(p, n), turned, said, from, now)
<1>0. /\ Longest \in Nat /\ Latency \in Nat /\ Interval \in Nat /\ Slowest \in Nat
      /\ Slowest <= Longest /\ Spread <= Longest /\ Spread \in Nat
      /\ turned # None => Later(turned, from) \in Int /\ from <= Later(turned, from)
      /\ p.lastPoll \in Int /\ p.started \in Int /\ p.pausedUntil \in Int
      /\ p.deadline \in Int \cup {None}
  BY Bounds, LongestIs, LaterIs DEF Poll, Spread
<1>1. Before(now, p.deadline, Interval + Latency)
  BY <1>0 DEF Before
<1>2. CASE now < p.pausedUntil
  <2>1. Within(now, turned, from, Longest)
    BY <1>0, <1>2 DEF Within
  <2>2. Good(Landed(p), turned, said, from, now)
    BY <1>1, <2>1, OpenIsGood
  <2> QED
    BY <1>2, <2>2 DEF Ticked
<1>3. CASE ~ Due(p)
  <2> DEFINE age == now - p.started
  <2>1. Every(age) \in Nat /\ Every(age) <= Slowest
    <3>1. age \in Int
      BY <1>0
    <3> QED
      BY <3>1, EveryBetween
  <2>2. now - p.lastPoll < Every(age)
    BY <1>0, <1>3, <2>1 DEF Due
  <2> HIDE DEF age
  <2>3. now < p.lastPoll + Longest
    BY <1>0, <2>1, <2>2
  <2>4. Within(now, turned, from, Longest)
    BY <1>0, <2>3 DEF Within
  <2>5. Good(Landed(p), turned, said, from, now)
    BY <1>1, <2>4, OpenIsGood
  <2> QED
    BY <1>3, <2>5 DEF Ticked
<1>4. /\ Kept(p, n) \in Seq(Int) /\ Len(Kept(p, n)) \in Nat /\ Spaced(Kept(p, n))
      /\ Len(Kept(p, n)) <= Budget
      /\ \A i \in 1 .. Len(Kept(p, n)) : Kept(p, n)[i] <= p.lastPoll
  <2>0. p.spent \in Seq(Int) /\ Len(p.spent) \in Nat
    BY DEF Poll
  <2>1. /\ Kept(p, n) \in Seq(Int) /\ Len(Kept(p, n)) = Len(p.spent) - n
        /\ \A k \in 1 .. Len(p.spent) - n : Kept(p, n)[k] = p.spent[n + k]
        /\ Spaced(Kept(p, n))
    BY <2>0, KeptIs, KeptIsSpaced DEF Running
  <2>2. Len(Kept(p, n)) <= Budget /\ Len(Kept(p, n)) \in Nat
    BY <2>0, <2>1, Bounds DEF Running
  <2>3. \A i \in 1 .. Len(Kept(p, n)) : Kept(p, n)[i] <= p.lastPoll
    <3> SUFFICES ASSUME NEW i \in 1 .. Len(Kept(p, n)) PROVE Kept(p, n)[i] <= p.lastPoll
      OBVIOUS
    <3>0. i \in 1 .. Len(p.spent) - n
      BY <2>1
    <3>1. n + i \in 1 .. Len(p.spent)
      BY <2>0, <3>0
    <3> QED
      BY <2>1, <3>0, <3>1 DEF Running
  <2> QED
    BY <2>1, <2>2, <2>3
<1>5. CASE now >= p.pausedUntil /\ Due(p) /\ Len(Kept(p, n)) >= Budget
  <2>1. PICK q : q = [p EXCEPT !.spent = Kept(p, n)]
    OBVIOUS
  <2>2. q \in Poll /\ q.spent = Kept(p, n)
    BY <1>4, <2>1 DEF Poll
  <2>3. /\ q.reply = p.reply /\ q.open = p.open /\ q.error = p.error /\ q.last = p.last
        /\ q.told = p.told /\ q.pausedUntil = p.pausedUntil /\ q.lastPoll = p.lastPoll
        /\ q.deadline = p.deadline
    BY <2>1 DEF Poll
  <2>4. Running(q, now)
    BY <1>4, <2>2, <2>3 DEF Running
  <2>5. Within(now, turned, from, Longest)
    <3>1. now < p.lastPoll + Spread
      BY <1>5, FullIsRecent
    <3> QED
      BY <1>0, <3>1 DEF Within
  <2>6. Good(Landed(q), turned, said, from, now)
    BY <1>1, <2>2, <2>3, <2>4, <2>5, OpenIsGood
  <2>7. Ticked(p, n) = Landed(q)
    BY <1>0, <1>5, <2>1 DEF Ticked
  <2> QED
    BY <2>6, <2>7
<1>6. CASE now >= p.pausedUntil /\ Due(p) /\ ~ (Len(Kept(p, n)) >= Budget)
  <2>1. Len(Kept(p, n)) < Budget
    BY <1>4, <1>6, Bounds
  <2>2. Ticked(p, n) = Asked(p, Append(Kept(p, n), now))
    BY <1>0, <1>6 DEF Ticked
  <2> QED
    BY <1>4, <1>6, <2>1, <2>2, AskingIsGood
<1> QED
  BY <1>0, <1>2, <1>3, <1>5, <1>6

-----------------------------------------------------------------------------
(* The answer to a request lands.  A request in flight is within the ladder *)
(* of the last silence; what its answer adds is when the next one is.      *)

LEMMA InFlight ==
    ASSUME now \in Nat, NEW p \in Poll, NEW turned \in Int \cup {None}, NEW said,
           NEW from \in Int, Awaiting(p, turned, said, from, now)
    PROVE  /\ now <= p.lastPoll + Latency /\ p.lastPoll <= now /\ p.pausedUntil <= now
           /\ Before(now, p.deadline, Interval + Latency)
           /\ Within(now, turned, from, Longest + Interval + Latency)
<1>1. /\ Latency \in Nat /\ Interval \in Nat /\ Longest \in Nat
      /\ p.lastPoll \in Int /\ p.deadline \in Int \cup {None} /\ p.pausedUntil \in Int
      /\ turned # None => Later(turned, from) \in Int
  BY Bounds, LongestIs, LaterIs DEF Poll
<1>2. now <= p.lastPoll + Latency /\ p.lastPoll <= now /\ p.pausedUntil <= now
  BY <1>1 DEF Awaiting, Running
<1>3. Before(now, p.deadline, Interval + Latency)
  BY <1>1, <1>2 DEF Awaiting, Before
<1>4. Within(now, turned, from, Longest + Interval + Latency)
  BY <1>1, <1>2 DEF Awaiting, Within
<1> QED
  BY <1>2, <1>3, <1>4

(* A status that is final is handed back, and another one starts a sleep.   *)
LEMMA AnsweredIsGood ==
    ASSUME now \in Nat, NEW p \in Poll, NEW turned, NEW said, NEW from \in Int,
           Mast(turned, said, now), Awaiting(p, turned, said, from, now),
           p.reply # None, p.reply.kind = "status"
    PROVE  Good(Landed([[p EXCEPT !.last = p.reply.what, !.open = ~ IsTerminal(p.reply.what)]
                            EXCEPT !.reply = None]),
                turned, said, from, now)
<1> DEFINE what == p.reply.what
<1>1. PICK q : q = [[p EXCEPT !.last = what, !.open = ~ IsTerminal(what)] EXCEPT !.reply = None]
  OBVIOUS
<1>2. what \in Verdicts
  BY DEF Poll, Reply
<1>3. /\ q \in Poll /\ q.reply = None /\ q.last = what /\ q.open = ~ IsTerminal(what)
      /\ q.error = p.error /\ q.told = p.told /\ q.pausedUntil = p.pausedUntil
      /\ q.lastPoll = p.lastPoll /\ q.spent = p.spent /\ q.deadline = p.deadline
  <2>1. IsTerminal(what) \in BOOLEAN
    BY DEF IsTerminal
  <2> HIDE DEF what
  <2> QED
    BY <1>1, <1>2, <2>1 DEF Poll
<1>4. turned \in Int \cup {None} /\ Latency \in Nat /\ Longest \in Nat /\ Latency <= Longest
  BY Bounds, LongestIs DEF Mast
<1>5. Before(now, q.deadline, Interval + Latency)
  BY <1>3, <1>4, InFlight
<1>6. CASE what \in Terminal
  <2>1. turned # None /\ what = said /\ turned <= now
    BY <1>6 DEF Awaiting, Truthful, Mast
  <2>2. ~ q.open /\ q.last \in Terminal
    BY <1>3, <1>6 DEF IsTerminal
  <2>3. Good(Landed(q), turned, said, from, now)
    BY <1>3, <1>5, <2>1, <2>2, ClosedIsGood
  <2> QED
    BY <1>1, <2>3
<1>7. CASE what \notin Terminal
  <2>1. turned # None => p.lastPoll <= turned
    BY <1>7 DEF Awaiting, Truthful
  <2>2. q.open /\ q.last \notin Terminal
    BY <1>3, <1>7 DEF IsTerminal
  <2>3. Running(q, now)
    BY <1>3, <2>2 DEF Awaiting, Running
  <2>4. /\ p.lastPoll \in Int /\ p.pausedUntil \in Int
        /\ turned # None => Later(turned, from) \in Int /\ turned <= Later(turned, from)
                            /\ turned \in Int
    BY <1>4, LaterIs DEF Poll
  <2>5. Within(q.lastPoll, turned, from, 0) /\ Within(now, turned, from, Longest)
    <3>1. now <= p.lastPoll + Latency
      BY <1>4, InFlight
    <3> QED
      BY <1>3, <1>4, <2>1, <2>4, <3>1 DEF Within
  <2>6. q.pausedUntil <= from
    BY <1>3 DEF Awaiting
  <2> QED
    BY <1>1, <1>3, <1>4, <1>5, <2>3, <2>5, <2>6, OpenIsGood
<1> QED
  BY <1>6, <1>7

(* After a 429 the wait is silent for as long as its reading of the header. *)
LEMMA LimitedIsGood ==
    ASSUME now \in Nat, NEW p \in Poll, NEW turned \in Int \cup {None}, NEW said,
           NEW from \in Int, Awaiting(p, turned, said, from, now),
           NEW until \in Int, NEW told \in Int, told <= until, now <= until
    PROVE  Good(Landed([[p EXCEPT !.pausedUntil = until, !.told = told] EXCEPT !.reply = None]),
                turned, said, until, now)
<1>1. PICK q : q = [[p EXCEPT !.pausedUntil = until, !.told = told] EXCEPT !.reply = None]
  OBVIOUS
<1>2. /\ q \in Poll /\ q.reply = None /\ q.last = p.last /\ q.open = p.open
      /\ q.error = p.error /\ q.told = told /\ q.pausedUntil = until
      /\ q.lastPoll = p.lastPoll /\ q.spent = p.spent /\ q.deadline = p.deadline
  BY <1>1 DEF Poll
<1>3. Running(q, now)
  BY <1>2 DEF Awaiting, Running
<1>4. Before(now, q.deadline, Interval + Latency) /\ p.lastPoll <= now
  BY <1>2, InFlight
<1>5. Within(q.lastPoll, turned, until, 0) /\ Within(now, turned, until, Longest)
  <2>1. /\ p.lastPoll \in Int /\ Longest \in Nat
        /\ turned # None => Later(turned, until) \in Int /\ until <= Later(turned, until)
    BY LongestIs, LaterIs DEF Poll
  <2> QED
    BY <1>2, <1>4, <2>1 DEF Within
<1>6. q.pausedUntil <= until
  BY <1>2
<1>7. Good(Landed(q), turned, said, until, now)
  BY <1>2, <1>3, <1>4, <1>5, <1>6, OpenIsGood
<1> QED
  BY <1>1, <1>7

(* A page the channel does not know is closed.                              *)
LEMMA DisownedIsGood ==
    ASSUME now \in Nat, NEW p \in Poll, NEW turned \in Int \cup {None}, NEW said,
           NEW from \in Int, Awaiting(p, turned, said, from, now)
    PROVE  Good(Landed([[p EXCEPT !.open = FALSE, !.error = TRUE] EXCEPT !.reply = None]),
                turned, said, from, now)
<1>1. PICK q : q = [[p EXCEPT !.open = FALSE, !.error = TRUE] EXCEPT !.reply = None]
  OBVIOUS
<1>2. /\ q \in Poll /\ q.reply = None /\ q.last = p.last /\ ~ q.open
      /\ q.error /\ q.deadline = p.deadline
  BY <1>1 DEF Poll
<1>3. Before(now, q.deadline, Interval + Latency) /\ q.last \notin Terminal
  BY <1>2, InFlight DEF Awaiting, Running
<1>4. Good(Landed(q), turned, said, from, now)
  BY <1>2, <1>3, ClosedIsGood
<1> QED
  BY <1>1, <1>4

(* Nothing is learned of a request that was not answered.                   *)
LEMMA BlippedIsGood ==
    ASSUME now \in Nat, NEW p \in Poll, NEW turned \in Int \cup {None}, NEW said,
           NEW from \in Int, Awaiting(p, turned, said, from, now)
    PROVE  Good(Landed([p EXCEPT !.reply = None]), turned, said, now, now)
<1>1. PICK q : q = [p EXCEPT !.reply = None]
  OBVIOUS
<1>2. /\ q \in Poll /\ q.reply = None /\ q.last = p.last /\ q.open = p.open
      /\ q.error = p.error /\ q.told = p.told /\ q.pausedUntil = p.pausedUntil
      /\ q.lastPoll = p.lastPoll /\ q.spent = p.spent /\ q.deadline = p.deadline
  BY <1>1 DEF Poll
<1>3. Running(q, now)
  BY <1>2 DEF Awaiting, Running
<1>4. Before(now, q.deadline, Interval + Latency) /\ p.lastPoll <= now /\ q.pausedUntil <= now
  BY <1>2, InFlight
<1>5. Within(q.lastPoll, turned, now, 0) /\ Within(now, turned, now, Longest)
  <2>1. /\ p.lastPoll \in Int /\ Longest \in Nat /\ now \in Int
        /\ turned # None => Later(turned, now) \in Int /\ now <= Later(turned, now)
    BY LongestIs, LaterIs DEF Poll
  <2> QED
    BY <1>2, <1>4, <2>1 DEF Within
<1>6. Good(Landed(q), turned, said, now, now)
  BY <1>2, <1>3, <1>4, <1>5, OpenIsGood
<1> QED
  BY <1>1, <1>6

(* Mast has the request: what it says now is on its way.                    *)
LEMMA ArrivedIsGood ==
    ASSUME now \in Nat, NEW p \in Poll, NEW turned, NEW said, NEW from \in Int,
           p.pc = "awaiting", Awaiting(p, turned, said, from, now), Mast(turned, said, now),
           NEW r \in Reply,
           r.kind = "status" => r.what = StatusState(said)
    PROVE  Good([p EXCEPT !.reply = r], turned, said, from, now)
<1>1. PICK q : q = [p EXCEPT !.reply = r]
  OBVIOUS
<1>2. /\ q \in Poll /\ q.reply = r /\ q.last = p.last /\ q.open = p.open /\ q.pc = p.pc
      /\ q.error = p.error /\ q.told = p.told /\ q.pausedUntil = p.pausedUntil /\ q.at = p.at
      /\ q.lastPoll = p.lastPoll /\ q.spent = p.spent /\ q.deadline = p.deadline
  BY <1>1 DEF Poll
<1>3. Running(q, now)
  BY <1>2 DEF Awaiting, Running
<1>4. Truthful(q, turned, said)
  <2> SUFFICES ASSUME r.kind = "status"
               PROVE  IF r.what \in Terminal THEN turned # None /\ r.what = said
                      ELSE turned # None => q.lastPoll <= turned
    BY <1>2 DEF Truthful
  <2>1. r.what \in Terminal => r.what = said /\ said \in Terminal
    BY Unknown DEF StatusState, Parse, States, Terminal
  <2>2. said \in Terminal => r.what = said
    BY Unknown DEF StatusState, Parse, States, Terminal, Mast
  <2> QED
    BY <2>1, <2>2 DEF Mast
<1>5. Awaiting(q, turned, said, from, now)
  BY <1>2, <1>3, <1>4 DEF Awaiting
<1> QED
  BY <1>1, <1>2, <1>5 DEF Good, Waiting

-----------------------------------------------------------------------------
(* Every step keeps the invariant.                                          *)

LEMMA CallingIs ==
    ASSUME now \in Nat, NEW timeout \in Timeouts \cup {None}
    PROVE  /\ Calling(timeout) \in Poll /\ Calling(timeout).reply = None
           /\ Running(Calling(timeout), now)
           /\ Calling(timeout).lastPoll = Never /\ Calling(timeout).pausedUntil = 0
           /\ Before(now, Calling(timeout).deadline, Interval)
<1> DEFINE p == Calling(timeout)
           deadline == IF timeout = None THEN None ELSE now + timeout
<1>1. deadline \in Int \cup {None} /\ Before(now, deadline, Interval)
  <2>1. timeout \in Nat \cup {None} /\ Interval \in Nat /\ Interval > 0
    BY ServerAssumption, Bounds
  <2> QED
    BY <2>1 DEF Before
<1>2. Never \in Int /\ Never <= now /\ << >> \in Seq(Int) /\ Len(<< >>) = 0
  BY Bounds DEF Never
<1> HIDE DEF deadline, Never
<1>3. /\ p.pc = "called" /\ p.at = 0 /\ p.started = now /\ p.lastPoll = Never
      /\ p.pausedUntil = 0 /\ p.told = 0 /\ p.spent = << >> /\ p.reply = None /\ p.open = TRUE
      /\ p.last = None /\ p.error = FALSE /\ p.deadline = deadline
  BY DEF Calling, deadline
<1>4. p \in Poll
  BY <1>1, <1>2 DEF Calling, Poll, deadline
<1> HIDE DEF p
<1>5. None \notin Terminal
  BY Unknown DEF Terminal, States
<1>6. Running(p, now)
  <2>1. Len(p.spent) = 0 /\ 0 <= Budget
    BY <1>2, <1>3, Bounds
  <2>2. Spaced(p.spent) /\ \A i \in 1 .. Len(p.spent) : p.spent[i] <= p.lastPoll
    BY <2>1 DEF Spaced
  <2> QED
    BY <1>2, <1>3, <1>5, <2>1, <2>2 DEF Running
<1> QED
  BY <1>1, <1>3, <1>4, <1>6 DEF p

LEMMA IdleIs ==
    ASSUME now \in Nat
    PROVE  /\ Idle \in Poll /\ Idle.pc = "idle" /\ Idle.reply = None /\ ~ Idle.error
           /\ Idle.told = 0 /\ Idle.spent = << >>
<1>1. PICK p : p = Calling(None)
  OBVIOUS
<1>2. p \in Poll
  BY <1>1, CallingIs
<1>3. p.reply = None /\ ~ p.error /\ p.told = 0 /\ p.spent = << >>
  BY <1>1 DEF Calling
<1>4. Idle = [p EXCEPT !.pc = "idle", !.started = 0]
  BY <1>1 DEF Idle
<1>5. "idle" \in Waiting \cup {"called"}
  BY DEF Waiting
<1> QED
  BY <1>2, <1>3, <1>4, <1>5 DEF Poll

(* What the invariant says of one wait, and how a step of one keeps it.     *)
LEMMA EachIsGood ==
    ASSUME IInv, NEW w \in Callers
    PROVE  /\ now \in Nat /\ wait[w] \in Poll /\ crossed[w] \in Int
           /\ final[About[w]] \in Int \cup {None}
           /\ Mast(final[About[w]], state[About[w]], now)
           /\ Good(wait[w], final[About[w]], state[About[w]], crossed[w], now)
BY Bounds DEF IInv, Messages

LEMMA OneStep ==
    ASSUME IInv, NEW w \in Callers, NEW q, NEW from \in Int,
           wait' = [wait EXCEPT ![w] = q], crossed' = [crossed EXCEPT ![w] = from],
           UNCHANGED << now, state, final >>,
           Good(q, final[About[w]], state[About[w]], from, now)
    PROVE  IInv'
<1>1. q \in Poll
  BY DEF Good
<1>2. wait' \in [Callers -> Poll] /\ crossed' \in [Callers -> Int]
  BY <1>1 DEF IInv
<1>3. ASSUME NEW v \in Callers
      PROVE  Good(wait[v], final[About[v]], state[About[v]], crossed[v], now)'
  <2>1. CASE v = w
    <3>1. wait'[v] = q /\ crossed'[v] = from
      BY <2>1 DEF IInv
    <3> QED
      BY <2>1, <3>1
  <2>2. CASE v # w
    <3>1. wait'[v] = wait[v] /\ crossed'[v] = crossed[v]
      BY <2>2 DEF IInv
    <3> QED
      BY <3>1 DEF IInv
  <2> QED
    BY <2>1, <2>2
<1> QED
  BY <1>2, <1>3 DEF IInv

LEMMA SameCrossed ==
    ASSUME IInv, NEW w \in Callers, UNCHANGED crossed
    PROVE  crossed' = [crossed EXCEPT ![w] = crossed[w]]
BY DEF IInv

(* A page turns, or a second passes, or both: nobody who waits has been     *)
(* kept waiting for it yet.                                                *)
LEMMA LaterIsGood ==
    ASSUME now \in Nat, NEW p, NEW turned \in Int \cup {None}, NEW said, NEW from \in Int,
           Mast(turned, said, now), Good(p, turned, said, from, now),
           NEW t \in {now, now + 1}, p.pc \in {"awaiting", "sleeping"} => t <= p.at,
           NEW becomes \in Int \cup {None}, NEW says,
           \/ becomes = turned /\ says = said
           \/ turned = None /\ becomes \in {t, None}
    PROVE  Good(p, becomes, says, from, t)
<1>0. /\ Interval \in Nat /\ Latency \in Nat /\ Longest \in Nat /\ t \in Nat /\ now <= t
      /\ p \in Poll /\ p.lastPoll \in Int /\ p.at \in Int /\ t \in Int /\ None \notin Int
  BY Bounds, LongestIs, Unknown DEF Good, Poll
<1>1. CASE becomes = turned /\ says = said
  <2>1. ASSUME Running(p, now) PROVE Running(p, t)
    BY <1>0, <2>1 DEF Running
  <2>2. p.pc = "awaiting" => Awaiting(p, turned, said, from, t)
    BY <1>0, <2>1 DEF Good, Awaiting
  <2>3. p.pc = "sleeping" => Sleeping(p, turned, from, t)
    BY <1>0, <2>1 DEF Good, Sleeping
  <2>4. p.pc = "done" => Returned(p, turned, said, from, t)
    BY <1>0 DEF Good, Returned
  <2> QED
    BY <1>1, <2>2, <2>3, <2>4 DEF Good
<1>2. CASE turned = None /\ becomes \in {t, None}
  <2>0. becomes # None => Later(becomes, from) \in Int /\ t <= Later(becomes, from)
    BY <1>0, <1>2, LaterIs
  <2>1. ASSUME Running(p, now) PROVE Running(p, t) /\ p.lastPoll <= t
    BY <1>0, <2>1 DEF Running
  <2>2. p.pc = "awaiting" => Awaiting(p, becomes, says, from, t)
    <3> SUFFICES ASSUME p.pc = "awaiting" PROVE Awaiting(p, becomes, says, from, t)
      OBVIOUS
    <3>1. Awaiting(p, None, said, from, now)
      BY <1>2 DEF Good
    <3>2. Truthful(p, becomes, says)
      BY <1>0, <1>2, <2>1, <3>1 DEF Awaiting, Truthful
    <3>3. Within(p.lastPoll, becomes, from, Longest + Interval)
      BY <1>0, <1>2, <2>0, <2>1, <3>1 DEF Awaiting, Within
    <3> QED
      BY <2>1, <3>1, <3>2, <3>3 DEF Awaiting
  <2>3. p.pc = "sleeping" => Sleeping(p, becomes, from, t)
    <3> SUFFICES ASSUME p.pc = "sleeping" PROVE Sleeping(p, becomes, from, t)
      OBVIOUS
    <3>1. Sleeping(p, None, from, now)
      BY <1>2 DEF Good
    <3>2. p.at <= t + Interval
      BY <1>0, <3>1 DEF Sleeping
    <3>3. /\ Within(p.lastPoll, becomes, from, 0)
          /\ Within(p.at, becomes, from, Longest + Interval)
      BY <1>0, <1>2, <2>0, <2>1, <3>1, <3>2 DEF Sleeping, Within
    <3> QED
      BY <2>1, <3>1, <3>2, <3>3 DEF Sleeping
  <2>4. p.pc = "done" => Returned(p, becomes, says, from, t)
    <3> SUFFICES ASSUME p.pc = "done" PROVE Returned(p, becomes, says, from, t)
      OBVIOUS
    <3>1. Returned(p, None, said, from, now)
      BY <1>2 DEF Good
    <3>2. p.at <= t /\ p.last \notin Terminal
      BY <1>0, <3>1 DEF Returned
    <3>3. becomes # None /\ becomes <= p.at =>
             p.at <= Later(becomes, from) + Longest + Interval + Latency
      BY <1>0, <1>2, <2>0, <3>2
    <3> QED
      BY <3>1, <3>2, <3>3 DEF Returned
  <2> QED
    BY <2>2, <2>3, <2>4 DEF Good
<1> QED
  BY <1>1, <1>2

LEMMA InitIsGood == Init => IInv
<1> SUFFICES ASSUME Init PROVE IInv
  OBVIOUS
<1>1. now \in Nat /\ now \in 0 .. Horizon
  BY Bounds DEF Init
<1>2. \A m \in Messages : Mast(final[m], state[m], now) /\ state[m] \in Texts
  <2> SUFFICES ASSUME NEW m \in Messages
               PROVE  Mast(final[m], state[m], now) /\ state[m] \in Texts
    OBVIOUS
  <2>1. state[m] \in Texts /\ StatusState(state[m]) \notin Terminal /\ final[m] = None
    BY DEF Init
  <2>2. state[m] \notin Terminal
    BY <2>1, Unknown DEF StatusState, Parse, Terminal, States
  <2> QED
    BY <2>1, <2>2 DEF Mast
<1>3. /\ state \in [Messages -> Texts] /\ final \in [Messages -> Nat \cup {None}]
      /\ wait \in [Callers -> Poll] /\ crossed \in [Callers -> Int]
  BY <1>1, <1>2, IdleIs DEF Init
<1>4. ASSUME NEW w \in Callers
      PROVE  Good(wait[w], final[About[w]], state[About[w]], crossed[w], now)
  <2>1. wait[w] = Idle
    BY DEF Init
  <2> QED
    BY <1>1, <2>1, IdleIs DEF Good, Waiting
<1> QED
  BY <1>1, <1>2, <1>3, <1>4 DEF IInv

LEMMA StepIsGood ==
    ASSUME IInv, NEW w \in Callers, Step(w) \/ \E t \in Timeouts : Call(w, t)
    PROVE  IInv'
<1> DEFINE p      == wait[w]
           turned == final[About[w]]
           said   == state[About[w]]
           from   == crossed[w]
<1>0. /\ now \in Nat /\ now \in Int /\ p \in Poll /\ from \in Int
      /\ turned \in Int \cup {None}
      /\ Mast(turned, said, now) /\ Good(p, turned, said, from, now)
  BY EachIsGood
<1>1. p.pc = "awaiting" => Awaiting(p, turned, said, from, now)
  BY <1>0 DEF Good
<1>2. ASSUME NEW q, Back(w, q) PROVE p.pc = "awaiting" /\ UNCHANGED << now, state, final >>
  BY <1>2 DEF Back
<1>3. ASSUME NEW t \in Timeouts, Call(w, t) PROVE IInv'
  <2>1. PICK n \in 0 .. Len(Calling(t).spent) :
           /\ Expired(Calling(t), n)
           /\ wait' = [wait EXCEPT ![w] = Ticked(Calling(t), n)]
    BY <1>3 DEF Call, Tick
  <2>2. crossed' = [crossed EXCEPT ![w] = now] /\ UNCHANGED << now, state, final >>
    BY <1>3 DEF Call
  <2>3. /\ Calling(t) \in Poll /\ Calling(t).reply = None /\ Running(Calling(t), now)
        /\ Calling(t).lastPoll = Never /\ Calling(t).pausedUntil = 0
        /\ Before(now, Calling(t).deadline, Interval)
    BY <1>0, CallingIs
  <2>4. /\ Within(Calling(t).lastPoll, turned, now, 0)
        /\ Within(now, turned, now, Longest + Interval) /\ Calling(t).pausedUntil <= now
    <3>1. /\ Longest \in Nat /\ Interval \in Nat /\ Slowest \in Nat
          /\ turned # None => Later(turned, now) \in Int /\ now <= Later(turned, now)
      BY <1>0, Bounds, LongestIs, LaterIs
    <3> QED
      BY <1>0, <2>3, <3>1 DEF Within, Never
  <2>5. Good(Ticked(Calling(t), n), turned, said, now, now)
    BY <1>0, <2>1, <2>3, <2>4, TickedIsGood
  <2> QED
    BY <1>0, <2>1, <2>2, <2>5, OneStep
<1>4. CASE Wake(w)
  <2>1. PICK n \in 0 .. Len(p.spent) : Expired(p, n) /\ wait' = [wait EXCEPT ![w] = Ticked(p, n)]
    BY <1>4 DEF Wake, Tick
  <2>2. crossed' = [crossed EXCEPT ![w] = from] /\ UNCHANGED << now, state, final >>
    BY <1>4, SameCrossed DEF Wake
  <2>3. Sleeping(p, turned, from, now) /\ now = p.at
    <3>1. Sleeping(p, turned, from, now) /\ now >= p.at /\ p.at \in Int
      BY <1>0, <1>4 DEF Wake, Good, Poll
    <3> QED
      BY <1>0, <3>1 DEF Sleeping
  <2>4. Good(Ticked(p, n), turned, said, from, now)
    BY <1>0, <2>1, <2>3, TickedIsGood DEF Sleeping
  <2> QED
    BY <1>0, <2>1, <2>2, <2>4, OneStep
<1>5. CASE Arrive(w)
  <2>1. PICK r \in Reply : /\ wait' = [wait EXCEPT ![w] = [p EXCEPT !.reply = r]]
                           /\ r.kind = "status" => r.what = StatusState(said)
    <3>1. CASE wait' = [wait EXCEPT ![w].reply = [kind |-> "status", what |-> StatusState(said)]]
      <4>1. StatusState(said) \in Verdicts
        BY DEF StatusState, Parse, Verdicts
      <4>2. [kind |-> "status", what |-> StatusState(said)] \in Reply
        BY <4>1 DEF Reply
      <4> QED
        BY <3>1, <4>2
    <3>2. CASE wait' = [wait EXCEPT ![w].reply = [kind |-> "unknown", what |-> None]]
      <4>1. [kind |-> "unknown", what |-> None] \in Reply
        BY DEF Reply
      <4> QED
        BY <3>2, <4>1
    <3>3. CASE \E header \in Headers :
                  wait' = [wait EXCEPT ![w].reply = [kind |-> "limited", what |-> header]]
      <4>1. PICK header \in Headers :
               wait' = [wait EXCEPT ![w].reply = [kind |-> "limited", what |-> header]]
        BY <3>3
      <4>2. [kind |-> "limited", what |-> header] \in Reply
        BY DEF Reply
      <4> QED
        BY <4>1, <4>2
    <3> QED
      BY <1>5, <3>1, <3>2, <3>3 DEF Arrive
  <2>2. /\ p.pc = "awaiting" /\ UNCHANGED << now, state, final >>
        /\ crossed' = [crossed EXCEPT ![w] = from]
    BY <1>5, SameCrossed DEF Arrive
  <2>3. Good([p EXCEPT !.reply = r], turned, said, from, now)
    BY <1>0, <1>1, <2>1, <2>2, ArrivedIsGood
  <2> QED
    BY <1>0, <2>1, <2>2, <2>3, OneStep
<1>6. CASE Answered(w)
  <2>1. PICK q : /\ q = Landed([[p EXCEPT !.last = p.reply.what,
                                          !.open = ~ IsTerminal(p.reply.what)]
                                   EXCEPT !.reply = None])
                 /\ wait' = [wait EXCEPT ![w] = q]
    BY <1>6 DEF Answered, Back
  <2>2. /\ p.pc = "awaiting" /\ UNCHANGED << now, state, final >>
        /\ crossed' = [crossed EXCEPT ![w] = from]
    BY <1>2, <1>6, SameCrossed DEF Answered
  <2>3. Good(q, turned, said, from, now)
    BY <1>0, <1>1, <1>6, <2>1, <2>2, AnsweredIsGood DEF Answered, Came
  <2> QED
    BY <1>0, <2>1, <2>2, <2>3, OneStep
<1>7. CASE Limited(w)
  <2> DEFINE header == p.reply.what
             until  == now + Pause(Lib[w], header)
             told   == now + IF header \in Nat THEN header ELSE 1
  <2>1. PICK q : /\ q = Landed([[p EXCEPT !.pausedUntil = until, !.told = told]
                                   EXCEPT !.reply = None])
                 /\ wait' = [wait EXCEPT ![w] = q]
    BY <1>7 DEF Limited, Back
  <2>2. /\ p.pc = "awaiting" /\ UNCHANGED << now, state, final >>
        /\ crossed' = [crossed EXCEPT ![w] = until]
    BY <1>2, <1>7 DEF Limited
  <2>3. until \in Int /\ told \in Int /\ told <= until /\ now <= until
    BY <1>0 DEF Pause
  <2> HIDE DEF until, told
  <2>4. Good(q, turned, said, until, now)
    BY <1>0, <1>1, <2>1, <2>2, <2>3, LimitedIsGood
  <2> QED
    BY <1>0, <2>1, <2>2, <2>3, <2>4, OneStep
<1>8. CASE Disowned(w)
  <2>1. PICK q : /\ q = Landed([[p EXCEPT !.open = FALSE, !.error = TRUE] EXCEPT !.reply = None])
                 /\ wait' = [wait EXCEPT ![w] = q]
    BY <1>8 DEF Disowned, Back
  <2>2. /\ p.pc = "awaiting" /\ UNCHANGED << now, state, final >>
        /\ crossed' = [crossed EXCEPT ![w] = from]
    BY <1>2, <1>8, SameCrossed DEF Disowned
  <2>3. Good(q, turned, said, from, now)
    BY <1>0, <1>1, <2>1, <2>2, DisownedIsGood
  <2> QED
    BY <1>0, <2>1, <2>2, <2>3, OneStep
<1>9. CASE Blip(w)
  <2>1. PICK q : /\ q = Landed([p EXCEPT !.reply = None])
                 /\ wait' = [wait EXCEPT ![w] = q]
    BY <1>9 DEF Blip, Back
  <2>2. /\ p.pc = "awaiting" /\ UNCHANGED << now, state, final >>
        /\ crossed' = [crossed EXCEPT ![w] = now]
    BY <1>2, <1>9 DEF Blip
  <2>3. Good(q, turned, said, now, now)
    BY <1>0, <1>1, <2>1, <2>2, BlippedIsGood
  <2> QED
    BY <1>0, <2>1, <2>2, <2>3, OneStep
<1> QED
  BY <1>3, <1>4, <1>5, <1>6, <1>7, <1>8, <1>9 DEF Step

LEMMA TurnIsGood ==
    ASSUME IInv, NEW m \in Messages, Turn(m)
    PROVE  IInv'
<1>1. PICK s \in Texts : /\ state' = [state EXCEPT ![m] = s]
                         /\ final' = [final EXCEPT ![m] = IF s \in Terminal THEN now ELSE None]
                         /\ final[m] = None /\ UNCHANGED << now, wait, crossed >>
  BY DEF Turn
<1>2. now \in Nat /\ now \in {now, now + 1} /\ None \notin Int
  BY Bounds, Unknown DEF IInv
<1>3. state' \in [Messages -> Texts] /\ final' \in [Messages -> Nat \cup {None}]
  BY <1>1, <1>2 DEF IInv
<1>4. ASSUME NEW n \in Messages PROVE Mast(final[n], state[n], now)'
  <2>1. CASE n = m
    <3>1. state'[n] = s /\ final'[n] = IF s \in Terminal THEN now ELSE None
      BY <1>1, <2>1 DEF IInv
    <3> QED
      BY <1>1, <1>2, <3>1 DEF Mast
  <2>2. CASE n # m
    <3>1. state'[n] = state[n] /\ final'[n] = final[n]
      BY <1>1, <2>2 DEF IInv
    <3> QED
      BY <1>1, <3>1 DEF IInv
  <2> QED
    BY <2>1, <2>2
<1>5. ASSUME NEW w \in Callers
      PROVE  Good(wait[w], final[About[w]], state[About[w]], crossed[w], now)'
  <2>1. /\ crossed[w] \in Int /\ final[About[w]] \in Int \cup {None} /\ About[w] \in Messages
        /\ Mast(final[About[w]], state[About[w]], now)
        /\ Good(wait[w], final[About[w]], state[About[w]], crossed[w], now)
    BY EachIsGood DEF Messages
  <2>2. \/ final'[About[w]] = final[About[w]] /\ state'[About[w]] = state[About[w]]
        \/ final[About[w]] = None /\ final'[About[w]] \in {now, None}
    BY <1>1, <2>1 DEF IInv
  <2>3. final'[About[w]] \in Int \cup {None}
    BY <1>3, <2>1
  <2>4. wait[w].pc \in {"awaiting", "sleeping"} => now <= wait[w].at
    BY <2>1 DEF Good, Awaiting, Sleeping
  <2>5. Good(wait[w], final'[About[w]], state'[About[w]], crossed[w], now)
    BY <1>2, <2>1, <2>2, <2>3, <2>4, LaterIsGood
  <2> QED
    BY <1>1, <2>5
<1> QED
  BY <1>1, <1>3, <1>4, <1>5 DEF IInv

LEMMA PassIsGood ==
    ASSUME IInv, Pass
    PROVE  IInv'
<1>1. /\ now \in Nat /\ now' = now + 1 /\ now' \in {now, now + 1} /\ now' \in 0 .. Horizon
      /\ UNCHANGED << wait, crossed >> /\ None \notin Int
  BY Bounds, Unknown DEF IInv, Pass
<1>2. \/ UNCHANGED << state, final >>
      \/ /\ state' = [m \in Messages |-> IF final[m] = None THEN "acked" ELSE state[m]]
         /\ final' = [m \in Messages |-> IF final[m] = None THEN now' ELSE final[m]]
  BY DEF Pass
<1>3. state' \in [Messages -> Texts] /\ final' \in [Messages -> Nat \cup {None}]
  BY <1>1, <1>2, Unknown DEF IInv
<1>4. ASSUME NEW m \in Messages
      PROVE  \/ final'[m] = final[m] /\ state'[m] = state[m]
             \/ final[m] = None /\ final'[m] = now' /\ state'[m] = "acked"
  BY <1>2
<1>5. ASSUME NEW m \in Messages PROVE Mast(final[m], state[m], now)'
  <2>1. Mast(final[m], state[m], now)
    BY DEF IInv
  <2> QED
    BY <1>1, <1>4, <2>1, Unknown DEF Mast
<1>6. ASSUME NEW w \in Callers
      PROVE  Good(wait[w], final[About[w]], state[About[w]], crossed[w], now)'
  <2>1. /\ crossed[w] \in Int /\ final[About[w]] \in Int \cup {None} /\ About[w] \in Messages
        /\ Mast(final[About[w]], state[About[w]], now)
        /\ Good(wait[w], final[About[w]], state[About[w]], crossed[w], now)
        /\ wait[w].at \in Int
    BY EachIsGood DEF Messages, Poll
  <2>2. \/ final'[About[w]] = final[About[w]] /\ state'[About[w]] = state[About[w]]
        \/ final[About[w]] = None /\ final'[About[w]] \in {now', None}
    BY <1>4, <2>1
  <2>3. final'[About[w]] \in Int \cup {None}
    BY <1>3, <2>1
  <2>4. wait[w].pc \in {"awaiting", "sleeping"} => now' <= wait[w].at
    BY <1>1, <2>1 DEF Pass, Out
  <2>5. Good(wait[w], final'[About[w]], state'[About[w]], crossed[w], now')
    BY <1>1, <2>1, <2>2, <2>3, <2>4, LaterIsGood
  <2> QED
    BY <1>1, <2>5
<1> QED
  BY <1>1, <1>3, <1>5, <1>6 DEF IInv

LEMMA Invariance == Spec => []IInv
<1>1. IInv /\ [Next]_vars => IInv'
  <2> SUFFICES ASSUME IInv, [Next]_vars PROVE IInv'
    OBVIOUS
  <2>1. CASE Next
    BY <2>1, StepIsGood, TurnIsGood, PassIsGood DEF Next
  <2>2. CASE UNCHANGED vars
    BY <2>2 DEF vars, IInv
  <2> QED
    BY <2>1, <2>2
<1> QED
  BY <1>1, InitIsGood, PTL DEF Spec

-----------------------------------------------------------------------------
(* Types, that no wait that is out is past its next step, and that one that *)
(* met a 404 is over, for any number of waits.                             *)
THEOREM TypeCorrect == Spec => []TypeOK
<1>1. IInv => TypeOK
  <2> SUFFICES ASSUME IInv, NEW w \in Callers
               PROVE  /\ wait[w].pc \in Waiting /\ (Out(w) => now <= wait[w].at)
                      /\ wait[w].reply # None => wait[w].pc = "awaiting"
                      /\ wait[w].error => Handed(w)
                      /\ Len(wait[w].spent) <= Budget
    BY DEF IInv, TypeOK
  <2>1. Good(wait[w], final[About[w]], state[About[w]], crossed[w], now)
    BY EachIsGood
  <2>2. CASE wait[w].pc = "awaiting"
    BY <2>1, <2>2 DEF Good, Awaiting, Running, Out, Handed
  <2>3. CASE wait[w].pc = "sleeping"
    BY <2>1, <2>3 DEF Good, Sleeping, Running, Out, Handed
  <2>4. CASE wait[w].pc \in {"idle", "done"}
    <3>1. wait[w].spent = << >> /\ Len(<< >>) = 0 /\ 0 <= Budget
      BY <2>1, <2>4, Bounds DEF Good, Returned
    <3> QED
      BY <2>1, <2>4, <3>1 DEF Good, Returned, Out, Handed
  <2> QED
    BY <2>1, <2>2, <2>3, <2>4 DEF Good, Waiting
<1> QED
  BY <1>1, Invariance, PTL

(* The last verdict is what wait hands back unless it was a 404.            *)
LEMMA ResultIs ==
    ASSUME NEW w \in Callers, wait[w] \in Poll
    PROVE  /\ Result(w) \in Terminal => wait[w].last \in Terminal /\ Result(w) = wait[w].last
           /\ Result(w) \notin Terminal /\ ~ wait[w].error => wait[w].last \notin Terminal
           /\ Lib[w] = "rust" => (Result(w) = "error" <=> wait[w].error)
<1> DEFINE p == wait[w]
<1>1. p.last \in States \cup {"other", None}
  BY DEF Poll, Verdicts
<1>2. None \notin Terminal
  BY Unknown DEF Terminal, States
<1> HIDE DEF p
<1>3. Result(w) = IF Lib[w] = "rust" /\ p.error THEN "error"
                  ELSE IF p.last # None THEN p.last
                  ELSE IF Lib[w] = "rust" THEN "never read" ELSE "nothing"
  BY DEF Result, p
<1>4. "error" \notin Terminal /\ "never read" \notin Terminal /\ "nothing" \notin Terminal
  BY DEF Terminal
<1>5. /\ Result(w) \in Terminal => p.last \in Terminal /\ Result(w) = p.last
      /\ Result(w) \notin Terminal /\ ~ p.error => p.last \notin Terminal
  BY <1>2, <1>3, <1>4
<1>6. Lib[w] = "rust" => (Result(w) = "error" <=> p.error)
  BY <1>1, <1>3 DEF States
<1> QED
  BY <1>5, <1>6 DEF p

(* Once a page is final, the wait about it reads the final state within a   *)
(* rung, or a window where the budget is what holds it back, a sleep and a *)
(* request, counted from its last silence: however the waits on the key    *)
(* interleave, whatever Mast's limit refuses them.                         *)
THEOREM FinalIsHeard == Spec => []HeardInTime
<1>1. IInv => HeardInTime
  <2> SUFFICES ASSUME IInv, NEW w \in Callers, final[About[w]] # None,
                      final[About[w]] <= Given(w),
                      \/ Out(w)
                      \/ Handed(w) /\ ~ wait[w].error /\ Result(w) \notin Terminal
               PROVE  Given(w) <= Later(final[About[w]], crossed[w])
                                     + Longest + Interval + Latency
    BY DEF HeardInTime
  <2> DEFINE p      == wait[w]
             turned == final[About[w]]
             later  == Later(turned, crossed[w])
  <2>1. /\ now \in Nat /\ p \in Poll /\ turned \in Int /\ crossed[w] \in Int
        /\ Good(p, turned, state[About[w]], crossed[w], now)
    BY EachIsGood
  <2>2. /\ later \in Int /\ Longest \in Nat /\ Interval \in Nat /\ Latency \in Nat
        /\ p.at \in Int /\ p.lastPoll \in Int
    BY <2>1, Bounds, LongestIs, LaterIs DEF Poll
  <2>3. CASE p.pc = "awaiting"
    <3>1. Given(w) = now
      BY <2>3 DEF Given, Handed
    <3>2. /\ p.lastPoll <= later + Longest + Interval /\ now <= p.lastPoll + Latency
      <4>1. Awaiting(p, turned, state[About[w]], crossed[w], now)
        BY <2>1, <2>3 DEF Good
      <4> QED
        BY <2>1, <2>2, <4>1 DEF Awaiting, Within
    <3> HIDE DEF p, turned, later
    <3>3. now <= later + Longest + Interval + Latency
      BY <2>1, <2>2, <3>2
    <3> QED
      BY <3>1, <3>3 DEF turned, later
  <2>4. CASE p.pc = "sleeping"
    <3>1. Given(w) = now
      BY <2>4 DEF Given, Handed
    <3>2. p.at <= later + Longest + Interval /\ now <= p.at
      <4>1. Sleeping(p, turned, crossed[w], now)
        BY <2>1, <2>4 DEF Good
      <4> QED
        BY <2>1, <2>2, <4>1 DEF Sleeping, Within
    <3> HIDE DEF p, turned, later
    <3>3. now <= later + Longest + Interval + Latency
      BY <2>1, <2>2, <3>2
    <3> QED
      BY <3>1, <3>3 DEF turned, later
  <2>5. CASE p.pc \notin {"awaiting", "sleeping"}
    <3>1. Handed(w) /\ Given(w) = p.at /\ ~ p.error /\ p.last \notin Terminal
      BY <2>1, <2>5, ResultIs DEF Out, Handed, Given
    <3>2. Returned(p, turned, state[About[w]], crossed[w], now)
      BY <2>1, <3>1 DEF Good, Handed
    <3> QED
      BY <3>1, <3>2 DEF Returned
  <2> QED
    BY <2>3, <2>4, <2>5
<1> QED
  BY <1>1, Invariance, PTL

(* Nobody gives up before the timeout, and nobody outstays it by more than  *)
(* a sleep and a request.                                                  *)
THEOREM TimeoutIsKept == Spec => []TimeoutKept
<1>1. IInv => TimeoutKept
  <2> SUFFICES ASSUME IInv, NEW w \in Callers
               PROVE  /\ Handed(w) /\ ~ wait[w].error /\ Result(w) \notin Terminal =>
                             wait[w].deadline # None /\ wait[w].at >= wait[w].deadline
                      /\ (Out(w) \/ Handed(w)) /\ wait[w].deadline # None =>
                             Given(w) < wait[w].deadline + Interval + Latency
    BY DEF TimeoutKept
  <2> DEFINE p == wait[w]
  <2>1. /\ now \in Nat /\ p \in Poll
        /\ Good(p, final[About[w]], state[About[w]], crossed[w], now)
    BY EachIsGood
  <2>2. /\ Interval \in Nat /\ Latency \in Nat /\ p.at \in Int /\ p.lastPoll \in Int
        /\ p.deadline \in Int \cup {None}
    BY <2>1, Bounds DEF Poll
  <2>3. CASE p.pc = "awaiting"
    <3>1. Given(w) = now /\ ~ Handed(w)
      BY <2>3 DEF Given, Handed
    <3>2. p.deadline # None => p.lastPoll < p.deadline + Interval /\ now <= p.lastPoll + Latency
      BY <2>1, <2>2, <2>3 DEF Good, Awaiting, Before
    <3> QED
      BY <2>1, <2>2, <3>1, <3>2
  <2>4. CASE p.pc = "sleeping"
    <3>1. Given(w) = now /\ ~ Handed(w)
      BY <2>4 DEF Given, Handed
    <3>2. p.deadline # None => p.at < p.deadline + Interval /\ now <= p.at
      BY <2>1, <2>2, <2>4 DEF Good, Sleeping, Before
    <3> QED
      BY <2>1, <2>2, <3>1, <3>2
  <2>5. CASE p.pc = "done"
    <3>1. Handed(w) /\ ~ Out(w) /\ Given(w) = p.at
      BY <2>5 DEF Handed, Given, Out
    <3>2. Returned(p, final[About[w]], state[About[w]], crossed[w], now)
      BY <2>1, <2>5 DEF Good
    <3>3. ~ p.error /\ Result(w) \notin Terminal => p.last \notin Terminal
      BY <2>1, ResultIs
    <3>4. p.deadline # None => p.at < p.deadline + Interval + Latency
      BY <2>2, <3>2 DEF Returned, Before
    <3> QED
      BY <3>1, <3>2, <3>3, <3>4 DEF Returned
  <2>6. CASE p.pc \notin {"awaiting", "sleeping", "done"}
    BY <2>6 DEF Handed, Out
  <2> QED
    BY <2>3, <2>4, <2>5, <2>6
<1> QED
  BY <1>1, Invariance, PTL

(* A final state that is handed back is the page's own, and was final when  *)
(* it was handed back; a Rust wait tells a page that is not there from one *)
(* that was not answered in time.                                          *)
THEOREM ResultIsThePages == Spec => []ResultIsTrue
<1>1. IInv => ResultIsTrue
  <2> SUFFICES ASSUME IInv, NEW w \in Callers, Handed(w)
               PROVE  /\ Result(w) \in Terminal =>
                            /\ final[About[w]] # None /\ final[About[w]] <= wait[w].at
                            /\ Result(w) = state[About[w]]
                      /\ Lib[w] = "rust" => (Result(w) = "error" <=> wait[w].error)
    BY DEF ResultIsTrue
  <2>1. /\ wait[w] \in Poll
        /\ Returned(wait[w], final[About[w]], state[About[w]], crossed[w], now)
    BY EachIsGood DEF Good, Handed
  <2>2. Result(w) \in Terminal => wait[w].last \in Terminal /\ Result(w) = wait[w].last
    BY <2>1, ResultIs
  <2>3. Lib[w] = "rust" => (Result(w) = "error" <=> wait[w].error)
    BY <2>1, ResultIs
  <2> QED
    BY <2>1, <2>2, <2>3 DEF Returned
<1> QED
  BY <1>1, Invariance, PTL

(* A tick that asks is not paused.                                          *)
LEMMA AskingIsUnpaused ==
    ASSUME now \in Nat, NEW p \in Poll, NEW n \in 0 .. Len(p.spent),
           Ticked(p, n).pc = "awaiting"
    PROVE  now >= p.pausedUntil
<1>1. ASSUME NEW q \in Poll PROVE Landed(q).pc # "awaiting"
  BY <1>1, OverIs, AsleepIs DEF Landed
<1>2. ASSUME now < p.pausedUntil PROVE FALSE
  BY <1>1, <1>2 DEF Ticked
<1> QED
  BY <1>2 DEF Poll

(* Only a call and a wake make a wait ask.                                  *)
LEMMA AskingIsATick ==
    ASSUME IInv, [Next]_vars, NEW w \in Callers,
           wait'[w].pc = "awaiting", wait[w].pc # "awaiting"
    PROVE  Wake(w) \/ \E t \in Timeouts : Call(w, t)
<1>1. ASSUME NEW v \in Callers, v # w, NEW q, wait' = [wait EXCEPT ![v] = q]
      PROVE  FALSE
  BY <1>1 DEF IInv
<1>2. ASSUME NEW v \in Callers, Step(v) \/ \E t \in Timeouts : Call(v, t)
      PROVE  /\ wait[v].pc = "awaiting" \/ Wake(v) \/ \E t \in Timeouts : Call(v, t)
             /\ \E q : wait' = [wait EXCEPT ![v] = q]
  <2>1. CASE Wake(v) \/ \E t \in Timeouts : Call(v, t)
    BY <2>1 DEF Wake, Call, Tick
  <2>2. CASE Arrive(v)
    <3>1. wait[v].pc = "awaiting"
      BY <2>2 DEF Arrive
    <3>2. \E q : wait' = [wait EXCEPT ![v] = q]
      BY <2>2 DEF Arrive
    <3> QED
      BY <3>1, <3>2
  <2>3. CASE Answered(v) \/ Limited(v) \/ Disowned(v) \/ Blip(v)
    BY <2>3 DEF Answered, Limited, Disowned, Blip, Back
  <2> QED
    BY <1>2, <2>1, <2>2, <2>3 DEF Step
<1>3. CASE Pass \/ (\E m \in Messages : Turn(m)) \/ UNCHANGED vars
  BY <1>3 DEF Pass, Turn, vars
<1> QED
  BY <1>1, <1>2, <1>3 DEF Next

(* After a 429 nobody asks sooner than they were told, whatever the client  *)
(* makes of the header and however often it wakes in between.              *)
THEOREM ToldIsKept == Spec => NotBeforeTold
<1>1. IInv /\ [Next]_vars =>
          \A w \in Callers :
              wait'[w].pc = "awaiting" /\ wait[w].pc # "awaiting" => now >= wait[w].told
  <2> SUFFICES ASSUME IInv, [Next]_vars, NEW w \in Callers,
                      wait'[w].pc = "awaiting", wait[w].pc # "awaiting"
               PROVE  now >= wait[w].told
    OBVIOUS
  <2> DEFINE p == wait[w]
  <2>1. /\ now \in Nat /\ p \in Poll /\ p.told \in Int /\ p.pausedUntil \in Int
        /\ Good(p, final[About[w]], state[About[w]], crossed[w], now)
    BY EachIsGood DEF Poll
  <2>2. CASE \E t \in Timeouts : Call(w, t)
    BY <2>1, <2>2 DEF Call, Good
  <2>3. CASE Wake(w)
    <3>1. PICK n \in 0 .. Len(p.spent) : wait' = [wait EXCEPT ![w] = Ticked(p, n)]
      BY <2>3 DEF Wake, Tick
    <3>2. wait'[w] = Ticked(p, n)
      BY <3>1 DEF IInv
    <3>3. now >= p.pausedUntil
      BY <2>1, <3>2, AskingIsUnpaused
    <3>4. p.told <= p.pausedUntil
      BY <2>1, <2>3 DEF Wake, Good, Sleeping, Running
    <3> QED
      BY <2>1, <3>3, <3>4
  <2> QED
    BY <2>2, <2>3, AskingIsATick
<1> QED
  BY <1>1, Invariance, PTL DEF Spec, NotBeforeTold

-----------------------------------------------------------------------------
(* The limiter.  Where the poller of a wait is asked to tick, the loop that *)
(* drops old stamps stops, and at one place only: a wait that is due to     *)
(* step is not stuck, and the times above are not kept by standing still.   *)
TakeStops ==
    \A w \in Callers : \E n \in 0 .. Len(wait[w].spent) :
        /\ Expired(wait[w], n)
        /\ \A k \in 0 .. Len(wait[w].spent) : Expired(wait[w], k) => k = n

THEOREM TakeIsDecided == Spec => []TakeStops
<1>1. IInv => TakeStops
  <2> SUFFICES ASSUME IInv, NEW w \in Callers
               PROVE  \E n \in 0 .. Len(wait[w].spent) :
                         /\ Expired(wait[w], n)
                         /\ \A k \in 0 .. Len(wait[w].spent) : Expired(wait[w], k) => k = n
    BY DEF TakeStops
  <2> DEFINE p == wait[w]
             Old == { i \in 1 .. Len(p.spent) : now - p.spent[i] >= Window }
  <2>1. p \in Poll
    BY DEF IInv
  <2>2. /\ Len(p.spent) \in Nat /\ Window \in Nat /\ now \in Int
        /\ \A i \in 1 .. Len(p.spent) : p.spent[i] \in Int
    BY <2>1, Bounds DEF IInv, Poll
  <2>3. \A n \in 0 .. Len(p.spent) : Expired(p, n) <=> StopsAt(n, Len(p.spent), Old)
    BY <2>2 DEF Expired, StopsAt
  <2> HIDE DEF Old, p
  <2>4. PICK n \in 0 .. Len(p.spent) : StopsAt(n, Len(p.spent), Old)
    BY <2>2, FrontEnds
  <2>5. \A k \in 0 .. Len(p.spent) : StopsAt(k, Len(p.spent), Old) => k = n
    BY <2>2, <2>4, FrontEndsOnce
  <2>6. \E j \in 0 .. Len(p.spent) :
           Expired(p, j) /\ \A k \in 0 .. Len(p.spent) : Expired(p, k) => k = j
    BY <2>3, <2>4, <2>5
  <2> QED
    BY <2>6 DEF p
<1> QED
  BY <1>1, Invariance, PTL
=============================================================================
