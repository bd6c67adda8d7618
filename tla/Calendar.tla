------------------------------ MODULE Calendar ------------------------------
(***************************************************************************)
(* The civil calendar, counted month by month, and a card of Mast's whose  *)
(* stamps are taken from it: what rust/src/status.rs makes of the stamps   *)
(* is held against the days that were counted.                             *)
(*                                                                         *)
(* Nothing here is code of the clients.  The calendar is the Gregorian one *)
(* before its time too, as RFC 3339 has it.                                *)
(***************************************************************************)
EXTENDS Statuses

CONSTANTS
    First, Last,    \* bounds: the years that are counted
    CardYears,      \* bound: the years cards are received in
    MonthDays,      \* bound: the days of a month a card is stamped on
    Clocks,         \* bound: the times of day, hour, minute and second
    Later           \* bound: months a card is followed

Clock == [hour : 0 .. 23, minute : 0 .. 59, second : 0 .. 60]

Instant == [stamp : Stamp, days : Int, seconds : Int]

ASSUME UnstampedAssumption == None \notin Instant
ASSUME YearAssumption == First \in Int /\ Last \in Int /\ 1970 \in First .. Last
ASSUME StampAssumption ==
    /\ CardYears \subseteq First .. Last
    /\ MonthDays \subseteq 1 .. 31 /\ Clocks \subseteq Clock
    /\ Later \in Nat

VARIABLES
    year, month,    \* the month on the page of the calendar
    days,           \* days counted from the first of January 1970 to its first
    card,           \* when Mast received, acknowledged and resolved the card
    followed        \* months since the card was received

civilVars == << year, month, days, card, followed >>
-----------------------------------------------------------------------------
Leap(y) == y % 4 = 0 /\ (y % 100 # 0 \/ y % 400 = 0)

Length(y, m) == CASE m \in {4, 6, 9, 11} -> 30
                  [] m = 2 -> IF Leap(y) THEN 29 ELSE 28
                  [] OTHER -> 31

Before(y, m) == IF m = 1 THEN [year |-> y - 1, month |-> 12]
                         ELSE [year |-> y, month |-> m - 1]

Unstamped == [received |-> None, acked |-> None, resolved |-> None]

CivilInit == year = 1970 /\ month = 1 /\ days = 0 /\ card = Unstamped /\ followed = 0

TurnForward ==
    /\ year < Last \/ month < 12
    /\ card # Unstamped => followed < Later
    /\ followed' = IF card = Unstamped THEN 0 ELSE followed + 1
    /\ days' = days + Length(year, month)
    /\ IF month = 12 THEN year' = year + 1 /\ month' = 1
                     ELSE year' = year /\ month' = month + 1
    /\ UNCHANGED card

TurnBack ==
    /\ card = Unstamped
    /\ year > First \/ month > 1
    /\ year' = Before(year, month).year /\ month' = Before(year, month).month
    /\ days' = days - Length(year', month')
    /\ UNCHANGED << card, followed >>

(* An instant: how Mast writes it, and where it is in the count.            *)
Instants ==
    { [stamp |-> [year |-> year, month |-> month, day |-> d, hour |-> c.hour,
                  minute |-> c.minute, second |-> c.second, utc |-> TRUE],
       days    |-> days + d - 1,
       seconds |-> c.hour * 3600 + c.minute * 60 + c.second] :
      d \in MonthDays \cap 1 .. Length(year, month), c \in Clocks }

(* Mast stamps what happens to a card: it is received, and then acknowledged *)
(* or resolved or both.                                                    *)
Receive == /\ card = Unstamped /\ year \in CardYears
           /\ \E now \in Instants : card' = [card EXCEPT !.received = now]
           /\ UNCHANGED << year, month, days, followed >>

Acknowledge == /\ card.received # None /\ card.acked = None
               /\ \E now \in Instants : card' = [card EXCEPT !.acked = now]
               /\ UNCHANGED << year, month, days, followed >>

Resolve == /\ card.received # None /\ card.resolved = None
           /\ \E now \in Instants : card' = [card EXCEPT !.resolved = now]
           /\ UNCHANGED << year, month, days, followed >>

CivilNext == TurnForward \/ TurnBack \/ Receive \/ Acknowledge \/ Resolve

CivilSpec == CivilInit /\ [][CivilNext]_civilVars
-----------------------------------------------------------------------------
(* The calendar of the client is the calendar: each day of the month has    *)
(* the number it was counted to, in leap years, at the turn of a century   *)
(* and before the year 0.                                                  *)
DaysCounted ==
    \A d \in 1 .. Length(year, month) : DaysFromCivil(year, month, d) = days + d - 1

(* The status Mast sends of the card, with the stamps it could not work out *)
(* left out, and stamps this client cannot read.                           *)
Written(instant, stamp, omitted, garbled) ==
    CASE instant = None \/ stamp \in omitted -> None
      [] instant # None /\ stamp \in garbled \ omitted -> [instant.stamp EXCEPT !.utc = FALSE]
      [] OTHER -> instant.stamp

StatusOf(omitted, garbled) ==
    [received_at |-> Written(card.received, "received", omitted, garbled),
     acked_at    |-> Written(card.acked, "acked", omitted, garbled),
     resolved_at |-> Written(card.resolved, "resolved", omitted, garbled)]

(* open_for is the time that was counted between the receipt and the answer, *)
(* the ack before the resolve, over midnight and the end of a month and a  *)
(* year; never less than nothing; and unknown, not zero, when a stamp it   *)
(* needs is missing or not to be read.                                     *)
OpenForIsElapsed ==
    \A omitted, garbled \in SUBSET {"received", "acked", "resolved"} :
        LET end    == IF card.acked # None /\ "acked" \notin omitted THEN "acked" ELSE "resolved"
            needed == {"received", end}
            known  == /\ needed \cap (omitted \cup garbled) = {}
                      /\ card.received # None /\ card[end] # None
            passed == Elapsed(card.received, card[end])
        IN  OpenFor(StatusOf(omitted, garbled)) =
                IF ~ known THEN None ELSE IF passed < 0 THEN 0 ELSE passed
=============================================================================
