------------------------------ MODULE Statuses ------------------------------
(***************************************************************************)
(* How the Rust client reads what Mast says of a message:                  *)
(* rust/src/status.rs.                                                     *)
(*                                                                         *)
(* A stamp is what its digits say, and whether the rest of it is as the    *)
(* reader wants it: twenty bytes or more, a T, dashes and colons in their  *)
(* places, a Z at the end.  Seconds since the epoch are kept as days and   *)
(* seconds of a day, which the code adds up in 64 bits.                    *)
(***************************************************************************)
EXTENDS Integers

CONSTANT None           \* a field that is missing, empty or of another type

States   == { "queued", "muted", "deduped", "suppressed", "alive", "acked",
              "resolved", "expired" }
Terminal == {"acked", "resolved", "expired"}

Stamp == [year : Int, month : Int, day : Int, hour : Int, minute : Int,
          second : Int, utc : BOOLEAN]

Moment == [days : Int, seconds : Int]

ASSUME UnknownAssumption == None \notin Stamp \cup Moment

(* A state this version has not heard of is carried through as it is.       *)
Parse(text) == IF text \in States THEN text ELSE "other"

StatusState(text) == IF text = None THEN "other" ELSE Parse(text)

\* Mutant: a page that was acknowledged is asked about again.
IsTerminalWithoutAck(state) == state \in {"resolved", "expired"}

IsTerminal(state) == state \in Terminal
-----------------------------------------------------------------------------
(* Integer division as Rust has it: towards zero.                           *)
Quotient(a, b) == IF a >= 0 THEN a \div b ELSE - ((- a) \div b)

(* The year begins with March here: the day of such a year, and the days    *)
(* before it, in eras of 400 years.                                        *)
MarchYear(year, month) == IF month <= 2 THEN year - 1 ELSE year

DayOfYear(month, day) ==
    (153 * (IF month > 2 THEN month - 3 ELSE month + 9) + 2) \div 5 + day - 1

\* Mutant: the last year of an era has no leap day.
DaysOfShortEras(y) == 365 * y + Quotient(y, 4) - Quotient(y, 100) + 4

DaysOfYears(y) ==
    LET era == Quotient(IF y >= 0 THEN y ELSE y - 399, 400)
        yoe == y - era * 400
    IN  era * 146097 + yoe * 365 + yoe \div 4 - yoe \div 100

DaysFromCivil(year, month, day) ==
    DaysOfYears(MarchYear(year, month)) + DayOfYear(month, day) - 719468

(* A month and a day are looked at, whatever the month; an hour, a minute   *)
(* and a second are not.                                                   *)
EpochSeconds(stamp) ==
    IF ~ stamp.utc \/ stamp.month \notin 1 .. 12 \/ stamp.day \notin 1 .. 31 THEN None
    ELSE [days    |-> DaysFromCivil(stamp.year, stamp.month, stamp.day),
          seconds |-> stamp.hour * 3600 + stamp.minute * 60 + stamp.second]

Elapsed(from, to) == (to.days - from.days) * 86400 + to.seconds - from.seconds

\* Mutant: the resolve is looked at first.
EndOfResolve(status) ==
    IF status.resolved_at # None THEN status.resolved_at ELSE status.acked_at

(* An ack is preferred, even one that cannot be read.                       *)
EndOf(status) == IF status.acked_at # None THEN status.acked_at ELSE status.resolved_at

\* Mutant: stamps out of order are handed on as they are.
NotNegativeAtAll(seconds) == seconds

NotNegative(seconds) == IF seconds > 0 THEN seconds ELSE 0

Read(stamp) == IF stamp = None THEN None ELSE EpochSeconds(stamp)

OpenFor(status) ==
    LET start == Read(status.received_at)
        end   == Read(EndOf(status))
    IN  IF start = None \/ end = None THEN None ELSE NotNegative(Elapsed(start, end))
=============================================================================
