---------------------------- MODULE OpeningHours ----------------------------
(***************************************************************************)
(* core/schedule.py: when a series is open (is_open) and how much of an    *)
(* interval is open time (open_time), a loop over the local days that the  *)
(* interval touches.                                                       *)
(*                                                                         *)
(* Moments are integers of UTC time. The zone is one change of offset at   *)
(* Change (a daylight saving transition), as zoneinfo applies it; a zone   *)
(* of fixed offset has Before = After. Two rules of Python's datetime      *)
(* decide what the loop computes: a difference between two values that     *)
(* carry the same ZoneInfo is taken on the local clock, any other on UTC;  *)
(* and a local time that a change skips or repeats is read with fold=0,    *)
(* the offset before the change.                                           *)
(***************************************************************************)
EXTENDS Integers, FiniteSets

CONSTANTS
    DayLength,       \* the local day
    Weekdays,        \* the weekdays it is open, of 0 .. 6
    Opens, Closes,   \* the local times it opens and closes
    Change,          \* when the offset changes
    Before, After,   \* the offset before and after
    Moments          \* bound: the moments asked about

ASSUME HoursAssumption ==
    /\ DayLength \in Nat \ {0}
    /\ Weekdays \subseteq 0 .. 6 /\ Weekdays # {}
    /\ Opens \in 0 .. DayLength - 1 /\ Closes \in 0 .. DayLength - 1
    /\ Opens < Closes
ASSUME ZoneAssumption ==
    /\ Change \in Int /\ Before \in Int /\ After \in Int
    /\ Moments \subseteq Int
    /\ \A t \in Moments : t + Before >= 0 /\ t + After >= 0

VARIABLES
    start, end,   \* the arguments of open_time
    day,          \* its loop variable, a local date
    total,        \* its result so far
    pc

vars == <<start, end, day, total, pc>>

----------------------------------------------------------------------------
(* The zone. *)
Offset(t) == IF t >= Change THEN After ELSE Before
Local(t) == t + Offset(t)
Date(t) == Local(t) \div DayLength
Time(t) == Local(t) % DayLength

Larger(m, n) == IF m > n THEN m ELSE n

(* The UTC moment of a local time, with fold=0. *)
Utc(local) ==
    local - (IF local >= Change + Larger(Before, After) THEN After ELSE Before)

Weekday(date) == date % 7

IsOpen(t) == Weekday(Date(t)) \in Weekdays /\ Opens <= Time(t) /\ Time(t) <= Closes

----------------------------------------------------------------------------
(* A datetime: one in UTC, or one that carries the zone of the hours.      *)
InUtc(t) == [utc |-> t, local |-> Local(t), zoned |-> FALSE]
Combine(date, time) ==
    LET local == date * DayLength + time
    IN  [utc |-> Utc(local), local |-> local, zoned |-> TRUE]

(* Comparisons between zones are made in UTC. *)
Earliest(a, b) == IF b.utc < a.utc THEN b ELSE a
Latest(a, b) == IF b.utc > a.utc THEN b ELSE a
Difference(a, b) == IF a.zoned /\ b.zoned THEN a.local - b.local ELSE a.utc - b.utc

(* Mutant: the whole day counts, whenever the interval ends. *)
UntilClose(date) == Combine(date, Closes)

(* The part of the interval that is in the hours of a day. *)
Until(date) == Earliest(InUtc(end), Combine(date, Closes))

From(date) == Latest(InUtc(start), Combine(date, Opens))

(* Mutant: an interval that misses the hours of a day counts against it. *)
OverlapUnclamped(date) == Difference(Until(date), From(date))

(* What the body of the loop adds for an open day. *)
Overlap(date) == Larger(Difference(Until(date), From(date)), 0)

----------------------------------------------------------------------------
(* The value may be newer than the moment it is read. *)
Init ==
    /\ start \in Moments /\ end \in Moments
    /\ day = Date(start)
    /\ total = 0
    /\ pc = IF end <= start THEN "done" ELSE "loop"

CountDay ==
    /\ pc = "loop" /\ day <= Date(end)
    /\ Weekday(day) \in Weekdays
    /\ total' = total + Overlap(day)
    /\ day' = day + 1
    /\ UNCHANGED <<start, end, pc>>

SkipDay ==
    /\ pc = "loop" /\ day <= Date(end)
    /\ Weekday(day) \notin Weekdays
    /\ day' = day + 1
    /\ UNCHANGED <<start, end, total, pc>>

(* Mutant: the day the interval ends in is left out. *)
ReturnEarly ==
    /\ pc = "loop" /\ day >= Date(end)
    /\ pc' = "done"
    /\ UNCHANGED <<start, end, day, total>>

Return ==
    /\ pc = "loop" /\ day > Date(end)
    /\ pc' = "done"
    /\ UNCHANGED <<start, end, day, total>>

Next == CountDay \/ SkipDay \/ Return

Spec == Init /\ [][Next]_vars

----------------------------------------------------------------------------
(* The state is of its type. *)
TypeOK ==
    /\ start \in Moments /\ end \in Moments
    /\ day \in Nat
    /\ total \in Nat
    /\ pc \in {"loop", "done"}

(* The open time of an interval, by definition: its moments at which       *)
(* is_open holds and still holds until the next.                           *)
OpenIn(from, to) ==
    Cardinality({t \in from .. to - 1 : IsOpen(t) /\ Time(t) < Closes})

(* "How much of [start, end] falls inside opening hours" (schedule.py),    *)
(* when open_time returns.                                                 *)
CountsOpenTime == pc = "done" => total = OpenIn(start, end)

(* The inductive invariant: what is counted is the open time of the days   *)
(* before the one the loop is at.                                          *)
Counted(from, to, date) ==
    {t \in from .. to - 1 : IsOpen(t) /\ Time(t) < Closes /\ Date(t) < date}
IInv ==
    /\ TypeOK
    /\ pc = "loop" => start < end /\ total = Cardinality(Counted(start, end, day))
    /\ CountsOpenTime

(* The offset does not change in the hours of an open day: the local times *)
(* that the change skips or repeats are before they open or after they     *)
(* close.                                                                  *)
ClosedAtChange ==
    \A date \in Nat : Weekday(date) \in Weekdays =>
        \/ \A offset \in {Before, After} : date * DayLength + Closes <= Change + offset
        \/ \A offset \in {Before, After} : date * DayLength + Opens >= Change + offset

=============================================================================
