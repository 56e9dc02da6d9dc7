------------------------- MODULE OpeningHoursProofs -------------------------
(***************************************************************************)
(* open_time (core/schedule.py) for any hours, zone and interval: its      *)
(* state is of its type, and its result is the open time of the interval   *)
(* unless the offset changes in the hours of an open day, which is when    *)
(* Python's two kinds of difference disagree.                              *)
(***************************************************************************)
EXTENDS OpeningHours, FiniteSetTheorems, TLAPS

(* The clock of the day: dates and times of day are division by its length. *)
LEMMA Division ==
    ASSUME NEW a \in Int, NEW n \in Nat \ {0}
    PROVE  /\ a \div n \in Int /\ a % n \in 0 .. n - 1
           /\ a = n * (a \div n) + (a % n)
OBVIOUS

(* When a local date begins.                                               *)
Midnight(date) == date * DayLength

LEMMA Midnights ==
    /\ \A d \in Int : Midnight(d) \in Int
    /\ \A d, e \in Int : d < e => Midnight(d) + DayLength <= Midnight(e)
    /\ \A d \in Int : Midnight(d + 1) = Midnight(d) + DayLength
    /\ Midnight(0) = 0
<1>1. \A d \in Int : d * DayLength \in Int
  BY HoursAssumption
<1>2. \A d \in Int : (d + 1) * DayLength = d * DayLength + DayLength
  BY HoursAssumption
<1>3. ASSUME NEW d \in Int, NEW e \in Int, d < e
      PROVE  d * DayLength + DayLength <= e * DayLength
  <2>1. e - d - 1 \in Nat
    BY <1>3
  <2>2. (e - d - 1) * DayLength \in Nat
    BY <2>1, HoursAssumption
  <2>3. (e - d - 1) * DayLength = e * DayLength - d * DayLength - DayLength
    BY HoursAssumption
  <2> QED BY <1>1, <2>2, <2>3, HoursAssumption
<1>4. 0 * DayLength = 0
  BY HoursAssumption
<1> QED BY <1>1, <1>2, <1>3, <1>4 DEF Midnight

(* A local time is a date and a time of day.                               *)
LEMMA DateAndTime ==
    ASSUME NEW t \in Int
    PROVE  /\ Local(t) \in Int /\ Date(t) \in Int /\ Time(t) \in 0 .. DayLength - 1
           /\ Local(t) = Midnight(Date(t)) + Time(t)
<1>1. Local(t) \in Int
  BY ZoneAssumption DEF Local, Offset
<1>2. /\ Date(t) \in Int /\ Time(t) \in 0 .. DayLength - 1
      /\ Local(t) = DayLength * Date(t) + Time(t)
  BY <1>1, Division, HoursAssumption DEF Date, Time
<1>3. DayLength * Date(t) = Date(t) * DayLength
  BY <1>2, HoursAssumption
<1> QED BY <1>1, <1>2, <1>3 DEF Midnight

(* Of two local times the earlier has not the later date.                  *)
LEMMA DatesInOrder ==
    ASSUME NEW t \in Int, NEW u \in Int, Local(t) <= Local(u)
    PROVE  Date(t) <= Date(u)
<1>1. /\ Date(t) \in Int /\ Date(u) \in Int /\ Local(t) \in Int /\ Local(u) \in Int
      /\ Time(t) \in 0 .. DayLength - 1 /\ Time(u) \in 0 .. DayLength - 1
      /\ Local(t) = Midnight(Date(t)) + Time(t) /\ Local(u) = Midnight(Date(u)) + Time(u)
  BY DateAndTime
<1>2. Midnight(Date(t)) \in Int /\ Midnight(Date(u)) \in Int /\ DayLength \in Nat
  BY <1>1, Midnights, HoursAssumption
<1>3. Date(u) < Date(t) => Midnight(Date(u)) + DayLength <= Midnight(Date(t))
  BY <1>1, Midnights
<1> QED BY <1>1, <1>2, <1>3

(* Dates are counted from zero.                                            *)
LEMMA DatesAreNat ==
    ASSUME NEW from \in Moments, NEW t \in Int, from <= t
    PROVE  Date(t) \in Nat
<1>1. Local(t) >= 0
  BY ZoneAssumption DEF Local, Offset
<1>2. /\ Date(t) \in Int /\ Time(t) \in 0 .. DayLength - 1 /\ DayLength \in Nat
      /\ Local(t) = Midnight(Date(t)) + Time(t)
  BY DateAndTime, HoursAssumption
<1>3. Date(t) < 0 => Midnight(Date(t)) + DayLength <= 0
  BY <1>2, Midnights
<1>4. Midnight(Date(t)) \in Int
  BY <1>2, Midnights
<1> QED BY <1>1, <1>2, <1>3, <1>4

(* The open moments of a date.                                             *)
InHours(t) == Opens <= Time(t) /\ Time(t) < Closes

(* They are where the local clock shows the hours of that date.            *)
LEMMA HoursOnClock ==
    ASSUME NEW t \in Int, NEW d \in Int
    PROVE  Date(t) = d /\ InHours(t) <=>
               Midnight(d) + Opens <= Local(t) /\ Local(t) < Midnight(d) + Closes
<1>1. /\ Date(t) \in Int /\ Local(t) \in Int /\ Time(t) \in 0 .. DayLength - 1
      /\ Local(t) = Midnight(Date(t)) + Time(t)
  BY DateAndTime
<1>2. /\ DayLength \in Nat /\ Opens \in 0 .. DayLength - 1 /\ Closes \in 0 .. DayLength - 1
      /\ Midnight(d) \in Int /\ Midnight(Date(t)) \in Int
  BY <1>1, HoursAssumption, Midnights
<1>3. CASE Date(t) = d
  BY <1>1, <1>2, <1>3 DEF InHours
<1>4. CASE Date(t) < d
  <2>1. Midnight(Date(t)) + DayLength <= Midnight(d)
    BY <1>1, <1>4, Midnights
  <2> QED BY <1>1, <1>2, <1>4, <2>1
<1>5. CASE d < Date(t)
  <2>1. Midnight(d) + DayLength <= Midnight(Date(t))
    BY <1>1, <1>5, Midnights
  <2> QED BY <1>1, <1>2, <1>5, <2>1
<1> QED BY <1>1, <1>3, <1>4, <1>5

(* On an open date the clock is the same from opening to closing, so the   *)
(* hours are an interval of UTC, as long as they are on the local clock.   *)
LEMMA HoursInUtc ==
    ASSUME ClosedAtChange, NEW d \in Nat, Weekday(d) \in Weekdays
    PROVE  LET opens == Combine(d, Opens).utc
               closes == Combine(d, Closes).utc
           IN  /\ opens \in Int /\ closes \in Int /\ closes - opens = Closes - Opens
               /\ \A t \in Int : Date(t) = d /\ InHours(t) <=> opens <= t /\ t < closes
<1> DEFINE first == Midnight(d) + Opens
           last == Midnight(d) + Closes
<1>1. Combine(d, Opens).utc = Utc(first) /\ Combine(d, Closes).utc = Utc(last)
  BY DEF Combine, Midnight
<1>2. /\ first \in Int /\ last \in Int /\ first < last /\ last - first = Closes - Opens
      /\ Change \in Int /\ Before \in Int /\ After \in Int
  <2>1. Midnight(d) \in Int
    BY Midnights
  <2>2. Opens \in Int /\ Closes \in Int /\ Opens < Closes
    BY HoursAssumption
  <2> QED BY <2>1, <2>2, ZoneAssumption
<1>3. \/ last <= Change + Before /\ last <= Change + After
      \/ first >= Change + Before /\ first >= Change + After
  BY DEF ClosedAtChange, Midnight
<1>4. \A t \in Int : Date(t) = d /\ InHours(t) <=> first <= Local(t) /\ Local(t) < last
  BY HoursOnClock
<1> HIDE DEF first, last
<1>5. \/ Utc(first) = first - Before /\ Utc(last) = last - Before
      \/ Utc(first) = first - After /\ Utc(last) = last - After
  BY <1>2, <1>3 DEF Utc, Larger
<1>6. \A t \in Int : first <= Local(t) /\ Local(t) < last <=> Utc(first) <= t /\ t < Utc(last)
  BY <1>2, <1>3 DEF Utc, Larger, Local, Offset
<1>7. Utc(first) \in Int /\ Utc(last) \in Int /\ Utc(last) - Utc(first) = Closes - Opens
  BY <1>2, <1>5, HoursAssumption
<1> QED BY <1>1, <1>4, <1>6, <1>7

(* The loop passes every open date of the interval, whatever the change    *)
(* does to the date of a moment at which it is closed.                     *)
LEMMA OpenDates ==
    ASSUME ClosedAtChange, NEW t \in Int, Date(t) \in Nat, Weekday(Date(t)) \in Weekdays,
           InHours(t), NEW u \in Int
    PROVE  /\ u <= t => Date(u) <= Date(t)
           /\ t <= u => Date(t) <= Date(u)
<1> DEFINE first == Midnight(Date(t)) + Opens
           last == Midnight(Date(t)) + Closes
<1>1. /\ first \in Int /\ last \in Int
      /\ Change \in Int /\ Before \in Int /\ After \in Int
  <2>1. Midnight(Date(t)) \in Int
    BY Midnights
  <2>2. Opens \in Int /\ Closes \in Int
    BY HoursAssumption
  <2> QED BY <2>1, <2>2, ZoneAssumption
<1>2. \/ last <= Change + Before /\ last <= Change + After
      \/ first >= Change + Before /\ first >= Change + After
  BY DEF ClosedAtChange, Midnight
<1>3. first <= Local(t) /\ Local(t) < last
  BY HoursOnClock
<1> HIDE DEF first, last
<1>4. /\ u <= t => Local(u) <= Local(t)
      /\ t <= u => Local(t) <= Local(u)
  BY <1>1, <1>2, <1>3 DEF Local, Offset
<1> QED BY <1>4, DatesInOrder

----------------------------------------------------------------------------
(* What the loop adds for an open day is the open time of that day.        *)

Lesser(m, n) == IF m < n THEN m ELSE n

LEMMA OverlapIs ==
    ASSUME ClosedAtChange, start \in Moments, end \in Moments,
           NEW d \in Nat, Weekday(d) \in Weekdays
    PROVE  LET from == Larger(start, Combine(d, Opens).utc)
               to == Lesser(end, Combine(d, Closes).utc)
           IN  /\ from \in Int /\ to \in Int
               /\ Overlap(d) = Larger(to - from, 0)
<1> DEFINE opens == Combine(d, Opens)
           closes == Combine(d, Closes)
<1>1. /\ opens.utc \in Int /\ closes.utc \in Int
      /\ closes.utc - opens.utc = Closes - Opens
      /\ start \in Int /\ end \in Int
  BY HoursInUtc, ZoneAssumption
<1>2. closes.local - opens.local = Closes - Opens
  <2>1. closes.local = Midnight(d) + Closes /\ opens.local = Midnight(d) + Opens
    BY DEF Combine, Midnight
  <2>2. Midnight(d) \in Int /\ Opens \in Int /\ Closes \in Int
    BY Midnights, HoursAssumption
  <2> QED BY <2>1, <2>2
<1>3. opens.zoned /\ closes.zoned
  BY DEF Combine
<1>4. /\ InUtc(start).utc = start /\ ~InUtc(start).zoned
      /\ InUtc(end).utc = end /\ ~InUtc(end).zoned
  BY DEF InUtc
<1> HIDE DEF opens, closes
<1>5. Difference(Earliest(InUtc(end), closes), Latest(InUtc(start), opens))
          = Lesser(end, closes.utc) - Larger(start, opens.utc)
  BY <1>1, <1>2, <1>3, <1>4 DEF Difference, Earliest, Latest, Lesser, Larger
<1>6. Overlap(d) = Larger(Lesser(end, closes.utc) - Larger(start, opens.utc), 0)
  BY <1>5 DEF Overlap, Until, From, opens, closes
<1>7. Larger(start, opens.utc) \in Int /\ Lesser(end, closes.utc) \in Int
  BY <1>1 DEF Larger, Lesser
<1> QED BY <1>6, <1>7 DEF opens, closes

(* The loop's next day adds its open moments to those counted.             *)
LEMMA CountedNext ==
    ASSUME NEW from \in Int, NEW to \in Int, NEW d \in Nat,
           \A t \in Int : from <= t => Date(t) \in Nat
    PROVE  /\ IsFiniteSet(Counted(from, to, d)) /\ Cardinality(Counted(from, to, d)) \in Nat
           /\ Weekday(d) \notin Weekdays => Counted(from, to, d + 1) = Counted(from, to, d)
           /\ Weekday(d) \in Weekdays =>
                  LET ofDay == {t \in from .. to - 1 : Date(t) = d /\ InHours(t)}
                  IN  Cardinality(Counted(from, to, d + 1)) =
                          Cardinality(Counted(from, to, d)) + Cardinality(ofDay)
<1> DEFINE ofDay == {t \in from .. to - 1 : Date(t) = d /\ InHours(t)}
           before == Counted(from, to, d)
<1>1. \A t \in from .. to - 1 : t \in Int /\ Date(t) \in Nat
  OBVIOUS
<1>2. IsFiniteSet(from .. to - 1) /\ to - 1 \in Int
  BY FS_Interval
<1>3. IsFiniteSet(before) /\ IsFiniteSet(ofDay)
  <2>1. before \in SUBSET (from .. to - 1) /\ ofDay \in SUBSET (from .. to - 1)
    BY DEF Counted
  <2> HIDE DEF before, ofDay
  <2> QED BY <1>2, <2>1, FS_Subset
<1>4. Weekday(d) \notin Weekdays => Counted(from, to, d + 1) = before
  BY <1>1 DEF Counted, IsOpen
<1>5. ASSUME Weekday(d) \in Weekdays
      PROVE  Cardinality(Counted(from, to, d + 1)) = Cardinality(before) + Cardinality(ofDay)
  <2>1. \A t \in from .. to - 1 : Date(t) < d + 1 <=> Date(t) < d \/ Date(t) = d
    BY <1>1
  <2>2. \A t \in from .. to - 1 : Date(t) = d =>
            (IsOpen(t) /\ Time(t) < Closes <=> InHours(t))
    BY <1>1, <1>5, DateAndTime, HoursAssumption DEF IsOpen, InHours
  <2>3. Counted(from, to, d + 1) = before \cup ofDay
    BY <2>1, <2>2 DEF Counted
  <2>4. before \cap ofDay = {}
    BY <1>1 DEF Counted
  <2> HIDE DEF before, ofDay
  <2>5. Cardinality(before \cup ofDay) = Cardinality(before) + Cardinality(ofDay) - Cardinality({})
    BY <1>3, <2>4, FS_Union
  <2>6. Cardinality({}) = 0 /\ Cardinality(before) \in Nat /\ Cardinality(ofDay) \in Nat
    BY <1>3, FS_EmptySet, FS_CardinalityType
  <2> QED BY <2>3, <2>5, <2>6
<1>6. Cardinality(before) \in Nat
  BY <1>3, FS_CardinalityType
<1> QED BY <1>3, <1>4, <1>5, <1>6

(* Those are as many as the loop adds.                                     *)
LEMMA DayIsOverlap ==
    ASSUME ClosedAtChange, start \in Moments, end \in Moments,
           NEW d \in Nat, Weekday(d) \in Weekdays
    PROVE  Cardinality({t \in start .. end - 1 : Date(t) = d /\ InHours(t)}) = Overlap(d)
<1> DEFINE opens == Combine(d, Opens).utc
           closes == Combine(d, Closes).utc
           from == Larger(start, opens)
           to == Lesser(end, closes)
           ofDay == {t \in start .. end - 1 : Date(t) = d /\ InHours(t)}
<1>1. /\ opens \in Int /\ closes \in Int /\ start \in Int /\ end \in Int
      /\ \A t \in Int : Date(t) = d /\ InHours(t) <=> opens <= t /\ t < closes
  BY HoursInUtc, ZoneAssumption
<1>2. from \in Int /\ to \in Int /\ Overlap(d) = Larger(to - from, 0)
  BY OverlapIs
<1> HIDE DEF opens, closes
<1>3. ofDay = from .. to - 1
  BY <1>1 DEF Larger, Lesser
<1> HIDE DEF from, to, ofDay
<1>4. to - 1 \in Int
  BY <1>2
<1>5. Cardinality(from .. to - 1) = IF from > to - 1 THEN 0 ELSE to - 1 - from + 1
  BY <1>2, <1>4, FS_Interval
<1>6. Cardinality(ofDay) = Overlap(d)
  BY <1>2, <1>3, <1>5 DEF Larger
<1> QED BY <1>6 DEF ofDay

----------------------------------------------------------------------------
(* The loop.                                                               *)

(* Whatever the zone does, a day adds no less than nothing.                *)
LEMMA OverlapTyped ==
    ASSUME start \in Moments, end \in Moments, NEW d \in Nat
    PROVE  Overlap(d) \in Nat
<1> DEFINE opens == Combine(d, Opens)
           closes == Combine(d, Closes)
           first == InUtc(start)
           last == InUtc(end)
<1>1. /\ opens.local \in Int /\ opens.utc \in Int /\ closes.local \in Int /\ closes.utc \in Int
  <2>1. d * DayLength \in Int /\ Opens \in Int /\ Closes \in Int
    BY HoursAssumption
  <2>2. d * DayLength + Opens \in Int /\ d * DayLength + Closes \in Int
    BY <2>1
  <2>3. \A l \in Int : Utc(l) \in Int
    BY ZoneAssumption DEF Utc
  <2> QED BY <2>2, <2>3 DEF Combine
<1>2. /\ first.local \in Int /\ first.utc \in Int /\ last.local \in Int /\ last.utc \in Int
  BY ZoneAssumption DEF InUtc, Local, Offset
<1> HIDE DEF opens, closes, first, last
<1>3. Difference(Earliest(last, closes), Latest(first, opens)) \in Int
  BY <1>1, <1>2 DEF Difference, Earliest, Latest
<1> QED BY <1>3 DEF Overlap, Until, From, Larger, opens, closes, first, last

LEMMA InitTyped == Init => TypeOK
<1> SUFFICES ASSUME Init PROVE TypeOK
  OBVIOUS
<1>1. start \in Moments /\ start \in Int
  BY ZoneAssumption DEF Init
<1>2. Date(start) \in Nat
  BY <1>1, DatesAreNat
<1> QED BY <1>2 DEF Init, TypeOK

LEMMA NextTyped == TypeOK /\ [Next]_vars => TypeOK'
<1> SUFFICES ASSUME TypeOK, [Next]_vars PROVE TypeOK'
  OBVIOUS
<1>1. CASE CountDay
  <2>1. Overlap(day) \in Nat
    BY OverlapTyped DEF TypeOK
  <2> QED BY <1>1, <2>1 DEF TypeOK, CountDay
<1>2. CASE SkipDay
  BY <1>2 DEF TypeOK, SkipDay
<1>3. CASE Return
  BY <1>3 DEF TypeOK, Return
<1>4. CASE UNCHANGED vars
  BY <1>4 DEF TypeOK, vars
<1> QED BY <1>1, <1>2, <1>3, <1>4 DEF Next

(* The state of open_time is of its type for any hours, zone and interval: *)
(* in particular a change of offset never makes its result negative.       *)
THEOREM Typing == Spec => []TypeOK
<1>1. Init => TypeOK
  BY InitTyped
<1>2. TypeOK /\ [Next]_vars => TypeOK'
  BY NextTyped
<1> QED BY <1>1, <1>2, PTL DEF Spec

LEMMA Dates ==
    ASSUME start \in Moments
    PROVE  start \in Int /\ \A t \in Int : start <= t => Date(t) \in Nat
BY DatesAreNat, ZoneAssumption

LEMMA InitIInv == ASSUME ClosedAtChange, Init PROVE IInv
<1>1. TypeOK
  BY InitTyped
<1>2. /\ start \in Moments /\ start \in Int /\ end \in Int
      /\ day = Date(start) /\ total = 0 /\ pc = IF end <= start THEN "done" ELSE "loop"
  BY ZoneAssumption DEF Init
<1>3. Counted(start, end, Date(start)) = {}
  <2>1. ASSUME NEW t \in start .. end - 1, IsOpen(t), Time(t) < Closes
        PROVE  Date(start) <= Date(t)
    <3>1. t \in Int /\ start <= t /\ Date(t) \in Nat
      BY <1>2, Dates
    <3>2. Weekday(Date(t)) \in Weekdays /\ InHours(t)
      BY <2>1 DEF IsOpen, InHours
    <3> QED BY <1>2, <3>1, <3>2, OpenDates
  <2>2. \A t \in start .. end - 1 : Date(t) \in Int
    BY <1>2, DateAndTime
  <2>3. Date(start) \in Int
    BY <1>2, DateAndTime
  <2> QED BY <2>1, <2>2, <2>3 DEF Counted
<1>4. CASE end <= start
  <2>1. OpenIn(start, end) = Cardinality({})
    <3>1. start .. end - 1 = {}
      BY <1>2, <1>4
    <3>2. {t \in start .. end - 1 : IsOpen(t) /\ Time(t) < Closes} = {}
      BY <3>1
    <3> QED BY <3>2, Zenon DEF OpenIn
  <2> QED BY <1>1, <1>2, <1>4, <2>1, FS_EmptySet DEF IInv, CountsOpenTime
<1>5. CASE ~(end <= start)
  <2>1. start < end /\ pc = "loop" /\ total = 0
    BY <1>2, <1>5
  <2>2. Cardinality(Counted(start, end, day)) = 0
    BY <1>2, <1>3, FS_EmptySet
  <2> QED BY <1>1, <2>1, <2>2 DEF IInv, CountsOpenTime
<1> QED BY <1>4, <1>5

LEMMA NextIInv == ASSUME ClosedAtChange, IInv, [Next]_vars PROVE IInv'
<1>1. TypeOK'
  BY NextTyped DEF IInv
<1>2. TypeOK /\ start \in Moments /\ end \in Moments /\ day \in Nat /\ start \in Int /\ end \in Int
  BY ZoneAssumption DEF IInv, TypeOK
<1>3. \A t \in Int : start <= t => Date(t) \in Nat
  BY <1>2, Dates
<1>4. CASE CountDay
  <2>1. /\ pc = "loop" /\ pc' = "loop" /\ Weekday(day) \in Weekdays
        /\ total' = total + Overlap(day) /\ day' = day + 1 /\ start' = start /\ end' = end
    BY <1>4 DEF CountDay
  <2>2. start < end /\ total = Cardinality(Counted(start, end, day))
    BY <2>1 DEF IInv
  <2> DEFINE ofDay == {t \in start .. end - 1 : Date(t) = day /\ InHours(t)}
  <2>3. Cardinality(Counted(start, end, day + 1))
            = Cardinality(Counted(start, end, day)) + Cardinality(ofDay)
    BY <1>2, <1>3, <2>1, CountedNext
  <2>4. Cardinality(ofDay) = Overlap(day)
    BY <1>2, <2>1, DayIsOverlap
  <2> HIDE DEF ofDay
  <2>5. total' = Cardinality(Counted(start', end', day'))
    BY <2>1, <2>2, <2>3, <2>4
  <2> QED BY <1>1, <2>1, <2>2, <2>5 DEF IInv, CountsOpenTime
<1>5. CASE SkipDay
  <2>1. /\ pc = "loop" /\ pc' = "loop" /\ Weekday(day) \notin Weekdays
        /\ total' = total /\ day' = day + 1 /\ start' = start /\ end' = end
    BY <1>5 DEF SkipDay
  <2>2. start < end /\ total = Cardinality(Counted(start, end, day))
    BY <2>1 DEF IInv
  <2>3. Counted(start, end, day + 1) = Counted(start, end, day)
    BY <1>2, <1>3, <2>1, CountedNext
  <2>4. total' = Cardinality(Counted(start', end', day'))
    BY <2>1, <2>2, <2>3
  <2> QED BY <1>1, <2>1, <2>2, <2>4 DEF IInv, CountsOpenTime
<1>6. CASE Return
  <2>1. /\ pc = "loop" /\ day > Date(end) /\ pc' = "done"
        /\ start' = start /\ end' = end /\ total' = total
    BY <1>6 DEF Return
  <2>2. start < end /\ total = Cardinality(Counted(start, end, day))
    BY <2>1 DEF IInv
  <2>3. ASSUME NEW t \in start .. end - 1, IsOpen(t), Time(t) < Closes
        PROVE  Date(t) < day
    <3>1. t \in Int /\ start <= t /\ t <= end /\ Date(t) \in Nat
      BY <1>2, <1>3
    <3>2. Weekday(Date(t)) \in Weekdays /\ InHours(t)
      BY <2>3 DEF IsOpen, InHours
    <3>3. Date(t) <= Date(end)
      BY <1>2, <3>1, <3>2, OpenDates
    <3>4. Date(end) \in Int
      BY <1>2, DateAndTime
    <3> QED BY <1>2, <2>1, <3>1, <3>3, <3>4
  <2>4. Counted(start, end, day) = {t \in start .. end - 1 : IsOpen(t) /\ Time(t) < Closes}
    BY <2>3 DEF Counted
  <2>5. total' = OpenIn(start', end')
    BY <2>1, <2>2, <2>4 DEF OpenIn
  <2> QED BY <1>1, <2>1, <2>5 DEF IInv, CountsOpenTime
<1>7. CASE UNCHANGED vars
  BY <1>1, <1>7 DEF IInv, CountsOpenTime, vars
<1> QED BY <1>4, <1>5, <1>6, <1>7 DEF Next

(* "How much of [start, end] falls inside opening hours" (schedule.py) is  *)
(* what open_time returns, for any hours, any interval and any zone whose  *)
(* offset does not change in the hours of an open day.                     *)
THEOREM Counting == ASSUME ClosedAtChange PROVE Spec => []CountsOpenTime
<1>1. Init => IInv
  BY InitIInv
<1>2. IInv /\ [Next]_vars => IInv'
  BY NextIInv
<1>3. IInv => CountsOpenTime
  BY DEF IInv
<1> QED BY <1>1, <1>2, <1>3, PTL DEF Spec

=============================================================================
