----------------------------- MODULE ClockProofs -----------------------------
(***************************************************************************)
(* The conversion of a time to a date keeps to the calendar for every time *)
(* the host can set, and is right if the year fits in its 16 bits: until   *)
(* it wraps, what the loops have subtracted so far is the distance from    *)
(* the epoch to the year and month that they have reached.                 *)
(***************************************************************************)
EXTENDS Clock, TLAPS

\* Among two neighbouring years, one is divisible by k exactly if the quotient
\* grows there.
LEMMA DivStep4 ==
  ASSUME NEW y \in Nat
  PROVE  y \div 4 - (y - 1) \div 4 = IF y % 4 = 0 THEN 1 ELSE 0
OBVIOUS

LEMMA DivStep100 ==
  ASSUME NEW y \in Nat
  PROVE  y \div 100 - (y - 1) \div 100 = IF y % 100 = 0 THEN 1 ELSE 0
OBVIOUS

LEMMA DivStep400 ==
  ASSUME NEW y \in Nat
  PROVE  y \div 400 - (y - 1) \div 400 = IF y % 400 = 0 THEN 1 ELSE 0
OBVIOUS

LEMMA Divisors ==
  ASSUME NEW y \in Nat
  PROVE  (y % 400 = 0 => y % 100 = 0) /\ (y % 100 = 0 => y % 4 = 0)
OBVIOUS

LEMMA LeapYearsStep ==
  ASSUME NEW y \in Nat
  PROVE  LeapYearsUpTo(y) = LeapYearsUpTo(y - 1) + (IF IsLeap(y) THEN 1 ELSE 0)
<1>1. /\ y \div 4 \in Int /\ y \div 100 \in Int /\ y \div 400 \in Int
      /\ (y - 1) \div 4 \in Int /\ (y - 1) \div 100 \in Int /\ (y - 1) \div 400 \in Int
  OBVIOUS
<1> QED BY <1>1, DivStep4, DivStep100, DivStep400, Divisors DEF LeapYearsUpTo, IsLeap

LEMMA LeapYearsType ==
  ASSUME NEW y \in Int
  PROVE  LeapYearsUpTo(y) \in Int
BY DEF LeapYearsUpTo

\* The first loop subtracts the distance between two years.
LEMMA YearDistance ==
  ASSUME NEW y \in Nat, y >= EPOCH_YEAR
  PROVE  /\ DaysBeforeYear(y) \in Int
         /\ DaysBeforeYear(y + 1) = DaysBeforeYear(y) + DaysInYear(y)
         /\ DaysInYear(y) \in {365, 366}
<1>1. EPOCH_YEAR \in Nat \ {0} /\ y \in Nat \ {0}
  BY ClockConstants
<1>2. /\ LeapYearsUpTo(y) \in Int /\ LeapYearsUpTo(y - 1) \in Int
      /\ LeapYearsUpTo(EPOCH_YEAR - 1) \in Int
  BY <1>1, LeapYearsType
<1>3. LeapYearsUpTo(y) = LeapYearsUpTo(y - 1) + (IF IsLeap(y) THEN 1 ELSE 0)
  BY <1>1, LeapYearsStep
<1>4. (y + 1) - 1 = y
  OBVIOUS
<1> QED BY <1>1, <1>2, <1>3, <1>4 DEF DaysBeforeYear, DaysInYear

\* The second loop subtracts the distance between two months.
LEMMA MonthDistance ==
  ASSUME NEW y \in Nat, NEW m \in Months
  PROVE  /\ DaysBeforeMonth(y, m) \in Nat
         /\ DaysBeforeMonth(y, m + 1) = DaysBeforeMonth(y, m) + DaysInMonth(y, m)
         /\ DaysInMonth(y, m) \in 28 .. 31
         /\ DaysBeforeMonth(y, 1) = 0
         /\ DaysBeforeMonth(y, DECEMBER + 1) = DaysInYear(y)
<1>1. /\ LeapYearsUpTo(y) \in Int /\ LeapYearsUpTo(y - 1) \in Int
      /\ LeapYearsUpTo(y) - LeapYearsUpTo(y - 1) = IF IsLeap(y) THEN 1 ELSE 0
  BY LeapYearsStep, LeapYearsType
<1>2. m \in {1, 2, 3, 4, 5, 6, 7, 8, 9, 10, 11, 12}
  BY DEF Months, DECEMBER
<1> QED BY <1>1, <1>2 DEF DaysBeforeMonth, DaysInMonth, DaysInYear, FEBRUARY, DECEMBER

(***************************************************************************)
(* The inductive invariant.  The rest of the year that is left in the      *)
(* second loop keeps it within the table of the months, whether the year   *)
(* has wrapped or not.                                                     *)
(***************************************************************************)
InCalendar ==
  /\ reading = "year" => month = 1
  /\ reading \in {"month", "date"} =>
       DaysBeforeMonth(year, month) + total < DaysInYear(year)
  /\ reading = "date" => total < DaysInMonth(year, month)

AskedFits == asked < DaysBeforeYear(YearModulus)

Distance ==
  AskedFits => /\ year >= EPOCH_YEAR
               /\ reading = "year" => DaysBeforeYear(year) + total = asked
               /\ reading \in {"month", "date"} =>
                    DaysBeforeYear(year) + DaysBeforeMonth(year, month) + total = asked

IInv == ClockTypeOK /\ InCalendar /\ Distance

LEMMA InitIInv == ClockInit => IInv
BY ClockConstants DEF ClockInit, IInv, ClockTypeOK, InCalendar, Distance, Months, DECEMBER

LEMMA ReadDateIInv == IInv /\ ReadDate => IInv'
<1> SUFFICES ASSUME IInv, ReadDate PROVE IInv'
  OBVIOUS
<1>1. CurrentTime \in Nat
  BY ClockConstants DEF IInv, ClockTypeOK, CurrentTime
<1>2. EPOCH_YEAR \in Nat \ {0} /\ YearModulus \in Nat /\ EPOCH_YEAR < YearModulus
  BY ClockConstants
<1>3. DaysBeforeYear(EPOCH_YEAR) = 0
  <2>1. LeapYearsUpTo(EPOCH_YEAR - 1) \in Int
    BY <1>2, LeapYearsType
  <2> QED BY <1>2, <2>1 DEF DaysBeforeYear
<1> QED BY <1>1, <1>2, <1>3
        DEF IInv, ReadDate, ClockTypeOK, InCalendar, Distance, Months, DECEMBER

LEMMA YearStepIInv == IInv /\ YearStep => IInv'
<1> SUFFICES ASSUME IInv, YearStep PROVE IInv'
  OBVIOUS
<1> USE DEF IInv, ClockTypeOK
<1>1. /\ EPOCH_YEAR \in Nat \ {0} /\ YearModulus \in Nat \ {0}
      /\ year \in Nat /\ year < YearModulus /\ total \in Nat /\ asked \in Nat
      /\ reading = "year" /\ month = 1
  BY ClockConstants DEF YearStep, InCalendar
<1>2. DaysInYear(year) \in {365, 366}
  BY DEF DaysInYear
<1>3. CASE total >= DaysInYear(year)
  <2>1. /\ total' = total - DaysInYear(year) /\ reading' = reading
        /\ year' = (year + 1) % YearModulus
        /\ UNCHANGED <<synced_time, elapsed, month, asked>>
    BY <1>3 DEF YearStep
  <2>2. year' \in 0 .. YearModulus - 1
    BY <1>1, <2>1
  <2>3. ClockTypeOK' /\ InCalendar'
    BY <1>1, <1>2, <1>3, <2>1, <2>2 DEF InCalendar
  <2>4. ASSUME AskedFits
        PROVE  year' >= EPOCH_YEAR /\ DaysBeforeYear(year') + total' = asked
    <3>1. year >= EPOCH_YEAR /\ DaysBeforeYear(year) + total = asked
      BY <1>1, <2>4 DEF Distance
    <3>2. /\ DaysBeforeYear(year) \in Int
          /\ DaysBeforeYear(year + 1) = DaysBeforeYear(year) + DaysInYear(year)
      BY <1>1, <3>1, YearDistance
    <3>3. year + 1 # YearModulus
      BY <1>1, <1>2, <1>3, <2>4, <3>1, <3>2 DEF AskedFits
    <3>4. year' = year + 1
      BY <1>1, <2>1, <3>3
    <3> QED BY <1>1, <1>2, <1>3, <2>1, <3>1, <3>2, <3>4
  <2>5. AskedFits' => AskedFits
    BY <2>1 DEF AskedFits
  <2>6. Distance'
    BY <1>1, <2>1, <2>4, <2>5 DEF Distance
  <2> QED BY <2>3, <2>6
<1>4. CASE ~(total >= DaysInYear(year))
  <2>1. reading' = "month" /\ UNCHANGED <<total, year, synced_time, elapsed, month, asked>>
    BY <1>4 DEF YearStep
  <2>2. DaysBeforeMonth(year, 1) = 0
    BY <1>1, MonthDistance DEF Months, DECEMBER
  <2>3. InCalendar'
    BY <1>1, <1>2, <1>4, <2>1, <2>2 DEF InCalendar
  <2>4. ASSUME AskedFits
        PROVE  year >= EPOCH_YEAR /\ DaysBeforeYear(year) + DaysBeforeMonth(year, month) + total = asked
    <3>1. year >= EPOCH_YEAR /\ DaysBeforeYear(year) + total = asked
      BY <1>1, <2>4 DEF Distance
    <3>2. DaysBeforeYear(year) \in Int
      BY <1>1, <3>1, YearDistance
    <3> QED BY <1>1, <2>2, <3>1, <3>2
  <2>5. Distance'
    BY <2>1, <2>4 DEF Distance, AskedFits
  <2> QED BY <2>1, <2>3, <2>5
<1> QED BY <1>3, <1>4

LEMMA MonthStepIInv == IInv /\ MonthStep => IInv'
<1> SUFFICES ASSUME IInv, MonthStep PROVE IInv'
  OBVIOUS
<1> USE DEF IInv, ClockTypeOK
<1>1. /\ EPOCH_YEAR \in Nat \ {0}
      /\ year \in Nat /\ month \in Months /\ total \in Nat /\ asked \in Nat
  BY ClockConstants
<1>2. /\ DaysBeforeMonth(year, month) \in Nat
      /\ DaysBeforeMonth(year, month + 1) = DaysBeforeMonth(year, month) + DaysInMonth(year, month)
      /\ DaysInMonth(year, month) \in 28 .. 31
      /\ DaysBeforeMonth(year, DECEMBER + 1) = DaysInYear(year)
  BY <1>1, MonthDistance
<1>3. /\ reading = "month" /\ DaysInYear(year) \in {365, 366}
      /\ DaysBeforeMonth(year, month) + total < DaysInYear(year)
  BY DEF MonthStep, InCalendar, DaysInYear
<1>4. ASSUME AskedFits
      PROVE  /\ year >= EPOCH_YEAR /\ DaysBeforeYear(year) \in Int
             /\ DaysBeforeYear(year) + DaysBeforeMonth(year, month) + total = asked
  <2>1. /\ year >= EPOCH_YEAR
        /\ DaysBeforeYear(year) + DaysBeforeMonth(year, month) + total = asked
    BY <1>3, <1>4 DEF Distance
  <2> QED BY <1>1, <2>1, YearDistance
<1>5. CASE total >= DaysInMonth(year, month)
  <2>1. /\ total' = total - DaysInMonth(year, month) /\ month' = month + 1
        /\ UNCHANGED <<reading, synced_time, elapsed, year, asked>>
    BY <1>5 DEF MonthStep
  <2>2. month # DECEMBER
    BY <1>1, <1>2, <1>3, <1>5 DEF DECEMBER
  <2>3. month + 1 \in Months
    BY <1>1, <2>2 DEF Months, DECEMBER
  <2>4. InCalendar'
    BY <1>1, <1>2, <1>3, <1>5, <2>1 DEF InCalendar
  <2>5. AskedFits => DaysBeforeYear(year) + DaysBeforeMonth(year, month') + total' = asked
    BY <1>1, <1>2, <1>4, <1>5, <2>1
  <2>6. Distance'
    BY <1>3, <1>4, <2>1, <2>5 DEF Distance, AskedFits
  <2>7. ClockTypeOK'
    BY <1>1, <1>2, <1>5, <2>1, <2>3
  <2> QED BY <2>4, <2>6, <2>7
<1>6. CASE ~(total >= DaysInMonth(year, month))
  <2>1. reading' = "date" /\ UNCHANGED <<total, month, synced_time, elapsed, year, asked>>
    BY <1>6 DEF MonthStep
  <2>2. InCalendar'
    BY <1>1, <1>2, <1>3, <1>6, <2>1 DEF InCalendar
  <2>3. Distance'
    BY <1>4, <2>1 DEF Distance, AskedFits
  <2> QED BY <2>1, <2>2, <2>3
<1> QED BY <1>5, <1>6

LEMMA NextIInv == IInv /\ [ClockNext]_clockVars => IInv'
<1> SUFFICES ASSUME IInv, [ClockNext]_clockVars PROVE IInv'
  OBVIOUS
<1> USE DEF IInv, ClockTypeOK, InCalendar, Distance, AskedFits
<1>1. ASSUME NEW d \in SyncDays, SyncTime(d) PROVE IInv'
  BY <1>1, ClockConstants DEF SyncTime
<1>2. CASE DayPasses
  BY <1>2, ClockConstants DEF DayPasses
<1>3. CASE ReadDate
  BY <1>3, ReadDateIInv
<1>4. CASE YearStep
  BY <1>4, YearStepIInv
<1>5. CASE MonthStep
  BY <1>5, MonthStepIInv
<1>6. CASE UNCHANGED clockVars
  BY <1>6 DEF clockVars
<1> QED BY <1>1, <1>2, <1>3, <1>4, <1>5, <1>6 DEF ClockNext

LEMMA IInvDateRight == IInv => DateRight
<1> SUFFICES ASSUME IInv, reading = "date" PROVE DateRight
  BY DEF DateRight
<1>1. year \in Nat /\ month \in Months /\ total \in Nat /\ asked \in Nat
  BY ClockConstants DEF IInv, ClockTypeOK
<1>2. /\ DaysBeforeMonth(year, month) \in Nat
      /\ DaysBeforeMonth(year, month + 1) = DaysBeforeMonth(year, month) + DaysInMonth(year, month)
      /\ DaysInMonth(year, month) \in 28 .. 31
  BY <1>1, MonthDistance
<1>3. total < DaysInMonth(year, month)
  BY DEF IInv, InCalendar
<1>4. Date.day \in 1 .. DaysBeforeMonth(year, month + 1) - DaysBeforeMonth(year, month)
  BY <1>1, <1>2, <1>3 DEF Date
<1>5. ASSUME AskedFits PROVE DayNumber(Date) = asked
  <2>1. /\ year >= EPOCH_YEAR
        /\ DaysBeforeYear(year) + DaysBeforeMonth(year, month) + total = asked
    BY <1>5 DEF IInv, Distance
  <2>2. DaysBeforeYear(year) \in Int
    BY <1>1, <2>1, YearDistance
  <2> QED BY <1>1, <1>2, <2>1, <2>2 DEF DayNumber, Date
<1> QED BY <1>1, <1>4, <1>5 DEF DateRight, AskedFits

\* The loops keep to the table of the months, whatever time the host sets: also one
\* whose year does not fit in its 16 bits.
THEOREM SpecClockTypeOK == ClockSpec => []ClockTypeOK
<1>1. IInv => ClockTypeOK
  BY DEF IInv
<1> QED BY <1>1, InitIInv, NextIInv, PTL DEF ClockSpec

\* Time::get_current_date_and_time gives a date of the calendar for every time the
\* host can set, and the right one for every time whose year fits in 16 bits.
THEOREM SpecDateRight == ClockSpec => []DateRight
<1> QED BY InitIInv, NextIInv, IInvDateRight, PTL DEF ClockSpec
=============================================================================
