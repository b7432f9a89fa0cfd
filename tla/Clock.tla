-------------------------------- MODULE Clock --------------------------------
(***************************************************************************)
(* firmware/time: the wall clock that the host sets, and its conversion to *)
(* a date.  get_current_date_and_time subtracts years, then months, from   *)
(* the time since the epoch; each round of its two loops is one step here. *)
(* What the loops subtract is whole days, so time is counted in days; the  *)
(* time of day is left over and split by divisions.                        *)
(***************************************************************************)
EXTENDS Integers

CONSTANTS
  EPOCH_YEAR,    \* EPOCH_YEAR
  YearModulus,   \* 2^16: year is a uint16_t
  SyncDays,      \* days since the epoch that the host may set: any of 64 bits
  MaxElapsed     \* bound: days the device runs after it is set

VARIABLES
  synced_time,   \* Time::synced_time_us, in days; 0 until the host sets it
  elapsed,       \* get_absolute_time() - synced_device_time_us, in days
  reading,       \* the loop that get_current_date_and_time is in
  total,         \* total_seconds, in days
  year,
  month,
  asked          \* history: what total was when the conversion began

clockVars == <<synced_time, elapsed, reading, total, year, month, asked>>
-----------------------------------------------------------------------------
ASSUME ClockConstants ==
  /\ EPOCH_YEAR \in Nat \ {0} /\ YearModulus \in Nat /\ EPOCH_YEAR < YearModulus
  /\ MaxElapsed \in Nat
  /\ SyncDays \subseteq Nat

FEBRUARY == 2
DECEMBER == 12
Months   == 1 .. DECEMBER

\* Bug: centuries are leap years too.
IsLeapJulian(y) == y % 4 = 0

IsLeap(y) == y % 4 = 0 /\ (y % 100 # 0 \/ y % 400 = 0)

DaysInYear(y) == IF IsLeap(y) THEN 366 ELSE 365

\* Bug: February's extra day is forgotten.
DaysInMonthCommon(y, m) ==
  IF m = FEBRUARY THEN 28 ELSE IF m \in {4, 6, 9, 11} THEN 30 ELSE 31

DaysInMonth(y, m) ==
  IF m = FEBRUARY THEN IF IsLeap(y) THEN 29 ELSE 28
  ELSE IF m \in {4, 6, 9, 11} THEN 30 ELSE 31

\* Time::get_current_time_us: nothing but 0 until the clock is set.
CurrentTime == IF synced_time = 0 THEN 0 ELSE synced_time + elapsed

ClockInit ==
  /\ synced_time = 0 /\ elapsed = 0
  /\ reading = "idle"
  /\ total = 0 /\ year = EPOCH_YEAR /\ month = 1 /\ asked = 0

\* Time::set_current_time_us, from the terminal.
SyncTime(d) ==
  /\ reading \in {"idle", "date"}
  /\ synced_time' = d /\ elapsed' = 0
  /\ UNCHANGED <<reading, total, year, month, asked>>

\* The device's own clock goes on, set or not.
DayPasses ==
  /\ elapsed < MaxElapsed
  /\ elapsed' = elapsed + 1
  /\ UNCHANGED <<synced_time, reading, total, year, month, asked>>

\* get_current_date_and_time is called; it reads the time once.
ReadDate ==
  /\ reading \in {"idle", "date"}
  /\ reading' = "year"
  /\ total' = CurrentTime /\ asked' = CurrentTime
  /\ year' = EPOCH_YEAR /\ month' = 1
  /\ UNCHANGED <<synced_time, elapsed>>

\* The first loop.  Nothing keeps the host from a time whose year does not fit: the
\* year then starts again at 0.
YearStep ==
  /\ reading = "year"
  /\ IF total >= DaysInYear(year)
     THEN /\ total' = total - DaysInYear(year)
          /\ year' = (year + 1) % YearModulus
          /\ UNCHANGED reading
     ELSE reading' = "month" /\ UNCHANGED <<total, year>>
  /\ UNCHANGED <<synced_time, elapsed, month, asked>>

\* The second loop; with it the date is known.
MonthStep ==
  /\ reading = "month"
  /\ IF total >= DaysInMonth(year, month)
     THEN /\ total' = total - DaysInMonth(year, month)
          /\ month' = month + 1
          /\ UNCHANGED reading
     ELSE reading' = "date" /\ UNCHANGED <<total, month>>
  /\ UNCHANGED <<synced_time, elapsed, year, asked>>

Date == [year |-> year, month |-> month, day |-> total + 1]

ClockNext ==
  \/ \E d \in SyncDays : SyncTime(d)
  \/ DayPasses
  \/ ReadDate \/ YearStep \/ MonthStep

ClockSpec == ClockInit /\ [][ClockNext]_clockVars
-----------------------------------------------------------------------------
ClockTypeOK ==
  /\ synced_time \in SyncDays \cup {0} /\ elapsed \in 0 .. MaxElapsed
  /\ reading \in {"idle", "year", "month", "date"}
  /\ total \in Nat /\ asked \in Nat
  /\ year \in 0 .. YearModulus - 1 /\ month \in Months

(***************************************************************************)
(* The Gregorian calendar, independently of the loops: every fourth year   *)
(* is a leap year but for three of four centuries.                         *)
(***************************************************************************)
LeapYearsUpTo(y) == y \div 4 - y \div 100 + y \div 400

DaysBeforeYear(y) ==
  365 * (y - EPOCH_YEAR) + LeapYearsUpTo(y - 1) - LeapYearsUpTo(EPOCH_YEAR - 1)

DaysBeforeMonth(y, m) ==
  LET common == <<0, 31, 59, 90, 120, 151, 181, 212, 243, 273, 304, 334, 365>>[m] IN
  IF m > FEBRUARY THEN common + LeapYearsUpTo(y) - LeapYearsUpTo(y - 1) ELSE common

\* The day that a date names, counted from the epoch.
DayNumber(d) == DaysBeforeYear(d.year) + DaysBeforeMonth(d.year, d.month) + d.day - 1

\* When the loops end, the date exists in the calendar: the table of the months was
\* not read beyond its end, not even after the year has wrapped.  It is the date of
\* the day that was asked for, across leap years, centuries and the ends of months,
\* if the year of that day fits in its 16 bits.
DateRight ==
  reading = "date" =>
    /\ month \in Months
    /\ Date.day \in 1 .. DaysBeforeMonth(year, month + 1) - DaysBeforeMonth(year, month)
    /\ asked < DaysBeforeYear(YearModulus) => DayNumber(Date) = asked
=============================================================================
