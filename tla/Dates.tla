-------------------------------- MODULE Dates --------------------------------
(***************************************************************************)
(* How the GitHub and the mailing list connectors read a timestamp: each   *)
(* has an algorithm of its own that counts days from 1970-01-01.  Times    *)
(* are in minutes here; seconds would only be added.                       *)
(***************************************************************************)
EXTENDS Integers, FiniteSetsExt

CONSTANT Years   \* years that are tried

ASSUME YearsAssumption == Years \subseteq Nat /\ \A y \in Years : y >= 1970

\* A date is <<year, month, day>>.
DaysInMonth == <<31, 28, 31, 30, 31, 30, 31, 31, 30, 31, 30, 31>>

\* Mutant: a century is a leap year.
IsLeapJulian(y) == y % 4 = 0

IsLeap(y) == (y % 4 = 0 /\ y % 100 # 0) \/ y % 400 = 0

YearLength(y) == IF IsLeap(y) THEN 366 ELSE 365

MonthLength(y, m) == DaysInMonth[m] + (IF m = 2 /\ IsLeap(y) THEN 1 ELSE 0)

\* The mailing list's days_from_epoch: full years, full months, days.
DaysFromEpoch(y, m, d) ==
  LET Years1970 == MapThenSumSet(YearLength, 1970 .. y - 1)
      Months == MapThenSumSet(LAMBDA k : MonthLength(y, k), 1 .. m - 1)
  IN  Years1970 + Months + d - 1

\* GitHub's: eras of 400 years that begin on the first of March.
DaysFromCivil(y, m, d) ==
  LET year == IF m <= 2 THEN y - 1 ELSE y
      era == year \div 400
      yoe == year - era * 400
      doy == (153 * (IF m > 2 THEN m - 3 ELSE m + 9) + 2) \div 5 + d - 1
      doe == yoe * 365 + yoe \div 4 - yoe \div 100 + doy
  IN  era * 146097 + doe - 719468

\* parse_rfc3339: local time, and how far it is ahead of UTC.
MinutesOf(days, hour, min, offset) == days * 1440 + hour * 60 + min - offset

-----------------------------------------------------------------------------
\* The calendar, day by day.
DayAfter(y, m, d) ==
  CASE d < MonthLength(y, m) -> <<y, m, d + 1>>
    [] d = MonthLength(y, m) /\ m < 12 -> <<y, m + 1, 1>>
    [] OTHER -> <<y + 1, 1, 1>>

\* Both algorithms give each date of these years the same day and the next date
\* the next day; half past midnight here is an hour after half past eleven there.
CalendarIsKept ==
  \A y \in Years, m \in 1 .. 12 : \A d \in 1 .. MonthLength(y, m) :
    LET today == DaysFromEpoch(y, m, d)
        next == DayAfter(y, m, d)
        tomorrow == DaysFromEpoch(next[1], next[2], next[3])
    IN
    /\ DaysFromCivil(y, m, d) = today
    /\ tomorrow = today + 1
    /\ \A offset \in {-7 * 60, 0, 5 * 60 + 30} :
         MinutesOf(tomorrow, 0, 30, offset + 60) = MinutesOf(today, 23, 30, offset)

=============================================================================
