---------------------------- MODULE MarketCalendar -----------------------------
(***************************************************************************)
(* The trading calendar behind gap classification in                       *)
(* services/market_corridor.py: US equity holidays, trading days, and      *)
(* whether a hole in a daily series of stocks was to be expected.          *)
(*                                                                         *)
(* A day is its number since 1970-01-01, a Thursday; weekdays count from   *)
(* Monday = 0, as datetime.date.weekday does.                              *)
(***************************************************************************)
EXTENDS Integers, FiniteSets

\* datetime.date, in the proleptic Gregorian calendar: 400 years have 146097 days.
Date(year, month, day) ==
    LET y == IF month <= 2 THEN year - 1 ELSE year
        era == y \div 400
        yearOfEra == y - era * 400
        shifted == IF month > 2 THEN month - 3 ELSE month + 9
        dayOfYear == (153 * shifted + 2) \div 5 + day - 1
        dayOfEra == yearOfEra * 365 + yearOfEra \div 4 - yearOfEra \div 100 + dayOfYear
    IN  era * 146097 + dayOfEra - 719468

Weekday(day) == (day + 3) % 7
YearOf(day) == CHOOSE y \in (day \div 366 + 1970)..(day \div 365 + 1971) :
                  Date(y, 1, 1) <= day /\ day < Date(y + 1, 1, 1)
LastOfMonth(year, month) ==
    (IF month = 12 THEN Date(year + 1, 1, 1) ELSE Date(year, month + 1, 1)) - 1

\* A fixed holiday on a weekend is observed on the Friday before or the Monday after.
ObservedDate(day) ==
    CASE Weekday(day) = 5 -> day - 1
      [] Weekday(day) = 6 -> day + 1
      [] OTHER -> day

NthWeekday(year, month, weekday, occurrence) ==
    LET first == Date(year, month, 1)
    IN  first + ((weekday - Weekday(first)) % 7) + 7 * (occurrence - 1)
LastWeekday(year, month, weekday) ==
    LET last == LastOfMonth(year, month) IN last - ((Weekday(last) - weekday) % 7)

\* The anonymous Gregorian computus.
EasterSunday(year) ==
    LET a == year % 19
        b == year \div 100
        c == year % 100
        d == b \div 4
        e == b % 4
        f == (b + 8) \div 25
        g == (b - f + 1) \div 3
        h == (19 * a + b - d - g + 15) % 30
        i == c \div 4
        k == c % 4
        ell == (32 + 2 * e + 2 * i - h - k) % 7
        m == (a + 11 * h + 22 * ell) \div 451
        n == h + ell - 7 * m + 114
    IN  Date(year, n \div 31, (n % 31) + 1)
GoodFriday(year) == EasterSunday(year) - 2

Holidays(year) ==
    {ObservedDate(Date(year, 1, 1)), NthWeekday(year, 1, 0, 3), NthWeekday(year, 2, 0, 3),
     GoodFriday(year), LastWeekday(year, 5, 0), ObservedDate(Date(year, 6, 19)),
     ObservedDate(Date(year, 7, 4)), NthWeekday(year, 9, 0, 1), NthWeekday(year, 11, 3, 4),
     ObservedDate(Date(year, 12, 25))}

\* A day looks itself up among the holidays of its own year: New Year's Day on
\* a Saturday is observed on a Friday of the year before, which does not list it.
IsTradingDay(day) == Weekday(day) < 5 /\ day \notin Holidays(YearOf(day))

\* All days skipped between two daily candles were closed, and there was one.
IsSessionGap(previous, current) ==
    /\ previous + 1 < current
    /\ \A day \in (previous + 1)..(current - 1) : ~IsTradingDay(day)

-----------------------------------------------------------------------------
\* Reference: the table of Paschal full moons by golden number that holds from
\* 1900 to 2199, as days after March 21.
PaschalMoon == <<24, 13, 2, 21, 10, 28, 18, 7, 26, 15, 4, 23, 12, 1, 20, 9, 27, 17, 6>>
EasterByTable(year) ==
    LET moon == Date(year, 3, 21) + PaschalMoon[(year % 19) + 1]
    IN  moon + 7 - ((Weekday(moon) - 6) % 7)

\* Easter is the Sunday after the Paschal full moon.  Every holiday of a year
\* falls on a weekday, and the exchange is shut on ten of them, nine when New
\* Year's Day is a Saturday; hence no two holidays coincide.  Between two trading
\* days at most three days are closed, so a daily series with a wider hole has
\* lost a candle.
CalendarSound(year) ==
    LET days == Date(year, 1, 1)..(Date(year + 1, 1, 1) - 1)
        shut == {day \in days : Weekday(day) < 5 /\ ~IsTradingDay(day)}
    IN  /\ EasterSunday(year) = EasterByTable(year)
        /\ \A day \in Holidays(year) : Weekday(day) < 5
        /\ Cardinality(shut) = (IF Weekday(Date(year, 1, 1)) = 5 THEN 9 ELSE 10)
        /\ \A day \in days : ~IsSessionGap(day, day + 5)
=============================================================================
