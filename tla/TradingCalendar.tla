--------------------------- MODULE TradingCalendar ---------------------------
(***************************************************************************)
(* CMETradingCalendar.  A date is its proleptic Gregorian ordinal (day 1 is *)
(* 1 January of year 1, a Monday).  The computed closures and the operator's *)
(* overrides decide which days trade; roll dates are counted in those days. *)
(***************************************************************************)
EXTENDS Integers, FiniteSets, FiniteSetsExt, Sequences

CONSTANTS
    FirstYear, LastYear,    \* bound: the years whose days are computed
    ExtraHolidays,          \* operator overrides
    ExtraTradingDays

ASSUME CalendarAssumption ==
    /\ FirstYear \in Nat /\ LastYear \in Nat /\ 1 < FirstYear /\ FirstYear <= LastYear
    /\ ExtraHolidays \cap ExtraTradingDays = {}

Years == FirstYear .. LastYear

------------------------------------------------------------------------------
(* The Gregorian calendar *)

IsLeap(y) == y % 4 = 0 /\ (y % 100 # 0 \/ y % 400 = 0)
DaysInMonth(y, m) ==
    IF m = 2 /\ IsLeap(y) THEN 29
    ELSE <<31, 28, 31, 30, 31, 30, 31, 31, 30, 31, 30, 31>>[m]
DaysBefore(y, m) ==
    <<0, 31, 59, 90, 120, 151, 181, 212, 243, 273, 304, 334>>[m]
    + (IF m > 2 /\ IsLeap(y) THEN 1 ELSE 0)

Date(y, m, d) ==
    LET p == y - 1
    IN 365 * p + (p \div 4) - (p \div 100) + (p \div 400) + DaysBefore(y, m) + d

Monday == 0
Wednesday == 2
Thursday == 3
Friday == 4
Saturday == 5
Sunday == 6
Weekday(d) == (d - 1) % 7

NthWeekday(y, m, w, n) == Date(y, m, 1) + ((w - Weekday(Date(y, m, 1))) % 7) + (n - 1) * 7
LastWeekday(y, m, w) ==
    LET last == Date(y, m, DaysInMonth(y, m)) IN last - ((Weekday(last) - w) % 7)

Observed(d) ==
    CASE Weekday(d) = Saturday -> d - 1
      [] Weekday(d) = Sunday -> d + 1
      [] OTHER -> d

------------------------------------------------------------------------------
(* Closures *)

(* The anonymous Gregorian algorithm *)
EasterSunday(y) ==
    LET golden == y % 19
        century == y \div 100
        yoc == y % 100
        sundayLetter == (century - ((century + 8) \div 25) + 1) \div 3
        epact == (19 * golden + century - (century \div 4) - sundayLetter + 15) % 30
        offset == (32 + 2 * (century % 4) + 2 * (yoc \div 4) - epact - (yoc % 4)) % 7
        seed == (golden + 11 * epact + 22 * offset) \div 451
        n == epact + offset - 7 * seed + 114
    IN Date(y, n \div 31, (n % 31) + 1)

GoodFriday(y) == EasterSunday(y) - 2
JuneteenthFirstYear == 2022

AnchoredHolidays(y) ==
    {NthWeekday(y, h.month, h.weekday, h.n) :
        h \in {[month |-> 1, weekday |-> Monday, n |-> 3], [month |-> 2, weekday |-> Monday, n |-> 3],
               [month |-> 9, weekday |-> Monday, n |-> 1], [month |-> 11, weekday |-> Thursday, n |-> 4]}}
    \cup {GoodFriday(y), LastWeekday(y, 5, Monday)}
    \cup {Observed(Date(y, h[1], h[2])) :
            h \in {<<1, 1>>, <<7, 4>>, <<12, 25>>}
                    \cup (IF y >= JuneteenthFirstYear THEN {<<6, 19>>} ELSE {})}

(* New Year may be observed on the last day of the year before. *)
HolidaysInYear(y) ==
    {d \in UNION {AnchoredHolidays(z) : z \in {y, y + 1}} :
        Date(y, 1, 1) <= d /\ d < Date(y + 1, 1, 1)}

TradingDaysOf(y) ==
    {d \in Date(y, 1, 1) .. Date(y, 12, 31) :
        \/ d \in ExtraTradingDays
        \/ d \notin ExtraHolidays /\ Weekday(d) < Saturday /\ d \notin HolidaysInYear(y)}

TradingDays == UNION {TradingDaysOf(y) : y \in Years}
IsTradingDay(d) == d \in TradingDays

------------------------------------------------------------------------------
(* Counting in trading days: the start itself is never counted. *)

MaxCalendarSteps(n) == 7 * n + 30

AddTradingDays(start, n) ==
    LET days == (start + 1 .. start + MaxCalendarSteps(n)) \cap TradingDays
    IN CHOOSE d \in days : Cardinality({t \in days : t <= d}) = n

SubtractTradingDays(start, n) ==
    LET days == (start - MaxCalendarSteps(n) .. start - 1) \cap TradingDays
    IN CHOOSE d \in days : Cardinality({t \in days : t >= d}) = n

PrevTradingDay(d) == SubtractTradingDays(d, 1)
NextTradingDay(d) == AddTradingDays(d, 1)

==============================================================================
