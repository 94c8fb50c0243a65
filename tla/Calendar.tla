------------------------------- MODULE Calendar -------------------------------
(***************************************************************************)
(* The dates of moment, which the dashboard reckons its trial and promo    *)
(* days with: months of unequal length, weeks of a year that is not the    *)
(* calendar's, periods that start and end, and the difference of two dates *)
(* in months and rest.  A moment is a number of ticks; the browser's Date, *)
(* which moment is built on, is a count of days and is external.           *)
(***************************************************************************)
EXTENDS Integers, Sequences, FiniteSets

CONSTANTS
    Days,      \* the days that come one after another, as numbers
    Offsets,   \* how far from a day the dates are that it is compared with
    Locales,   \* the first day of the week, and the january day of week 1
    Ticks      \* of a day

VARIABLES
    today,    \* a moment
    other,    \* another, which stays
    locale    \* whose weeks they are

calVars == <<today, other, locale>>

-----------------------------------------------------------------------------
(* The browser's Date: 1 is the first of january of the year 1, a monday.   *)
IsLeapYear(year) == (year % 4 = 0 /\ year % 100 # 0) \/ year % 400 = 0
DaysInYear(year) == IF IsLeapYear(year) THEN 366 ELSE 365

BeforeYear(year) ==
    LET y == year - 1 IN 365 * y + (y \div 4) - (y \div 100) + (y \div 400)

BeforeMonth(year, month) ==
    <<0, 31, 59, 90, 120, 151, 181, 212, 243, 273, 304, 334>>[month + 1]
    + (IF month > 1 /\ IsLeapYear(year) THEN 1 ELSE 0)

(* Months below 0 and above 11, and days that are not of the month, are of  *)
(* others.                                                                  *)
DateUTC(year, month, date) ==
    LET y == year + (month \div 12)
    IN  BeforeYear(y) + BeforeMonth(y, month % 12) + date

Year(day) == CHOOSE y \in (day \div 366)..(day \div 365 + 1) :
                BeforeYear(y) < day /\ day <= BeforeYear(y + 1)
DayOfYear(day) == day - BeforeYear(Year(day))
Month(day) == CHOOSE m \in 0..11 :
                 /\ BeforeMonth(Year(day), m) < DayOfYear(day)
                 /\ m = 11 \/ DayOfYear(day) <= BeforeMonth(Year(day), m + 1)
Date(day) == DayOfYear(day) - BeforeMonth(Year(day), Month(day))
Weekday(day) == day % 7

-----------------------------------------------------------------------------
(* What moment computes of years, months and weeks.                         *)
DaysInMonth(year, month) ==
    LET modMonth == month % 12
        y == year + (month - modMonth) \div 12
    IN  IF modMonth = 1 THEN IF IsLeapYear(y) THEN 29 ELSE 28
                        ELSE 31 - ((modMonth % 7) % 2)

FirstWeekOffset(year, dow, doy) ==
    LET fwd == 7 + dow - doy
        fwdlw == (7 + Weekday(DateUTC(year, 0, fwd)) - dow) % 7
    IN  -fwdlw + fwd - 1

WeeksInYear(year, dow, doy) ==
    (DaysInYear(year) - FirstWeekOffset(year, dow, doy) + FirstWeekOffset(year + 1, dow, doy)) \div 7

DayOfYearFromWeeks(year, week, weekday, dow, doy) ==
    LET localWeekday == (7 + weekday - dow) % 7
        dayOfYear == 1 + 7 * (week - 1) + localWeekday + FirstWeekOffset(year, dow, doy)
    IN  CASE dayOfYear <= 0 ->
               [year |-> year - 1, dayOfYear |-> DaysInYear(year - 1) + dayOfYear]
          [] dayOfYear > DaysInYear(year) ->
               [year |-> year + 1, dayOfYear |-> dayOfYear - DaysInYear(year)]
          [] OTHER -> [year |-> year, dayOfYear |-> dayOfYear]

WeekOfYear(day, dow, doy) ==
    LET year == Year(day)
        week == (DayOfYear(day) - FirstWeekOffset(year, dow, doy) - 1) \div 7 + 1
        weeks == WeeksInYear(year, dow, doy)
    IN  CASE week < 1 -> [year |-> year - 1, week |-> week + WeeksInYear(year - 1, dow, doy)]
          [] week > weeks -> [year |-> year + 1, week |-> week - weeks]
          [] OTHER -> [year |-> year, week |-> week]

-----------------------------------------------------------------------------
(* Moments: setters keep the time of the day.                               *)
DayOf(mom) == mom \div Ticks
TimeOf(mom) == mom % Ticks
At(day, mom) == day * Ticks + TimeOf(mom)

(* The 29th of february is the 28th in the years that have none.            *)
SetYear(mom, year) ==
    LET d == DayOf(mom)
    IN  At(IF IsLeapYear(Year(d)) /\ Month(d) = 1 /\ Date(d) = 29
           THEN DateUTC(year, 1, DaysInMonth(year, 1))
           ELSE DateUTC(year, Month(d), Date(d)), mom)

SetMonth(mom, month) ==
    LET d == DayOf(mom)
        last == DaysInMonth(Year(d), month)
    IN  At(DateUTC(Year(d), month, IF Date(d) < last THEN Date(d) ELSE last), mom)

SetDate(mom, date) == LET d == DayOf(mom) IN At(DateUTC(Year(d), Month(d), date), mom)

AddMonths(mom, months) ==
    IF months = 0 THEN mom ELSE SetMonth(mom, Month(DayOf(mom)) + months)
AddDays(mom, days) ==
    IF days = 0 THEN mom ELSE SetDate(mom, Date(DayOf(mom)) + days)

SetWeekAll(mom, year, week, weekday, dow, doy) ==
    LET data == DayOfYearFromWeeks(year, week, weekday, dow, doy)
        day == DateUTC(data.year, 0, data.dayOfYear)
    IN  SetDate(SetMonth(SetYear(mom, Year(day)), Month(day)), Date(day))

(* A mutant: the last week of a long year is looked for in a short one.     *)
SetWeekYear_Overflows(mom, year, dow, doy) ==
    SetWeekAll(mom, year, WeekOfYear(DayOf(mom), dow, doy).week,
               Weekday(DayOf(mom)), dow, doy)

SetWeekYear(mom, year, dow, doy) ==
    LET week == WeekOfYear(DayOf(mom), dow, doy).week
        weeksTarget == WeeksInYear(year, dow, doy)
    IN  SetWeekAll(mom, year, IF week > weeksTarget THEN weeksTarget ELSE week,
                   Weekday(DayOf(mom)), dow, doy)

SetWeek(mom, week, dow, doy) ==
    AddDays(mom, (week - WeekOfYear(DayOf(mom), dow, doy).week) * 7)

SetQuarter(mom, quarter) == SetMonth(mom, (quarter - 1) * 3 + (Month(DayOf(mom)) % 3))

-----------------------------------------------------------------------------
(* The start and the end of periods.                                        *)
Periods == {"year", "quarter", "month", "week", "isoWeek", "day"}

Midnight(mom) == DayOf(mom) * Ticks

StartOf(mom, period, dow) ==
    LET date1 == Midnight(SetDate(mom, 1))
        d == DayOf(mom)
    IN  CASE period = "year" -> Midnight(SetDate(SetMonth(mom, 0), 1))
          [] period = "month" -> date1
          [] period = "quarter" -> SetMonth(date1, (Month(d) \div 3) * 3)
          [] period = "week" -> Midnight(AddDays(mom, 0 - ((Weekday(d) + 7 - dow) % 7)))
          [] period = "isoWeek" ->
               Midnight(AddDays(mom, 1 - (IF Weekday(d) = 0 THEN 7 ELSE Weekday(d))))
          [] OTHER -> Midnight(mom)

EndOf(mom, period, dow) ==
    LET start == StartOf(mom, period, dow)
        next == CASE period = "year" -> AddMonths(start, 12)
                  [] period = "quarter" -> AddMonths(start, 3)
                  [] period = "month" -> AddMonths(start, 1)
                  [] period \in {"week", "isoWeek"} -> AddDays(start, 7)
                  [] OTHER -> AddDays(start, 1)
    IN  next - 1

IsBefore(mom, input, period, dow) == EndOf(mom, period, dow) < input
IsAfter(mom, input, period, dow) == input < StartOf(mom, period, dow)
IsSame(mom, input, period, dow) ==
    StartOf(mom, period, dow) <= input /\ input <= EndOf(mom, period, dow)

-----------------------------------------------------------------------------
(* Differences: whole months and the rest; months as a fraction.            *)
PositiveDifference(base, later) ==
    LET apart == (Month(DayOf(later)) - Month(DayOf(base)))
                 + (Year(DayOf(later)) - Year(DayOf(base))) * 12
        months == IF AddMonths(base, apart) > later THEN apart - 1 ELSE apart
    IN  [months |-> months, rest |-> later - AddMonths(base, months)]

MomentsDifference(base, mom) ==
    IF base < mom THEN PositiveDifference(base, mom)
    ELSE LET res == PositiveDifference(mom, base)
         IN  [months |-> -res.months, rest |-> -res.rest]

(* A fraction: its numerator and its denominator.                           *)
MonthDiff(a, b) ==
    LET whole == (Year(DayOf(b)) - Year(DayOf(a))) * 12 + (Month(DayOf(b)) - Month(DayOf(a)))
        anchor == AddMonths(a, whole)
        length == IF b < anchor THEN anchor - AddMonths(a, whole - 1)
                                ELSE AddMonths(a, whole + 1) - anchor
    IN  <<-(whole * length + (b - anchor)), length>>

LessOrEqual(f, g) == f[1] * g[2] <= g[1] * f[2]

-----------------------------------------------------------------------------
(* Parsing: the fields that were read from the input, Unread those it has   *)
(* not.  Those of weeks are of the iso weeks (GG, W, E) or of the locale's  *)
(* (gg, w, d or e).                                                         *)
Unread == -1
FieldNames == {"Y", "M", "D", "DDD", "GG", "W", "E", "gg", "w", "d", "e"}
Fields(given) == [f \in FieldNames |-> IF f \in DOMAIN given THEN given[f] ELSE Unread]
Default(a, b) == IF a # Unread THEN a ELSE b
Weeks == {"GG", "W", "E", "gg", "w", "d", "e"}

(* A mutant: every year may have 53 weeks.                                  *)
HasWeek_53(week, year, first, january) == week \in 1..53

HasWeek(week, year, first, january) == week \in 1..WeeksInYear(year, first, january)

(* The year and its day that the fields of weeks mean.                      *)
FromWeekInfo(c, now, loc) ==
    LET iso == c.GG # Unread \/ c.W # Unread \/ c.E # Unread
        first == IF iso THEN 1 ELSE loc[1]
        january == IF iso THEN 4 ELSE loc[2]
        current == WeekOfYear(now, first, january)
        year == Default(IF iso THEN c.GG ELSE c.gg, Default(c.Y, current.year))
        week == IF iso THEN Default(c.W, 1) ELSE Default(c.w, current.week)
        weekday == CASE iso -> Default(c.E, 1)
                     [] ~iso /\ c.d # Unread -> c.d
                     [] ~iso /\ c.d = Unread -> Default(c.e, 0) + first
        fits == CASE iso -> weekday \in 1..7
                  [] ~iso /\ c.d # Unread -> c.d \in 0..6
                  [] OTHER -> c.e \in -1..6
        data == DayOfYearFromWeeks(year, week, weekday, first, january)
    IN  IF HasWeek(week, year, first, january) /\ fits
        THEN [valid |-> TRUE, fields |-> [c EXCEPT !.Y = data.year, !.DDD = data.dayOfYear]]
        ELSE [valid |-> FALSE, fields |-> c]

(* The day of these fields, and whether there is such a day.                *)
DayOfFields(c, weeks, now) ==
    LET g == weeks.fields
        dayYear == Default(g.Y, Year(now))
        ofYear == DateUTC(dayYear, 0, g.DDD)
        M == IF g.DDD # Unread THEN Month(ofYear) ELSE g.M
        D == IF g.DDD # Unread THEN Date(ofYear) ELSE g.D
        year == Default(g.Y, Year(now))
        month == IF g.Y = Unread THEN Default(M, Month(now)) ELSE Default(M, 0)
        date == IF g.Y = Unread /\ M = Unread THEN Default(D, Date(now)) ELSE Default(D, 1)
        day == DateUTC(year, month, date)
    IN  [valid |-> /\ weeks.valid
                   /\ g.DDD # Unread => g.DDD \in 1..DaysInYear(dayYear)
                   /\ month \in 0..11
                   /\ date \in 1..DaysInMonth(year, month)
                   /\ c.d # Unread => c.d = Weekday(day),
         day |-> day]

FromArray(c, now, loc) ==
    DayOfFields(c,
        IF (\E f \in Weeks : c[f] # Unread) /\ c.D = Unread /\ c.M = Unread
        THEN FromWeekInfo(c, now, loc) ELSE [valid |-> TRUE, fields |-> c],
        now)

(* 24:00 is the next day's 0:00.                                            *)
FromConfig(c, hour, now, loc) ==
    LET res == FromArray(c, now, loc)
    IN  IF hour = 24 THEN [res EXCEPT !.day = @ + 1] ELSE res

HFormat(hour) == IF hour % 12 = 0 THEN 12 ELSE hour % 12
MeridiemFixWrap(hour, isPm) ==
    CASE isPm /\ hour < 12 -> hour + 12
      [] ~isPm /\ hour = 12 -> 0
      [] OTHER -> hour

-----------------------------------------------------------------------------
CalendarInit ==
    /\ today \in {d * Ticks + t : d \in {e \in Days : e - 1 \notin Days}, t \in 0..(Ticks - 1)}
    /\ \E off \in Offsets : other = today + off
    /\ locale \in Locales

(* Time goes on: the same time of the next day.                             *)
Later ==
    /\ DayOf(today) + 1 \in Days
    /\ today' = today + Ticks
    /\ UNCHANGED <<other, locale>>

CalendarNext == Later
CalendarSpec == CalendarInit /\ [][CalendarNext]_calVars
-----------------------------------------------------------------------------
dow == locale[1]
doy == locale[2]
WeekOf(mom) == WeekOfYear(DayOf(mom), dow, doy)

CalendarTypeOK == today \in Nat /\ other \in Int /\ locale \in Locales

(* The week and the weekday of a date lead back to it, at the edges of the  *)
(* years too, and a week year that is set is there, with the week, unless   *)
(* the year is too short for it, and the weekday                            *)
(* (cloud-dashboard.js:3384-3427, 5815-5836).                               *)
WeeksLeadBack ==
    LET d == DayOf(today)
        w == WeekOf(today)
        data == DayOfYearFromWeeks(w.year, w.week, Weekday(d), dow, doy)
    IN  /\ DateUTC(data.year, 0, data.dayOfYear) = d
        /\ \A y \in {w.year - 1, w.year + 1} :
              LET there == DayOf(SetWeekYear(today, y, dow, doy))
                  weeks == WeeksInYear(y, dow, doy)
              IN  /\ WeekOfYear(there, dow, doy)
                       = [year |-> y, week |-> IF w.week > weeks THEN weeks ELSE w.week]
                  /\ Weekday(there) = Weekday(d)

(* The periods of a kind follow each other without a gap or an overlap, and *)
(* a date is before, the same as, or after another, by their periods, and   *)
(* one of these only (cloud-dashboard.js:5397-5442, 5626-5682).             *)
PeriodsFollow ==
    \A p \in Periods :
       LET end == EndOf(today, p, dow)
       IN  /\ StartOf(end + 1, p, dow) = end + 1
           /\ StartOf(end, p, dow) = StartOf(today, p, dow)
           /\ Cardinality({how \in {"before", "same", "after"} :
                 CASE how = "before" -> IsBefore(today, other, p, dow)
                   [] how = "same" -> IsSame(today, other, p, dow)
                   [] OTHER -> IsAfter(today, other, p, dow)}) = 1
           /\ IsSame(today, other, p, dow) = IsSame(other, today, p, dow)

(* Two dates are whole months and a rest apart that is not negative, and    *)
(* that is shorter than the next month (cloud-dashboard.js:5292-5304).      *)
DifferenceIsWhole ==
    LET first == IF today < other THEN today ELSE other
        second == IF today < other THEN other ELSE today
        res == MomentsDifference(first, second)
    IN  /\ res.months >= 0 /\ res.rest >= 0
        /\ AddMonths(first, res.months) + res.rest = second
        /\ AddMonths(first, res.months + 1) > second

(* What months are added is there: the month is the one that many later,    *)
(* whatever the day (cloud-dashboard.js:3238-3261, 5342-5366, 5859-5861).   *)
MonthsAreAdded ==
    /\ \A n \in {-13, -1, 1, 2, 12, 13} :
          LET d == DayOf(today)
              then == DayOf(AddMonths(today, n))
          IN  Year(then) * 12 + Month(then) = Year(d) * 12 + Month(d) + n
    /\ \A q \in 1..4 : LET d == DayOf(SetQuarter(today, q))
                       IN  Year(d) = Year(DayOf(today)) /\ Month(d) \div 3 = q - 1

(* A date that was written by its month, by its day of the year or by its   *)
(* week, is read, whatever day it is now; and with less than that, what is  *)
(* missing is of now, if it comes first, as long as nothing before it is    *)
(* given (cloud-dashboard.js:3849-3851, 4242-4366, 4669-4692, 4752-4761).   *)
WrittenIsRead ==
    LET d == DayOf(today)
        now == DayOf(other)
        w == WeekOf(today)
        iso == WeekOfYear(d, 1, 4)
        E == IF Weekday(d) = 0 THEN 7 ELSE Weekday(d)
        e == (Weekday(d) + 7 - dow) % 7
        written ==
            {[Y |-> Year(d), M |-> Month(d), D |-> Date(d)],
             [Y |-> Year(d), M |-> Month(d), D |-> Date(d), d |-> Weekday(d)],
             [Y |-> Year(d), DDD |-> DayOfYear(d)],
             [GG |-> iso.year, W |-> iso.week, E |-> E],
             [gg |-> w.year, w |-> w.week, d |-> Weekday(d)],
             [gg |-> w.year, w |-> w.week, e |-> e]}
            \cup {given \in {[M |-> Month(d), D |-> Date(d)]} : Year(now) = Year(d)}
            \cup {given \in {[D |-> Date(d)]} : Year(now) = Year(d) /\ Month(now) = Month(d)}
            \cup {given \in {[e |-> e]} : w = WeekOf(other)}
    IN  /\ \A given \in written, hour \in {0, 24} :
              FromConfig(Fields(given), hour, now, locale)
                  = [valid |-> TRUE, day |-> IF hour = 24 THEN d + 1 ELSE d]
        /\ \A hour \in 0..23 : MeridiemFixWrap(HFormat(hour), hour >= 12) = hour

(* A day that is not is refused: of a month, of a year, of a week, and the  *)
(* wrong weekday (cloud-dashboard.js:4188-4216, 4260, 4306, 4357-4361).     *)
OthersAreRefused ==
    LET d == DayOf(today)
        now == DayOf(other)
        w == WeekOf(today)
        iso == WeekOfYear(d, 1, 4)
        end == DaysInMonth(Year(d), Month(d))
        wrong ==
            {[Y |-> Year(d), M |-> Month(d), D |-> end + 1],
             [Y |-> Year(d), M |-> 12, D |-> Date(d)],
             [Y |-> Year(d), DDD |-> DaysInYear(Year(d)) + 1],
             [Y |-> Year(d), DDD |-> 0],
             [GG |-> iso.year, W |-> WeeksInYear(iso.year, 1, 4) + 1, E |-> 1],
             [GG |-> iso.year, W |-> iso.week, E |-> 8],
             [gg |-> w.year, w |-> WeeksInYear(w.year, dow, doy) + 1, d |-> 0],
             [gg |-> w.year, w |-> w.week, e |-> 7],
             [Y |-> Year(d), M |-> Month(d), D |-> Date(d), d |-> (Weekday(d) + 1) % 7]}
    IN  \A given \in wrong : ~FromConfig(Fields(given), 0, now, locale).valid

(* The week of the next day is the same, or the next one, or the first of   *)
(* the next year after as many weeks as the year has; and the difference in *)
(* months to another date never shrinks while time goes on                  *)
(* (cloud-dashboard.js:3407-3433, 5486-5505).                               *)
TimeGoesOn ==
    LET w == WeekOf(today)
    IN  /\ \/ WeekOf(today') = w
           \/ WeekOf(today') = [w EXCEPT !.week = @ + 1]
           \/ /\ WeekOf(today') = [year |-> w.year + 1, week |-> 1]
              /\ w.week = WeeksInYear(w.year, dow, doy)
        /\ LessOrEqual(MonthDiff(today, other), MonthDiff(today', other))
=============================================================================
