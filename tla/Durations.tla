------------------------------ MODULE Durations ------------------------------
(***************************************************************************)
(* The durations of moment: kept as milliseconds, days and months, each    *)
(* with a sign of its own, shown as years, months, days and hours, told as *)
(* "2 months", and formatted as the countdown of a promotion.  An hour is  *)
(* the smallest part here: minutes and seconds are split off the same way. *)
(***************************************************************************)
EXTENDS Integers, Sequences

CONSTANTS
    Starts,     \* the durations to begin with, of months, days and hours
    Steps,      \* what is added or taken away
    MaxSteps    \* of these

VARIABLES dur, steps
durVars == <<dur, steps>>

-----------------------------------------------------------------------------
Trunc(a, b) == IF a < 0 THEN -((-a) \div b) ELSE a \div b
Rem(a, b) == a - b * Trunc(a, b)
(* absCeil: away from zero.                                                 *)
AwayFromZero(a, b) == IF a < 0 THEN -((-a + b - 1) \div b) ELSE (a + b - 1) \div b
(* Math.round: halves go up.                                                *)
Round(a, b) == (2 * a + b) \div (2 * b)

(* 4800 months have 146097 days.                                            *)
PerMonth == 146097
PerDay == 4800

NotMixed(d) ==
    \/ d.hours >= 0 /\ d.days >= 0 /\ d.months >= 0
    \/ d.hours <= 0 /\ d.days <= 0 /\ d.months <= 0

(* A mutant: parts of different signs are not evened out.                   *)
Bubble_Mixed(d) ==
    LET allDays == d.days + Trunc(d.hours, 24)
        monthsFromDays == Trunc(allDays * PerDay, PerMonth)
        months == d.months + monthsFromDays
    IN  [years |-> Trunc(months, 12), months |-> Rem(months, 12),
         days |-> allDays - AwayFromZero(monthsFromDays * PerMonth, PerDay),
         hours |-> Rem(d.hours, 24)]

(* What a duration shows.                                                   *)
Bubble(d) ==
    LET mixed == ~NotMixed(d)
        ms == IF mixed THEN d.hours + 24 * AwayFromZero(d.months * PerMonth + d.days * PerDay, PerDay)
              ELSE d.hours
        allDays == (IF mixed THEN 0 ELSE d.days) + Trunc(ms, 24)
        monthsFromDays == Trunc(allDays * PerDay, PerMonth)
        months == (IF mixed THEN 0 ELSE d.months) + monthsFromDays
    IN  [years |-> Trunc(months, 12), months |-> Rem(months, 12),
         days |-> allDays - AwayFromZero(monthsFromDays * PerMonth, PerDay),
         hours |-> Rem(ms, 24)]

(* What was shown, as a duration.                                           *)
Duration(shown) ==
    [months |-> shown.months + 12 * shown.years, days |-> shown.days, hours |-> shown.hours]

(* In hours, days and months: the first two as months have days on average. *)
AsHours(d) == 24 * (d.days + Round(d.months * PerMonth, PerDay)) + d.hours
RoundedDays(d) == Round(AsHours(d), 24)

RoundedMonths(d) ==
    Round(d.months * PerMonth * 24 + (24 * d.days + d.hours) * PerDay, PerMonth * 24)
RoundedYears(d) ==
    Round(d.months * PerMonth * 24 + (24 * d.days + d.hours) * PerDay, 12 * PerMonth * 24)

Absolute(d) ==
    LET Abs(n) == IF n < 0 THEN -n ELSE n
    IN  [months |-> Abs(d.months), days |-> Abs(d.days), hours |-> Abs(d.hours)]

(* valueOf: a month has 30 days, a year 365.                                *)
ValueOf(d) == d.hours + 24 * (d.days + 30 * Rem(d.months, 12) + 365 * Trunc(d.months, 12))

(* The thresholds of what is told: the unit, by size, and how many.         *)
Thresholds == [h |-> 22, d |-> 26, M |-> 11]

RelativeTime(d) ==
    LET duration == Absolute(d)
        hours == AsHours(duration)
        days == RoundedDays(duration)
        months == RoundedMonths(duration)
        years == RoundedYears(duration)
    IN  CASE hours <= 1 -> <<1, 1>>
          [] 1 < hours /\ hours < Thresholds.h -> <<1, hours>>
          [] Thresholds.h <= hours /\ days <= 1 -> <<2, 1>>
          [] 1 < days /\ days < Thresholds.d -> <<2, days>>
          [] Thresholds.d <= days /\ months <= 1 -> <<3, 1>>
          [] 1 < months /\ months < Thresholds.M -> <<3, months>>
          [] Thresholds.M <= months /\ years <= 1 -> <<4, 1>>
          [] OTHER -> <<4, years>>

Plus(d, e, direction) ==
    [months |-> d.months + direction * e.months, days |-> d.days + direction * e.days,
     hours |-> d.hours + direction * e.hours]

-----------------------------------------------------------------------------
DurationsInit == dur \in Starts /\ steps = 0

AddSubtract(direction) ==
    /\ steps < MaxSteps
    /\ steps' = steps + 1
    /\ \E e \in Steps : dur' = Plus(dur, e, direction)

Add == AddSubtract(1)
Subtract == AddSubtract(-1)

DurationsNext == Add \/ Subtract
DurationsSpec == DurationsInit /\ [][DurationsNext]_durVars
-----------------------------------------------------------------------------
DurationsTypeOK == DOMAIN dur = {"months", "days", "hours"} /\ steps \in 0..MaxSteps

(* Less, by the first part that differs.                                    *)
Parts(shown) == <<shown.years, shown.months, shown.days, shown.hours>>
AtMost(s, t) ==
    \/ s = t
    \/ \E i \in DOMAIN s : s[i] < t[i] /\ \A j \in 1..(i - 1) : s[j] = t[j]

(* The parts that are shown have one sign, none is as large as the next     *)
(* one, and as a duration of their own they show themselves                 *)
(* (cloud-dashboard.js:6319-6364).                                          *)
PartsAreProper ==
    LET shown == Bubble(dur)
    IN  /\ NotMixed(Duration(shown))
        /\ shown.hours \in -23..23 /\ shown.days \in -30..30 /\ shown.months \in -11..11
        /\ Bubble(Duration(shown)) = shown

(* What is added never makes a duration shorter that is none below zero,    *)
(* neither as it is shown nor as it is told nor as it is compared, unless   *)
(* its parts were of different signs                                        *)
(* (cloud-dashboard.js:6291-6309, 6319-6364, 6408-6418, 6477-6496).         *)
LongerIsMore ==
    /\ NotMixed(dur) /\ dur.hours >= 0 /\ dur.days >= 0 /\ dur.months >= 0
    /\ \E e \in Steps : dur' = Plus(dur, e, 1)
    => /\ AtMost(Parts(Bubble(dur)), Parts(Bubble(dur')))
       /\ AtMost(RelativeTime(dur), RelativeTime(dur'))
       /\ ValueOf(dur) < ValueOf(dur')
=============================================================================
