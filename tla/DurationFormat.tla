---------------------------- MODULE DurationFormat ----------------------------
(***************************************************************************)
(* How the time is shown that a promotion still lasts: the time is split   *)
(* among the units of the template, the smallest unit is rounded, what is  *)
(* a whole larger unit after that bubbles up, and what is nothing is       *)
(* trimmed.  The countdown of the dashboard is "hh:mm:ss".                 *)
(***************************************************************************)
EXTENDS Integers, Sequences, SequencesExt, FiniteSetsExt

CONSTANTS
    Begin,      \* the times left to begin with, in ticks
    Span,       \* how many ticks each of them is counted down
    Templates,  \* sequences of units, the largest first
    PerSecond   \* ticks of a second

VARIABLES
    left,       \* the ticks that are left
    counted,    \* the ticks that went by
    template,   \* its units
    trim,       \* which units are not shown when they are 0
    trunc,      \* the smallest unit is not rounded
    largest,    \* how many units are shown at most; 0: all
    units,      \* the numbers of the units, while they are worked out
    bubbling,   \* the types of units that are still to bubble up
    shown,      \* what is shown: units and numbers
    before      \* what was shown a tick before, in ticks

settings == <<template, trim, trunc, largest>>
formatVars == <<left, counted, settings, units, bubbling, shown, before>>

Seconds == [weeks |-> 604800, days |-> 86400, hours |-> 3600, minutes |-> 60, seconds |-> 1]
Of(unit) == Seconds[unit] * PerSecond

(* What trimming there is: of large units (the default), of large and small *)
(* ones, of all, of none.                                                   *)
Trims == {"large", "both", "all", "none"}
TrimLarge == largest > 0 \/ trim \in {"large", "both", "all"}
TrimSmall == trim \in {"both", "all"}
TrimMid == trim = "all"
TrimFinal == trim = "all"

-----------------------------------------------------------------------------
(* The units take what is whole of them from the rest, one after another.   *)
Split(ticks) ==
    [i \in DOMAIN template |->
       LET rest == IF i = 1 THEN ticks ELSE ticks % Of(template[i - 1])
       IN  [type |-> template[i], whole |-> rest \div Of(template[i]),
            part |-> IF i = Len(template) THEN rest % Of(template[i]) ELSE 0]]

IsSmallest(unit) == unit.type = Last(template)
IsLargest(unit) == unit.type = template[1]

(* The smallest unit is rounded.                                            *)
Value(unit) ==
    IF IsSmallest(unit) /\ ~trunc /\ 2 * unit.part >= Of(unit.type) THEN unit.whole + 1 ELSE unit.whole

Total(us) == MapThenSumSet(LAMBDA i : us[i].value * Of(us[i].type), DOMAIN us)

(* What a type of unit may bubble up to.                                    *)
BubbleTargets(type) ==
    CASE type = "seconds" -> {"minutes", "hours", "days", "weeks"}
      [] type = "minutes" -> {"hours", "days", "weeks"}
      [] type = "hours" -> {"days", "weeks"}
      [] OTHER -> {"weeks"}

-----------------------------------------------------------------------------
(* Trimming: from the left, to so many, from the right, between, the last.  *)
Zero(unit) == unit.whole = 0

From(us, staying) == IF staying = {} THEN <<>> ELSE SubSeq(us, Min(staying), Len(us))
UpTo(us, staying) == IF staying = {} THEN <<>> ELSE SubSeq(us, 1, Max(staying))

TrimmedLeft(us) ==
    IF TrimLarge THEN From(us, {i \in DOMAIN us : IsSmallest(us[i]) \/ ~Zero(us[i])}) ELSE us
Shortened(us) ==
    IF largest > 0 /\ Len(us) > largest THEN SubSeq(us, 1, largest) ELSE us

TrimmedRight(us) ==
    IF TrimSmall /\ Len(us) > 1
    THEN UpTo(us, {i \in DOMAIN us : IsLargest(us[i]) \/ ~Zero(us[i])}) ELSE us
TrimmedMid(us) ==
    IF TrimMid /\ Len(us) > 2
    THEN <<Head(us)>> \o SelectSeq(SubSeq(us, 2, Len(us) - 1), LAMBDA u : ~Zero(u)) \o <<Last(us)>>
    ELSE us
TrimmedFinal(us) == IF TrimFinal /\ Len(us) = 1 /\ Zero(us[1]) THEN <<>> ELSE us

(* A unit whose number makes one of a larger unit is 0, and that one more.  *)
Bubbled(us, type, target) ==
    [i \in DOMAIN us |-> CASE us[i].type = type -> [us[i] EXCEPT !.whole = 0, !.part = 0]
                           [] us[i].type = target -> [us[i] EXCEPT !.whole = @ + 1, !.part = 0]
                           [] OTHER -> us[i]]

-----------------------------------------------------------------------------
Types == <<"seconds", "minutes", "hours", "days">>

FormatInit ==
    /\ left \in Begin /\ counted = 0
    /\ template \in Templates
    /\ trim \in Trims /\ trunc \in BOOLEAN /\ largest \in 0..2
    /\ units = Split(left) /\ bubbling = Types
    /\ shown = <<>> /\ before = left + 2 * Of(template[1])

Numbers == {units[i] : i \in DOMAIN units}
Targets(type) ==
    {target \in BubbleTargets(type) :
       \E unit, other \in Numbers : /\ unit.type = type /\ other.type = target
                                    /\ Value(unit) * Seconds[type] = Seconds[target]}

BubbleUp ==
    /\ bubbling # <<>> /\ bubbling' = Tail(bubbling)
    /\ LET type == Head(bubbling)
       IN  IF Targets(type) = {} THEN UNCHANGED units
           ELSE \E target \in Targets(type) : units' = Bubbled(units, type, target)
    /\ UNCHANGED <<left, counted, settings, shown, before>>

(* What is left of the units is shown.                                      *)
Show ==
    /\ bubbling = <<>> /\ units # <<>>
    /\ LET us == TrimmedFinal(TrimmedMid(TrimmedRight(Shortened(TrimmedLeft(units)))))
       IN  shown' = [i \in DOMAIN us |-> [type |-> us[i].type, value |-> Value(us[i])]]
    /\ units' = <<>>
    /\ UNCHANGED <<left, counted, settings, bubbling, before>>

(* Time goes on, and what is left is shown again.                           *)
Tick ==
    /\ units = <<>> /\ left > 0 /\ counted < Span
    /\ left' = left - 1 /\ counted' = counted + 1
    /\ units' = Split(left - 1) /\ bubbling' = Types
    /\ before' = Total(shown)
    /\ UNCHANGED <<settings, shown>>

FormatNext == BubbleUp \/ Show \/ Tick
FormatSpec == FormatInit /\ [][FormatNext]_formatVars
-----------------------------------------------------------------------------
FormatTypeOK ==
    /\ left \in Nat /\ counted \in 0..Span
    /\ \A i \in DOMAIN units : units[i].type \in DOMAIN Seconds /\ units[i].whole \in Nat

IsShown == units = <<>>

(* By default nothing that is left is missing from what is shown, but for   *)
(* what the smallest unit cannot show: the time is rounded to it, and no    *)
(* unit has as many as make one of the unit before it                       *)
(* (cloud-dashboard.js:1545-1614, 1665-1700, 1743-1779, 1795-1803).         *)
NothingIsMissing ==
    IsShown =>
       /\ trim \in {"large", "none"} /\ largest = 0 =>
            LET off == Total(shown) - left
                smallest == Of(Last(template))
            IN  IF trunc THEN -smallest < off /\ off <= 0
                         ELSE -smallest < 2 * off /\ 2 * off <= smallest
       /\ \A i \in 1..(Len(shown) - 1) :
             shown[i + 1].value * Of(shown[i + 1].type) < Of(shown[i].type)

(* However it is trimmed, the first number that is shown is not 0, unless   *)
(* there is nothing else; and a unit that is shown no more although it was  *)
(* not 0 is beyond how many were asked for, or was 1 only by rounding       *)
(* (cloud-dashboard.js:1795-1837).                                          *)
OnlyZerosGo ==
    IsShown /\ largest = 0 =>
       LET off == left - Total(shown)
       IN  /\ off < Of(Last(template)) /\ -off < Of(Last(template))
           /\ TrimLarge /\ shown # <<>> /\ shown[1].value = 0 => Len(shown) = 1

(* The countdown never shows more than a moment before                      *)
(* (cloud-dashboard.js:1616-1620, 1757-1765).                               *)
CountsDown == IsShown => Total(shown) <= before
=============================================================================
