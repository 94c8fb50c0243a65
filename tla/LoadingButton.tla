---------------------------- MODULE LoadingButton ----------------------------
(* A button that shows that its work goes on, then for a second how it      *)
(* ended.  A button is a record: what it shows, whether _stopTimeout is the *)
(* handle of a running timer, and how many more timers run whose handle was *)
(* overwritten.                                                             *)
EXTENDS Naturals

IdleButton == [shows |-> "label", timer |-> FALSE, strays |-> 0]

Buttons == [shows : {"label", "loading", "success", "fail"},
            timer : BOOLEAN, strays : Nat]

StartButton(b) == [b EXCEPT !.shows = "loading", !.timer = FALSE]

StopButton(b) == [b EXCEPT !.shows = "label"]

(* success, fail: the timer of an earlier outcome is not cleared.           *)
EndButton(b, outcome) ==
    [shows |-> outcome, timer |-> TRUE,
     strays |-> IF b.timer THEN b.strays + 1 ELSE b.strays]

(* What a button can be once one of its timers ran out.                     *)
TimedOut(b) ==
    {StopButton(c) : c \in
        (IF b.timer THEN {[b EXCEPT !.timer = FALSE]} ELSE {})
        \cup (IF b.strays > 0 THEN {[b EXCEPT !.strays = @ - 1]} ELSE {})}
=============================================================================
