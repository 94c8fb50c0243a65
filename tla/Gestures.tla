------------------------------ MODULE Gestures ------------------------------
(***************************************************************************)
(* The gestures that are made of mouse and touch events on a node: down    *)
(* and up, track, tap.  Each has a recognizer with state of its own; one   *)
(* that starts may prevent another.  After a touch the mouse events that   *)
(* the browser sends for it are to be ignored.  Other buttons of the mouse *)
(* go down and up meanwhile; a mouse and a finger at once are left out.    *)
(***************************************************************************)
EXTENDS Naturals

VARIABLES
    tracks,   \* whether the node listens to track
    pointer,  \* what the user does: "none", "mouse", "touch"
    held,     \* the left button is held
    offset,   \* how far the pointer is from where it went down
    due,      \* what the browser still sends: "none", "click", "emulated" mouse events
    follows,  \* whose listeners the document has: downup's and track's
    track,    \* the recognizer of track
    tap,      \* the recognizer of tap: prevented? is where it began known?
    ignore,   \* the job that ends the ignoring of the mouse waits
    fingers,  \* another finger is down
    fired     \* the gestures since the pointer went down

gestureVars == <<tracks, pointer, held, offset, due, follows, track, tap, ignore, fingers, fired>>

(* Within TRACK_DISTANCE, within TAP_DISTANCE, and beyond.                  *)
Offsets == {"near", "mid", "far"}

(* What was told, and whether another button reset the recognizers.         *)
NoneFired == [down |-> 0, up |-> 0, track |-> "none", taps |-> 0, disturbed |-> FALSE]

IdleTrack == [state |-> "start", started |-> FALSE, prevent |-> FALSE]

GestureInit ==
    /\ tracks \in BOOLEAN
    /\ pointer = "none" /\ held = FALSE /\ offset = "near" /\ due = "none"
    /\ follows = [downup |-> FALSE, track |-> FALSE]
    /\ track = IdleTrack /\ tap = [prevent |-> FALSE, saved |-> FALSE]
    /\ ignore = FALSE /\ fingers = FALSE
    /\ fired = NoneFired

-----------------------------------------------------------------------------
HasMovedEnough(to) == ~track.prevent /\ (track.started \/ to # "near")

(* forward: a tap, unless the pointer moved too far, from where it is known *)
(* to have gone down, or it is prevented.                                   *)
Tapped(to, gestures) ==
    IF (tap.saved => to # "far") /\ ~tap.prevent THEN [gestures EXCEPT !.taps = @ + 1] ELSE gestures

(* reset: whatever button goes down, or finger, each recognizer begins anew *)
(* and listens to the document no more.                                     *)
Reset(prevent, saved) ==
    /\ track' = [IdleTrack EXCEPT !.prevent = prevent]
    /\ tap' = [prevent |-> FALSE, saved |-> saved]

(* A mutant: a mouse button that goes down does not reset the recognizers.  *)
MouseDown_NoReset ==
    /\ pointer = "none" /\ due = "none"
    /\ pointer' = "mouse" /\ held' = TRUE /\ offset' = "near"
    /\ follows' = [downup |-> TRUE, track |-> tracks]
    /\ fired' = [NoneFired EXCEPT !.down = 1]
    /\ UNCHANGED <<tracks, due, track, tap, ignore, fingers>>

(* mousedown of all three, by the left button.  The handler of down may     *)
(* prevent the track.                                                       *)
MouseDown ==
    /\ pointer = "none" /\ due = "none"
    /\ pointer' = "mouse" /\ held' = TRUE /\ offset' = "near"
    /\ \E prevent \in BOOLEAN : Reset(prevent, TRUE)
    /\ follows' = [downup |-> TRUE, track |-> tracks]
    /\ fired' = [NoneFired EXCEPT !.down = 1]
    /\ UNCHANGED <<tracks, due, ignore, fingers>>

(* Another button goes down on the node.  The recognizers are reset before  *)
(* any of them asks which button it is, and none begins anything.           *)
OtherButtonDown ==
    /\ pointer # "touch" /\ due = "none"
    /\ Reset(FALSE, FALSE)
    /\ follows' = [downup |-> FALSE, track |-> FALSE]
    /\ fired' = [fired EXCEPT !.disturbed = TRUE]
    /\ UNCHANGED <<tracks, pointer, held, offset, due, ignore, fingers>>

(* The upfn of both, when another button is up, wherever it went down: a    *)
(* track that started ends, and up is not told.                             *)
OtherButtonUp ==
    LET ends == follows.track /\ track.started /\ ~track.prevent
    IN  /\ pointer # "touch" /\ due = "none"
        /\ track' = IF ends THEN [track EXCEPT !.state = "end"] ELSE track
        /\ follows' = [downup |-> FALSE, track |-> FALSE]
        /\ fired' = [fired EXCEPT !.track = IF ends THEN "end" ELSE @]
        /\ UNCHANGED <<tracks, pointer, held, offset, due, tap, ignore, fingers>>

(* The button is let go outside of the window, and no event tells.          *)
LoseButton ==
    /\ pointer = "mouse" /\ held
    /\ held' = FALSE
    /\ UNCHANGED <<tracks, pointer, offset, due, follows, track, tap, ignore, fingers, fired>>

(* The movefn of both that follow the mouse: when the button turns out not  *)
(* to be held it is up, and a track ends, even one that did not start.      *)
MouseMove(to) ==
    LET moved == follows.track /\ HasMovedEnough(to)
        state == IF ~held THEN "end" ELSE IF track.started THEN "track" ELSE "start"
        up    == follows.downup /\ ~held
    IN  /\ pointer = "mouse" /\ to # offset
        /\ offset' = to
        /\ track' = IF moved THEN [track EXCEPT !.state = state, !.started = TRUE] ELSE track
        /\ tap' = IF moved /\ ~track.started THEN [tap EXCEPT !.prevent = TRUE] ELSE tap
        /\ follows' = [downup |-> follows.downup /\ held,
                       track |-> follows.track /\ (held \/ ~moved)]
        /\ fired' = [fired EXCEPT !.up = IF up THEN @ + 1 ELSE @,
                                  !.track = IF moved THEN state ELSE @]
        /\ UNCHANGED <<tracks, pointer, held, due, ignore, fingers>>

(* A mutant: the document is still listened to when the button is up.       *)
MouseUp_Follows ==
    /\ pointer = "mouse" /\ held
    /\ pointer' = "none" /\ held' = FALSE
    /\ due' = "click"
    /\ fired' = [fired EXCEPT !.up = IF follows.downup THEN @ + 1 ELSE @]
    /\ UNCHANGED <<tracks, offset, follows, track, tap, ignore, fingers>>

(* mouseup: up, and the end of a track that started.  A click follows.      *)
MouseUp ==
    LET ends == follows.track /\ track.started /\ ~track.prevent
    IN  /\ pointer = "mouse" /\ held
        /\ pointer' = "none" /\ held' = FALSE
        /\ due' = "click"
        /\ track' = IF ends THEN [track EXCEPT !.state = "end"] ELSE track
        /\ follows' = [downup |-> FALSE, track |-> FALSE]
        /\ fired' = [fired EXCEPT !.up = IF follows.downup THEN @ + 1 ELSE @,
                                  !.track = IF ends THEN "end" ELSE @]
        /\ UNCHANGED <<tracks, offset, tap, ignore, fingers>>

(* The user goes on after the button was lost.                              *)
GoOn ==
    /\ pointer = "mouse" /\ ~held
    /\ pointer' = "none"
    /\ UNCHANGED <<tracks, held, offset, due, follows, track, tap, ignore, fingers, fired>>

Click ==
    /\ due = "click"
    /\ due' = "none"
    /\ fired' = Tapped(offset, fired)
    /\ UNCHANGED <<tracks, pointer, held, offset, follows, track, tap, ignore, fingers>>

-----------------------------------------------------------------------------
(* touchstart of the only finger.                                           *)
TouchStart ==
    /\ pointer = "none" /\ due = "none" /\ ~fingers
    /\ pointer' = "touch" /\ offset' = "near"
    /\ \E prevent \in BOOLEAN : Reset(prevent, TRUE)
    /\ follows' = [downup |-> FALSE, track |-> FALSE]
    /\ fired' = [NoneFired EXCEPT !.down = 1]
    /\ UNCHANGED <<tracks, held, due, ignore, fingers>>

(* Another finger comes or goes: its events are not for the recognizers,    *)
(* but the end of its touch is heard by ignoreMouse.                        *)
OtherFinger ==
    /\ pointer = "touch" \/ fingers
    /\ fingers' = ~fingers
    /\ ignore' = (ignore \/ fingers)
    /\ UNCHANGED <<tracks, pointer, held, offset, due, follows, track, tap, fired>>

TouchMove(to) ==
    LET moved == tracks /\ HasMovedEnough(to)
    IN  /\ pointer = "touch" /\ to # offset
        /\ offset' = to
        /\ track' = IF moved THEN [track EXCEPT !.state = "track", !.started = TRUE] ELSE track
        /\ tap' = IF moved /\ track.state = "start" THEN [tap EXCEPT !.prevent = TRUE] ELSE tap
        /\ fired' = IF moved THEN [fired EXCEPT !.track = track.state] ELSE fired
        /\ UNCHANGED <<tracks, pointer, held, due, follows, ignore, fingers>>

(* ignoreMouse: the mouse is ignored, from now on for its whole time.       *)
IgnoreMouse == ignore' = TRUE

(* touchend of all three; the browser then sends mouse events, unless other *)
(* fingers are down.                                                        *)
TouchEnd ==
    LET ends == tracks /\ track.started
    IN  /\ pointer = "touch"
        /\ pointer' = "none"
        /\ due' = IF fingers THEN "none" ELSE "emulated"
        /\ track' = IF ends THEN [track EXCEPT !.state = "end"] ELSE track
        /\ fired' = Tapped(offset, [fired EXCEPT !.up = @ + 1, !.track = IF ends THEN "end" ELSE @])
        /\ IgnoreMouse
        /\ UNCHANGED <<tracks, held, offset, follows, tap, fingers>>

(* The mouse events of a touch: down, up, click, in one place.  Those that  *)
(* are ignored reach the node, but no recognizer.                           *)
Emulated ==
    /\ due = "emulated"
    /\ due' = "none"
    /\ IF ignore THEN UNCHANGED <<track, tap, fired>>
       ELSE /\ Reset(FALSE, TRUE)
            /\ fired' = [fired EXCEPT !.down = @ + 1, !.up = @ + 1, !.taps = @ + 1]
    /\ UNCHANGED <<tracks, pointer, held, offset, follows, ignore, fingers>>

(* The time is up, which the browser's own events were in.                  *)
IgnoreEnds ==
    /\ ignore /\ due # "emulated"
    /\ ignore' = FALSE
    /\ UNCHANGED <<tracks, pointer, held, offset, due, follows, track, tap, fingers, fired>>

GestureNext ==
    \/ MouseDown \/ OtherButtonDown \/ OtherButtonUp \/ LoseButton \/ MouseUp \/ GoOn \/ Click
    \/ TouchStart \/ OtherFinger \/ TouchEnd \/ Emulated \/ IgnoreEnds
    \/ \E to \in Offsets : MouseMove(to) \/ TouchMove(to)

GestureSpec == GestureInit /\ [][GestureNext]_gestureVars

-----------------------------------------------------------------------------
(* cloud-dashboard.js:13286-13302,13334-13343,13454-13469: a pointer that   *)
(* tracked does not tap, unless another button made the recognizers forget  *)
(* it, and none taps twice, neither by the click after the mouse nor by the *)
(* mouse events after a touch.                                              *)
OneTap == fired.taps <= 1 /\ (fired.track # "none" /\ ~fired.disturbed => fired.taps = 0)

(* cloud-dashboard.js:13165-13198: up is told at most once, and after down. *)
OneUp == fired.up <= fired.down /\ fired.down <= 1

(* cloud-dashboard.js:12874-12881,13157-13158,13248-13255,13293-13311: when *)
(* a track has ended, the button is known to be up, or another button made  *)
(* the recognizers begin anew, nothing more is followed.                    *)
NothingFollowed ==
    /\ fired.track = "end" => ~follows.track
    /\ pointer = "none" /\ fired.up > 0 => ~follows.downup
    /\ fired.disturbed => ~follows.downup /\ ~follows.track

(* cloud-dashboard.js:13285-13302,13330-13358: what is told of a track is a *)
(* start, moves, an end, and then nothing; but an end may come alone.       *)
TrackInOrder ==
    fired'.track # fired.track /\ fired'.track # "none" =>
        <<fired.track, fired'.track>> \in
            {<<"none", "start">>, <<"none", "end">>, <<"start", "track">>,
             <<"start", "end">>, <<"track", "end">>}
=============================================================================
