------------------------------- MODULE Dialogs -------------------------------
(***************************************************************************)
(* The dialogs of the dashboard's client.  Every kind of dialog is one     *)
(* element for the whole page (getDialog); calls of alert, prompt and      *)
(* generate are chained on lastDialogPromise (lineUpDialog), so that each  *)
(* is shown when the one before it is answered.                            *)
(*                                                                         *)
(* Reactions to promises run before the next event (a timer, a key, a      *)
(* click): Start is such a reaction, and events wait until none is Ready.  *)
(***************************************************************************)
EXTENDS Naturals, FiniteSets

CONSTANTS
    Calls,     \* calls of alert, confirm, choose, prompt and generate
    NoCall,    \* _resolve is null
    MaxClears  \* how often clearDialogs is called

ASSUME DialogsAssumption == NoCall \notin Calls /\ MaxClears \in Nat

Kinds == {"alert", "prompt", "generator"}

VARIABLES
    call,     \* a call: its state, kind, preventDismiss and place in a chain
    chain,    \* the chain lastDialogPromise ends: its number and length
    dialog,   \* the elements, by kind
    current   \* currentDialog: the kind of the last dialog shown, or "none"

dialogVars == <<call, chain, dialog, current>>

Unused == [state |-> "unused", kind |-> "alert", locked |-> FALSE,
           chain |-> 0, place |-> 0]

(* open and isShowing; whether the timer that hides it runs, and how many   *)
(* that open it; the call whose message it shows; the one _resolve answers. *)
Closed == [open |-> FALSE, showing |-> FALSE, hiding |-> FALSE, opening |-> 0,
           shows |-> NoCall, resolve |-> NoCall]

DialogInit ==
    /\ call = [c \in Calls |-> Unused]
    /\ chain = [no |-> 0, length |-> 0]
    /\ dialog = [k \in Kinds |-> Closed]
    /\ current = "none"

-----------------------------------------------------------------------------
Is(c, state) == call[c].state = state

(* A mutant: the call before need only be shown.                            *)
MayStart_Shown(c) ==
    \A b \in Calls :
        /\ ~Is(b, "unused")
        /\ call[b].chain = call[c].chain
        /\ call[b].place + 1 = call[c].place
        => Is(b, "answered") \/ Is(b, "shown")

(* The call whose promise c was chained to is answered, or there is none.   *)
MayStart(c) ==
    \A b \in Calls :
        /\ ~Is(b, "unused")
        /\ call[b].chain = call[c].chain
        /\ call[b].place + 1 = call[c].place
        => Is(b, "answered")

Ready(c) == Is(c, "waiting") /\ MayStart(c)

Quiet == \A c \in Calls : ~Ready(c)

(* lineUpDialog: the call goes to the end of the chain.                     *)
LineUpDialog(c, k, locked) ==
    /\ Is(c, "unused")
    /\ call' = [call EXCEPT ![c] =
                  [state |-> "waiting", kind |-> k, locked |-> locked,
                   chain |-> chain.no, place |-> chain.length + 1]]
    /\ chain' = [chain EXCEPT !.length = @ + 1]
    /\ UNCHANGED <<dialog, current>>

(* Dialog._openChanged runs when open changes: a dialog that opens is       *)
(* displayed at once, one that closes only disappears after 400 ms.         *)
Open(d) ==
    IF d.open THEN d ELSE [d EXCEPT !.open = TRUE, !.showing = TRUE, !.hiding = FALSE]
Close(d) ==
    IF d.open THEN [d EXCEPT !.open = FALSE, !.hiding = TRUE] ELSE d

(* The dialog gets the call's message and _resolve.  An alert opens 10 ms   *)
(* later, the others at once.                                               *)
Shown(d, c, k) ==
    LET e == [d EXCEPT !.shows = c, !.resolve = c] IN
    IF k = "alert" THEN [e EXCEPT !.opening = @ + 1] ELSE Open(e)

Start(c) ==
    LET k == call[c].kind IN
    /\ Ready(c)
    /\ call' = [call EXCEPT ![c].state = "shown"]
    /\ dialog' = [dialog EXCEPT ![k] = Shown(@, c, k)]
    /\ current' = k
    /\ UNCHANGED chain

-----------------------------------------------------------------------------
(* The timers: opening an alert; display: none.                             *)
OpenAlert(k) ==
    LET d == dialog[k] IN
    /\ d.opening > 0
    /\ dialog' = [dialog EXCEPT ![k] = [Open(d) EXCEPT !.opening = d.opening - 1]]
    /\ UNCHANGED <<call, chain, current>>

Hide(k) ==
    /\ dialog[k].hiding
    /\ dialog' = [dialog EXCEPT ![k].showing = FALSE, ![k].hiding = FALSE]
    /\ UNCHANGED <<call, chain, current>>

(* A mutant: the promise is answered and the dialog left open.              *)
Resolve_StaysOpen(k) ==
    LET c == dialog[k].resolve IN
    /\ call' = IF c = NoCall THEN call ELSE [call EXCEPT ![c].state = "answered"]
    /\ dialog' = [dialog EXCEPT ![k].resolve = IF k = "generator" THEN @ ELSE NoCall]
    /\ UNCHANGED <<chain, current>>

(* _resolve answers the call it belongs to, once; a generator keeps it.     *)
Resolve(k) ==
    LET c == dialog[k].resolve
        kept == IF k = "generator" THEN c ELSE NoCall
    IN
    /\ call' = IF c = NoCall THEN call ELSE [call EXCEPT ![c].state = "answered"]
    /\ dialog' = [dialog EXCEPT ![k] = [Close(@) EXCEPT !.resolve = kept]]
    /\ UNCHANGED <<chain, current>>

(* A mutant: a dismissed dialog is closed and its promise forgotten.        *)
Dismiss_Forgets(k) ==
    /\ dialog[k].open
    /\ dialog[k].shows # NoCall => ~call[dialog[k].shows].locked
    /\ dialog' = [dialog EXCEPT ![k] = [Close(@) EXCEPT !.resolve = NoCall]]
    /\ UNCHANGED <<call, chain, current>>

(* A click beside an open dialog or the back button, unless preventDismiss. *)
Dismiss(k) ==
    /\ dialog[k].open
    /\ dialog[k].shows # NoCall => ~call[dialog[k].shows].locked
    /\ Resolve(k)

(* A button of the dialog: an option, Confirm with a valid value, Cancel.   *)
(* A dialog that is not open gets no clicks, but a button that has the      *)
(* focus is pressed by a key as long as it is displayed.  (Confirm with a   *)
(* value that is refused leaves all this as it is: every validationFn in    *)
(* the client answers at once.)                                             *)
Press(k) ==
    /\ dialog[k].showing
    /\ Resolve(k)

(* clearDialogs: the last dialog shown is closed, its call unanswered; not  *)
(* the generator, whose element has no property open.                       *)
ClearDialogs ==
    /\ chain.no < MaxClears
    /\ dialog' = IF current \in {"none", "generator"} THEN dialog
                 ELSE [dialog EXCEPT ![current] = Close(@)]
    /\ chain' = [no |-> chain.no + 1, length |-> 0]
    /\ UNCHANGED <<call, current>>

(* A call not made yet; it does not matter which.                           *)
NewCall ==
    LET unused == {c \in Calls : Is(c, "unused")} IN
    IF unused = {} THEN {} ELSE {CHOOSE c \in unused : TRUE}

DialogEvent ==
    \/ \E k \in Kinds : OpenAlert(k) \/ Hide(k) \/ Dismiss(k) \/ Press(k)
    \/ ClearDialogs

(* Any code of the page may ask for a dialog at any time.                   *)
DialogNext ==
    \/ \E c \in Calls : Start(c)
    \/ Quiet /\ DialogEvent
    \/ \E c \in NewCall, k \in Kinds, locked \in BOOLEAN :
          (k = "generator" => ~locked) /\ LineUpDialog(c, k, locked)

DialogSpec == DialogInit /\ [][DialogNext]_dialogVars

-----------------------------------------------------------------------------
(* cloud-dashboard.js:19869-19872: the state of the dialogs has its type,   *)
(* and what a dialog shows or answers is a call made for its kind.          *)
DialogTypeOK ==
    /\ call \in [Calls -> [state : {"unused", "waiting", "shown", "answered"},
                           kind : Kinds, locked : BOOLEAN,
                           chain : Nat, place : Nat]]
    /\ chain \in [no : Nat, length : Nat]
    /\ dialog \in [Kinds -> [open : BOOLEAN, showing : BOOLEAN, hiding : BOOLEAN,
                             opening : Nat, shows : Calls \cup {NoCall},
                             resolve : Calls \cup {NoCall}]]
    /\ current \in Kinds \cup {"none"}

(* cloud-dashboard.js:19891-19899: calls that are lined up are shown one    *)
(* after another: a call is not started before all those before it are      *)
(* answered.                                                                *)
InTurn ==
    \A b, c \in Calls :
        /\ call[b].chain = call[c].chain
        /\ call[b].place < call[c].place
        /\ ~Is(b, "unused")
        /\ Is(c, "shown") \/ Is(c, "answered")
        => Is(b, "answered")

(* cloud-dashboard.js:19189-19194: an open dialog is displayed and stays    *)
(* displayed: no timer of an earlier closing is left to hide it.            *)
OpenIsDisplayed ==
    \A k \in Kinds : dialog[k].open => dialog[k].showing /\ ~dialog[k].hiding

(* cloud-dashboard.js:19890,19516: though all calls of a kind share one     *)
(* element and its _resolve, a call that is shown is the one an answer      *)
(* goes to, as long as the chain was never cleared under it; and a dialog   *)
(* that is open can be answered (OpenIsDisplayed).                          *)
AnswerReachesCaller ==
    /\ chain.no = 0 =>
         \A c \in Calls : Is(c, "shown") =>
             /\ dialog[call[c].kind].shows = c
             /\ dialog[call[c].kind].resolve = c
    /\ OpenIsDisplayed

(* cloud-dashboard.js:19534-19541,19774-19787: a dialog is not left open    *)
(* with nobody waiting for its answer; the one exception is an alert whose  *)
(* button was pressed by a key in the 10 ms before its timer opens it.      *)
Leftover(k) ==
    dialog[k].open /\ dialog[k].shows # NoCall /\ Is(dialog[k].shows, "answered")

AnsweredIsClosed ==
    [][\A k \in Kinds : Leftover(k)' => Leftover(k) \/ dialog[k].opening > 0]_dialogVars

(* cloud-dashboard.js:19891: every call is answered in the end, if the user *)
(* answers the dialogs that are open and nobody clears them.                *)
EveryCallAnswered ==
    \A c \in Calls : Is(c, "waiting") ~> (Is(c, "answered") \/ chain.no > 0)
=============================================================================
