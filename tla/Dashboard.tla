------------------------------ MODULE Dashboard ------------------------------
(***************************************************************************)
(* The account page: paying, reactivating a subscription, deleting the     *)
(* account, and reloading the account after a change.  It composes the     *)
(* dialogs (Dialogs), two buttons (LoadingButton), the payment dialog and  *)
(* the notification.  Requests are answered in any order and may fail      *)
(* before or after the server has done them; stripe.js loads at any time.  *)
(***************************************************************************)
EXTENDS Dialogs, LoadingButton

CONSTANTS
    MaxShows,    \* how often the payment dialog is shown
    MaxPosts,    \* how many changes are requested of the server
    MaxRefreshes \* how often the account is asked for

VARIABLES
    page,    \* what calls of dialogs are for, the buttons, the notification
    pay,     \* the payment dialog
    net,     \* requests for a change that are under way
    view,    \* the account shown, the requests for it, and what was told
    server   \* the account at the server: changes so far; deleted?

pageVars == <<page, pay, net, view, server>>
dashVars == <<dialogVars, pageVars>>

DashInit ==
    /\ page = [purpose |-> [c \in Calls |-> "none"],
               button |-> [b \in {"pay", "delete"} |-> IdleButton],
               note |-> FALSE, timers |-> 0, closed |-> FALSE]
    /\ pay = [open |-> FALSE, showing |-> FALSE, resolve |-> "nobody", shows |-> 0,
              submitting |-> FALSE, threw |-> FALSE,
              loaded |-> FALSE, setups |-> 0, cards |-> 0]
    /\ net = [posts |-> {}, posted |-> 0]
    /\ view = [refreshes |-> {}, asked |-> 0, latest |-> 0, account |-> 0,
               told |-> 0, toldThen |-> 0]
    /\ server = [changes |-> 0, deleted |-> FALSE]

-----------------------------------------------------------------------------
(* A call of alert or prompt; the page reacts to some answers.              *)
Ask(k, what) ==
    \E c \in NewCall :
        /\ LineUpDialog(c, k, FALSE)
        /\ page' = [page EXCEPT !.purpose[c] = what]

Asked(c, what) == page.purpose[c] = what /\ Is(c, "answered")

(* Events wait for the reactions to answers.                                *)
Idle == /\ Quiet /\ ~page.closed
        /\ \A c \in Calls : ~Asked(c, "delete") /\ ~Asked(c, "deleted")

(* A mutant: a request that is under way is thought to be enough.           *)
Refreshed_Coalesced(v) ==
    IF v.refreshes # {} THEN v
    ELSE [v EXCEPT !.asked = @ + 1,
                   !.refreshes = @ \cup {[no |-> v.asked + 1, told |-> v.told,
                                          served |-> FALSE, account |-> 0]}]

(* _refreshAccount sends a GET of /account/.  With the request goes what    *)
(* the user has been told of, which is history only.                        *)
Refreshed(v) ==
    [v EXCEPT !.asked = @ + 1,
              !.refreshes = @ \cup {[no |-> v.asked + 1, told |-> v.told,
                                     served |-> FALSE, account |-> 0]}]

(* request sends a POST for a change.                                       *)
Post(kind, stage) ==
    /\ net.posted < MaxPosts
    /\ net' = [posted |-> net.posted + 1,
               posts |-> net.posts \cup
                 {[no |-> net.posted + 1, kind |-> kind, stage |-> stage,
                   show |-> pay.shows, change |-> 0]}]

Gone(p) == net' = [net EXCEPT !.posts = @ \ {p}]
Becomes(p, q) == net' = [net EXCEPT !.posts = (@ \ {p}) \cup {q}]

EndPay(outcome) == [page EXCEPT !.button["pay"] = EndButton(@, outcome)]

-----------------------------------------------------------------------------
(* show: a card field is set up when stripe.js is loaded, unless there is   *)
(* one already.                                                             *)
SetUp(p) == IF p.cards > 0 THEN p
            ELSE IF p.loaded THEN [p EXCEPT !.cards = @ + 1]
                             ELSE [p EXCEPT !.setups = @ + 1]

(* PaymentDialog.show, by _buySubscription and _updatePaymentMethod.        *)
ShowPayment(who) ==
    /\ pay.shows < MaxShows
    /\ pay' = SetUp([pay EXCEPT !.open = TRUE, !.showing = TRUE,
                                !.resolve = who, !.shows = @ + 1])
    /\ UNCHANGED <<dialogVars, page, net, view, server>>

StripeLoaded ==
    /\ ~pay.loaded
    /\ pay' = [pay EXCEPT !.loaded = TRUE, !.cards = @ + pay.setups, !.setups = 0]
    /\ UNCHANGED <<dialogVars, page, net, view, server>>

(* _dismiss: possible at any time, also while a card is submitted.          *)
DismissPayment ==
    /\ pay.open
    /\ pay' = [pay EXCEPT !.open = FALSE, !.resolve = "nobody"]
    /\ UNCHANGED <<dialogVars, page, net, view, server>>

HidePayment ==
    /\ pay.showing /\ ~pay.open
    /\ pay' = [pay EXCEPT !.showing = FALSE]
    /\ UNCHANGED <<dialogVars, page, net, view, server>>

(* A mutant: the flag is tested when the token is there, not at once.       *)
MaySubmit_Always == TRUE

MaySubmit == ~pay.submitting

(* _submitCard, by a click, or by a key while the dialog still disappears.  *)
(* Until a card field is set up stripe is undefined: stripe.createToken     *)
(* throws after _submittingCard was set.                                    *)
SubmitCard ==
    /\ pay.showing /\ MaySubmit
    /\ page' = [page EXCEPT !.button["pay"] = StartButton(@)]
    /\ pay' = [pay EXCEPT !.submitting = TRUE, !.threw = @ \/ pay.cards = 0]
    /\ IF pay.cards > 0 THEN Post("card", "token") ELSE UNCHANGED net
    /\ UNCHANGED <<dialogVars, view, server>>

(* createToken answers with an error ...                                    *)
TokenRefused(p) ==
    /\ p.stage = "token"
    /\ Gone(p)
    /\ pay' = [pay EXCEPT !.submitting = FALSE]
    /\ page' = EndPay("fail")
    /\ UNCHANGED <<dialogVars, view, server>>

(* ... or a token, which is sent to the server.                             *)
TokenCreated(p) ==
    /\ p.stage = "token"
    /\ Becomes(p, [p EXCEPT !.stage = "sent"])
    /\ UNCHANGED <<dialogVars, page, pay, view, server>>

-----------------------------------------------------------------------------
(* The server makes the change.                                             *)
Served(p) ==
    /\ p.stage = "sent" /\ ~server.deleted
    /\ server' = [changes |-> server.changes + 1, deleted |-> p.kind = "delete"]
    /\ Becomes(p, [p EXCEPT !.stage = "done", !.change = server.changes + 1])
    /\ UNCHANGED <<dialogVars, page, pay, view>>

(* After a change the account is asked for and the user told.               *)
Reload(p) == Refreshed([view EXCEPT !.told = IF p.change > @ THEN p.change ELSE @])

(* subscribe is answered: the dialog closes, and whoever waits for it, if   *)
(* it was not dismissed, reloads the account and congratulates.             *)
SubscribeDone(p) ==
    /\ p.kind = "card" /\ p.stage = "done"
    /\ Gone(p)
    /\ pay' = [pay EXCEPT !.submitting = FALSE, !.resolve = "nobody", !.open = FALSE]
    /\ \/ /\ pay.resolve = "nobody"
          /\ page' = EndPay("success")
          /\ UNCHANGED <<dialogVars, view>>
       \/ /\ pay.resolve = "buy" /\ view.asked < MaxRefreshes
          /\ view' = Reload(p)
          /\ \E c \in NewCall :
                /\ LineUpDialog(c, "alert", FALSE)
                /\ page' = [EndPay("success") EXCEPT !.purpose[c] = "congratulations"]
       \/ /\ pay.resolve = "update" /\ view.asked < MaxRefreshes
          /\ view' = Reload(p)
          /\ page' = [EndPay("success") EXCEPT !.note = TRUE, !.timers = @ + 1]
          /\ UNCHANGED dialogVars
    /\ UNCHANGED server

(* A mutant: the error is shown and the flag forgotten.                     *)
SubscribeFailed_KeepsFlag(p) ==
    /\ p.kind = "card" /\ p.stage \in {"sent", "done"}
    /\ Gone(p)
    /\ page' = EndPay("fail")
    /\ UNCHANGED <<dialogVars, pay, view, server>>

(* ... or failed, or the answer was lost.                                   *)
SubscribeFailed(p) ==
    /\ p.kind = "card" /\ p.stage \in {"sent", "done"}
    /\ Gone(p)
    /\ pay' = [pay EXCEPT !.submitting = FALSE]
    /\ page' = EndPay("fail")
    /\ UNCHANGED <<dialogVars, view, server>>

(* _reactivateSubscription: nothing keeps the button from a second click.   *)
Reactivate ==
    /\ Post("reactivate", "sent")
    /\ UNCHANGED <<dialogVars, page, pay, view, server>>

Reactivated(p) ==
    /\ p.kind = "reactivate" /\ p.stage = "done"
    /\ view.asked < MaxRefreshes
    /\ Gone(p)
    /\ view' = Reload(p)
    /\ Ask("alert", "congratulations")
    /\ UNCHANGED <<pay, server>>

NotReactivated(p) ==
    /\ p.kind = "reactivate" /\ p.stage \in {"sent", "done"}
    /\ Gone(p)
    /\ Ask("alert", "warning")
    /\ UNCHANGED <<pay, view, server>>

-----------------------------------------------------------------------------
(* _deleteAccount asks first ...                                            *)
DeleteAccount ==
    /\ Ask("prompt", "delete")
    /\ UNCHANGED <<pay, net, view, server>>

(* ... and the answer is DELETE or no confirmation.                         *)
Confirmed(c) ==
    /\ Asked(c, "delete")
    /\ Post("delete", "sent")
    /\ page' = [page EXCEPT !.purpose[c] = "none", !.button["delete"] = StartButton(@)]
    /\ UNCHANGED <<dialogVars, pay, view, server>>

NotConfirmed(c) ==
    /\ Asked(c, "delete")
    /\ page' = [page EXCEPT !.purpose[c] = "none"]
    /\ UNCHANGED <<dialogVars, pay, net, view, server>>

DeleteDone(p) ==
    /\ p.kind = "delete" /\ p.stage = "done"
    /\ Gone(p)
    /\ \E c \in NewCall :
          /\ LineUpDialog(c, "alert", FALSE)
          /\ page' = [page EXCEPT !.purpose[c] = "deleted",
                                  !.button["delete"] = EndButton(@, "success")]
    /\ UNCHANGED <<pay, view, server>>

DeleteFailed(p) ==
    /\ p.kind = "delete" /\ p.stage \in {"sent", "done"}
    /\ Gone(p)
    /\ \E c \in NewCall :
          /\ LineUpDialog(c, "alert", FALSE)
          /\ page' = [page EXCEPT !.purpose[c] = "warning",
                                  !.button["delete"] = EndButton(@, "fail")]
    /\ UNCHANGED <<pay, view, server>>

(* "Sorry to see you go!" is answered.                                      *)
CloseWindow(c) ==
    /\ Asked(c, "deleted")
    /\ page' = [page EXCEPT !.purpose[c] = "none", !.closed = TRUE]
    /\ UNCHANGED <<dialogVars, pay, net, view, server>>

-----------------------------------------------------------------------------
(* The server answers a request for the account with what it is now ...     *)
RefreshServed(r) ==
    /\ ~r.served /\ ~server.deleted
    /\ view' = [view EXCEPT !.refreshes = (@ \ {r}) \cup
                  {[r EXCEPT !.served = TRUE, !.account = server.changes]}]
    /\ UNCHANGED <<dialogVars, page, pay, net, server>>

(* ... and whatever arrives is shown: nothing orders the answers.           *)
RefreshDone(r) ==
    /\ r.served
    /\ view' = [view EXCEPT !.refreshes = @ \ {r}, !.account = r.account,
                            !.latest = r.no, !.toldThen = r.told]
    /\ UNCHANGED <<dialogVars, page, pay, net, server>>

RefreshFailed(r) ==
    /\ view' = [view EXCEPT !.refreshes = @ \ {r}]
    /\ UNCHANGED <<dialogVars, page, pay, net, server>>

(* A button's second is over.                                               *)
ButtonTimer(b) ==
    /\ \E c \in TimedOut(page.button[b]) : page' = [page EXCEPT !.button[b] = c]
    /\ UNCHANGED <<dialogVars, pay, net, view, server>>

(* The notification is hidden by a click or by any timer of an earlier      *)
(* notification, whichever comes first.                                     *)
HideNote ==
    /\ page.note
    /\ page' = [page EXCEPT !.note = FALSE]
    /\ UNCHANGED <<dialogVars, pay, net, view, server>>

NoteTimer ==
    /\ page.timers > 0
    /\ page' = [page EXCEPT !.note = FALSE, !.timers = @ - 1]
    /\ UNCHANGED <<dialogVars, pay, net, view, server>>

-----------------------------------------------------------------------------
Answer(p) ==
    \/ TokenRefused(p) \/ TokenCreated(p) \/ Served(p)
    \/ SubscribeDone(p) \/ SubscribeFailed(p)
    \/ Reactivated(p) \/ NotReactivated(p)
    \/ DeleteDone(p) \/ DeleteFailed(p)

Cards == {p \in net.posts : p.kind = "card"}

Reaction == \E c \in Calls : Confirmed(c) \/ NotConfirmed(c) \/ CloseWindow(c)

DashEvent ==
    \/ \E who \in {"buy", "update"} : ShowPayment(who)
    \/ StripeLoaded \/ DismissPayment \/ HidePayment \/ SubmitCard
    \/ Reactivate \/ DeleteAccount
    \/ \E p \in net.posts : Answer(p)
    \/ \E r \in view.refreshes : RefreshServed(r) \/ RefreshDone(r) \/ RefreshFailed(r)
    \/ \E b \in {"pay", "delete"} : ButtonTimer(b)
    \/ HideNote \/ NoteTimer

(* The dialogs of this page, which never calls clearDialogs.                *)
DashDialogs ==
    /\ \/ \E c \in Calls : Start(c)
       \/ /\ Idle
          /\ \E k \in {"alert", "prompt"} : OpenAlert(k) \/ Hide(k) \/ Dismiss(k) \/ Press(k)
    /\ UNCHANGED pageVars

DashNext ==
    \/ Reaction
    \/ Idle /\ DashEvent
    \/ ~page.closed /\ DashDialogs

DashSpec == DashInit /\ DialogInit /\ [][DashNext]_dashVars

-----------------------------------------------------------------------------
(* cloud-dashboard.js:20146-20151,20164-20188: a card is submitted once at  *)
(* a time, though its dialog can be dismissed and shown again meanwhile,    *)
(* and _submittingCard is left set by one thing only, a submission before   *)
(* stripe.js is loaded; meanwhile the button says so (19709-19729): no      *)
(* timer of an earlier outcome ends that.                                   *)
OneSubmission ==
    /\ Cardinality(Cards) <= 1
    /\ pay.submitting => Cards # {} \/ pay.threw
    /\ Cards # {} => pay.submitting /\ page.button["pay"].shows = "loading"

(* cloud-dashboard.js:20528-20531,20572,20640: whichever answer came last,  *)
(* the account shown has every change the user had been told of when that   *)
(* answer was asked for, and all of them if it is the newest request's.  No *)
(* more than that: an older answer that comes last takes away what the      *)
(* newer had shown, a change the user was told of since.                    *)
ToldIsShown ==
    /\ view.account >= view.toldThen
    /\ view.latest = view.asked => view.account >= view.told

(* cloud-dashboard.js:20166-20187: a submission comes to its end, and a     *)
(* card can be submitted again, except one before stripe.js was loaded.     *)
SubmissionEnds == pay.submitting ~> (~pay.submitting \/ pay.threw \/ page.closed)
=============================================================================
