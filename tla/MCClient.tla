------------------------------ MODULE MCClient ------------------------------
(* The parts of the client that share nothing, each explored by itself:     *)
(* the dialogs as any page may use them, the account page with its dialogs, *)
(* the reporting of events and the promotion.                               *)
EXTENDS Dashboard, Tracking, Promo

VARIABLE part  \* the part this behaviour is about

vars == <<part, dashVars, trackVars, promoVars>>

Init ==
    /\ part \in {"dialogs", "page", "tracking", "promo"}
    /\ DialogInit /\ DashInit /\ TrackInit /\ PromoInit

InDialogs(A) ==
    part = "dialogs" /\ A /\ UNCHANGED <<part, pageVars, trackVars, promoVars>>
InPage(A) == part = "page" /\ A /\ UNCHANGED <<part, trackVars, promoVars>>
InTracking(A) == part = "tracking" /\ A /\ UNCHANGED <<part, dashVars, promoVars>>
InPromo(A) == part = "promo" /\ A /\ UNCHANGED <<part, dashVars, trackVars>>

Next ==
    \/ InDialogs(DialogNext) \/ InPage(DashNext)
    \/ InTracking(TrackNext) \/ InPromo(PromoNext)

(* Reactions are run, timers run out, and the user answers what is open.    *)
FairDialogs ==
    /\ WF_vars(InDialogs(\E c \in Calls : Start(c)))
    /\ WF_vars(InDialogs(Quiet /\ \E k \in Kinds : OpenAlert(k)))
    /\ \A k \in Kinds : WF_vars(InDialogs(Quiet /\ dialog[k].open /\ Press(k)))

(* Reactions are run, and requests are answered or fail.                    *)
FairPage ==
    /\ WF_vars(InPage(Reaction \/ DashDialogs))
    /\ WF_vars(InPage(Idle /\ \E p \in Cards : Answer(p)))

(* init is called; requests and the storage end, with success or not.       *)
FairTracking ==
    /\ WF_vars(InTracking(InitTracking \/ StatsLoaded \/ StatsStored))
    /\ WF_vars(InTracking(\E e \in Events : Report(e)))

(* An interval fires.                                                       *)
FairPromo == WF_vars(InPromo(Countdown))

SafeSpec == Init /\ [][Next]_vars

Spec == SafeSpec /\ FairDialogs /\ FairPage /\ FairTracking /\ FairPromo

(* cloud-dashboard.js:20146-20188,397-447,20259-20268: what is to be under  *)
(* way once is so: a card's submission, the report of an event, the         *)
(* countdown of the promotion that is shown.                                *)
OneAtOnce == OneSubmission /\ OneAtATime /\ OneCountdown

(* cloud-dashboard.js:19891-19899: EveryCallAnswered of Dialogs, for users  *)
(* who answer what is open; on the account page they need not.              *)
CallsAnswered == part = "dialogs" => EveryCallAnswered
=============================================================================
