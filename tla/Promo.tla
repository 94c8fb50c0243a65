-------------------------------- MODULE Promo --------------------------------
(* A promotion of the account and its countdown.  pl-promo looks once a     *)
(* second whether it is over; the dashboard then computes anew whether      *)
(* there is a promotion, as it does when another account comes in.          *)
EXTENDS Naturals

CONSTANT MaxNow  \* the clock's bound

ASSUME PromoAssumption == MaxNow \in Nat

VARIABLES
    now,        \* the time
    promoted,   \* account.promo, and whether the subscription is active
    promo,      \* the promotion shown: Dashboard.promo and Promo.promo
    countdowns  \* the intervals that run, those no handle is kept of included

promoVars == <<now, promoted, promo, countdowns>>

(* A promotion ends at a time, or never (0); or there is none.              *)
Times == 0..MaxNow
NoPromo == [is |-> FALSE, end |-> 0]
Promos == {NoPromo} \cup [is : {TRUE}, end : Times]

PromoInit ==
    /\ now = 0
    /\ promoted = [promo |-> NoPromo, active |-> FALSE]
    /\ promo = NoPromo
    /\ countdowns = 0

(* isFuture is strict: at its end a promotion is over.                      *)
IsFuture(p) == p.end > now

(* SubInfoMixin._getPromo                                                   *)
GetPromo(a) ==
    IF ~a.active /\ a.promo.is /\ (a.promo.end = 0 \/ IsFuture(a.promo))
    THEN a.promo ELSE NoPromo

(* _setupCountdown runs when promo changes: the interval is cleared, and    *)
(* set again if the promotion ends.                                         *)
SetupCountdown(p) == countdowns' = IF p.end > 0 THEN 1 ELSE 0

Computed(a) == /\ promo' = GetPromo(a)
               /\ SetupCountdown(GetPromo(a))

(* An account comes in.                                                     *)
AccountChanged(a) ==
    /\ promoted' = a
    /\ Computed(a)
    /\ UNCHANGED now

(* A mutant: the event nobody listens to, as in pl-promo-dialog.            *)
Countdown_Unheard ==
    /\ countdowns > 0 /\ ~IsFuture(promo)
    /\ UNCHANGED promoVars

(* A second is over: if the promotion is too, "promo-expired" is sent, and  *)
(* the dashboard's _promoExpired has promo computed again.                  *)
Countdown ==
    /\ countdowns > 0 /\ ~IsFuture(promo)
    /\ Computed(promoted)
    /\ UNCHANGED <<now, promoted>>

Clock ==
    /\ now < MaxNow
    /\ now' = now + 1
    /\ UNCHANGED <<promoted, promo, countdowns>>

PromoNext ==
    \/ \E a \in [promo : Promos, active : BOOLEAN] : AccountChanged(a)
    \/ Countdown \/ Clock

PromoSpec == PromoInit /\ [][PromoNext]_promoVars

-----------------------------------------------------------------------------
(* cloud-dashboard.js:20259-20268: a promotion that ends is counted down by *)
(* one interval, and there is none without it.                              *)
OneCountdown == countdowns = IF promo.is /\ promo.end > 0 THEN 1 ELSE 0

(* cloud-dashboard.js:20264-20266,20629-20631: a promotion that is over     *)
(* does not stay on the page.                                               *)
ExpiredGoes == (promo.is /\ promo.end > 0 /\ promo.end <= now) ~> ~(promo.is /\ promo.end > 0 /\ promo.end <= now)
=============================================================================
