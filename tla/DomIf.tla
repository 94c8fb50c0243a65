-------------------------------- MODULE DomIf --------------------------------
(***************************************************************************)
(* A conditional part of a template: it is stamped when its condition      *)
(* first holds, later hidden and shown, or with restamp removed and        *)
(* stamped anew.  Renders are debounced.  A hidden instance is not told    *)
(* of changes of the host; it is brought up to date before it is shown.    *)
(* The part may itself be in a part that is hidden or shown, and may be    *)
(* taken out of the page and put back.                                     *)
(***************************************************************************)
EXTENDS Naturals

CONSTANTS
    Texts,   \* the values of the host's property that is shown
    NoInst,  \* no instance is stamped
    Empty    \* the text of a hidden node

VARIABLES
    if,        \* the condition
    restamp,
    host,      \* the property of the host
    instance,  \* its property, and its text node: what it shows, what it keeps
    invalid,   \* __invalidProps: the host changed while the instance was hidden
    debounced, \* whether a render is
    outer,     \* __hideTemplateChildren__, set by the instance it is part of
    place      \* where the part is: in the "page", in a "fragment" or "nowhere"

domIfVars == <<if, restamp, host, instance, invalid, debounced, outer, place>>

DomIfInit ==
    /\ if \in BOOLEAN /\ restamp \in BOOLEAN
    /\ host \in Texts
    /\ instance = NoInst /\ invalid = FALSE
    /\ debounced = TRUE
    /\ outer = FALSE /\ place = "page"

-----------------------------------------------------------------------------
(* A property of the instance is set: a hidden text node keeps the value    *)
(* and goes on to show nothing.                                             *)
SetText(inst, value) ==
    IF inst.hide THEN [inst EXCEPT !.data = value, !.kept = value]
    ELSE [inst EXCEPT !.data = value, !.text = value]

(* _showHideChildren of the instance.                                       *)
ShowHide(inst, hide) ==
    IF inst = NoInst \/ inst.hide = hide THEN inst
    ELSE IF hide THEN [inst EXCEPT !.hide = TRUE, !.kept = inst.text, !.text = Empty]
    ELSE [inst EXCEPT !.hide = FALSE, !.text = inst.kept]

(* Stamped: hidden at first if the part is in a hidden one, then given the  *)
(* properties of the host.                                                  *)
Stamped ==
    SetText(ShowHide([data |-> Empty, text |-> Empty, kept |-> Empty, hide |-> FALSE], outer), host)

-----------------------------------------------------------------------------
(* if and restamp are set: a render is debounced.                           *)
SetIf ==
    /\ if' = ~if
    /\ debounced' = TRUE
    /\ UNCHANGED <<restamp, host, instance, invalid, outer, place>>

SetRestamp ==
    /\ restamp' = ~restamp
    /\ debounced' = TRUE
    /\ UNCHANGED <<if, host, instance, invalid, outer, place>>

(* forwardHostProp: to the instance, or kept for when it is shown.          *)
HostChanges(value) ==
    /\ value # host
    /\ host' = value
    /\ instance' = IF if /\ instance # NoInst THEN SetText(instance, value) ELSE instance
    /\ invalid' = (invalid \/ (~if /\ instance # NoInst))
    /\ UNCHANGED <<if, restamp, debounced, outer, place>>

(* The instance this part is in is hidden or shown.                         *)
OuterShowHide ==
    /\ outer' = ~outer
    /\ instance' = ShowHide(instance, outer' \/ ~if)
    /\ UNCHANGED <<if, restamp, host, invalid, debounced, place>>

(* disconnectedCallback: the instance is torn down.                         *)
Detach ==
    /\ place = "page"
    /\ place' \in {"fragment", "nowhere"}
    /\ instance' = NoInst /\ invalid' = FALSE
    /\ UNCHANGED <<if, restamp, host, debounced, outer>>

Attach ==
    /\ place # "page"
    /\ place' = "page"
    /\ debounced' = (debounced \/ if)
    /\ UNCHANGED <<if, restamp, host, instance, invalid, outer>>

(* __ensureInstance, with a parent to put it in: a new one or the old one   *)
(* brought up to date.                                                      *)
Ensured ==
    IF instance # NoInst THEN IF invalid THEN SetText(instance, host) ELSE instance
    ELSE IF place # "nowhere" THEN Stamped ELSE NoInst

(* The debouncer runs __render.                                             *)
Render ==
    /\ debounced
    /\ debounced' = FALSE
    /\ instance' =
         IF if THEN ShowHide(Ensured, outer)
         ELSE IF restamp THEN NoInst
         ELSE ShowHide(instance, TRUE)
    /\ invalid' = (invalid /\ ~if /\ ~restamp)
    /\ UNCHANGED <<if, restamp, host, outer, place>>

DomIfNext ==
    \/ SetIf \/ SetRestamp \/ OuterShowHide
    \/ \E value \in Texts : HostChanges(value)
    \/ Detach \/ Attach \/ Render

DomIfSpec == DomIfInit /\ [][DomIfNext]_domIfVars

-----------------------------------------------------------------------------
Instances ==
    [data : Texts, text : Texts \cup {Empty}, kept : Texts \cup {Empty}, hide : BOOLEAN]

(* cloud-dashboard.js:17711-17718,17744-17750: the state has its type, and  *)
(* what is nowhere has no instance.                                         *)
DomIfTypeOK ==
    /\ if \in BOOLEAN /\ restamp \in BOOLEAN /\ outer \in BOOLEAN
    /\ host \in Texts
    /\ instance \in Instances \cup {NoInst}
    /\ invalid \in BOOLEAN /\ debounced \in BOOLEAN
    /\ place \in {"page", "fragment", "nowhere"}
    /\ place = "nowhere" => instance = NoInst

(* cloud-dashboard.js:17772-17792,17822-17834,17858-17866: once it is       *)
(* rendered the part is seen exactly when its condition holds and what it   *)
(* is in is seen, and then it shows the host's value, also if that changed  *)
(* while one of them was hidden or the part was out of the page.            *)
ShowsHost ==
    ~debounced /\ place = "page" =>
        IF if /\ ~outer THEN instance # NoInst /\ instance.text = host
        ELSE instance # NoInst => instance.hide /\ instance.text = Empty

(* cloud-dashboard.js:17779-17781: with restamp nothing stays stamped while *)
(* the condition does not hold.                                             *)
RestampRemoves == ~debounced /\ restamp /\ ~if => instance = NoInst
=============================================================================
