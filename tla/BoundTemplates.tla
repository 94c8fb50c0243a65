--------------------------- MODULE BoundTemplates ---------------------------
(***************************************************************************)
(* The copies of templates that are bound to an element.  When a property  *)
(* changes the effects of all of them run: they are a list, from the       *)
(* element's __templateInfo on.  The first is the element's own template,  *)
(* if it has one, which is never removed.                                  *)
(***************************************************************************)
EXTENDS Naturals, Sequences, SequencesExt

CONSTANTS
    Doms,  \* what _stampTemplate returns
    None   \* null

VARIABLES
    first,     \* __templateInfo
    last,      \* __templateInfoLast
    next,      \* nextTemplateInfo of each
    previous,  \* previousTemplateInfo of each
    own,       \* the copy of the element's own template, or None
    bound      \* the copies in the document, in the order of their stamping

boundVars == <<first, last, next, previous, own, bound>>

BoundInit ==
    /\ own \in Doms \cup {None}
    /\ first = own /\ last = None
    /\ next = [d \in Doms |-> None] /\ previous = [d \in Doms |-> None]
    /\ bound = IF own = None THEN <<>> ELSE <<own>>

(* _bindTemplate: at the end of the list, or as its beginning.  Each stamp  *)
(* makes a new copy.                                                        *)
StampTemplate(d) ==
    LET end == IF last = None THEN first ELSE last IN
    /\ d # own /\ d \notin ToSet(bound) /\ d # first
    /\ IF first = None
       THEN first' = d /\ UNCHANGED <<last, next, previous>>
       ELSE /\ last' = d
            /\ next' = [next EXCEPT ![end] = d]
            /\ previous' = [previous EXCEPT ![d] = end]
            /\ UNCHANGED first
    /\ bound' = Append(bound, d)
    /\ UNCHANGED own

Linked(link, d, to) == IF d = None THEN link ELSE [link EXCEPT ![d] = to]

(* _removeBoundDom.  The beginning of the list stays where it was, even     *)
(* when it is the one removed.                                              *)
RemoveBoundDom(d) ==
    /\ d # own /\ d \in ToSet(bound)
    /\ next' = [Linked(next, previous[d], next[d]) EXCEPT ![d] = None]
    /\ previous' = [Linked(previous, next[d], previous[d]) EXCEPT ![d] = None]
    /\ last' = IF last = d THEN previous[d] ELSE last
    /\ \E i \in DOMAIN bound : bound[i] = d /\ bound' = RemoveAt(bound, i)
    /\ UNCHANGED <<first, own>>

BoundNext == \E d \in Doms : StampTemplate(d) \/ RemoveBoundDom(d)

BoundSpec == BoundInit /\ [][BoundNext]_boundVars

-----------------------------------------------------------------------------
(* Whose effects run, one after another: _propagatePropertyChanges walks    *)
(* the list.                                                                *)
Walks(copies) ==
    IF copies = <<>> THEN first = None
    ELSE /\ first = copies[1]
         /\ \A i \in DOMAIN copies :
               next[copies[i]] = IF i = Len(copies) THEN None ELSE copies[i + 1]

(* cloud-dashboard.js:10569-10574,11160-11172,11253-11264: with a template  *)
(* of its own, an element updates exactly the copies that are in the        *)
(* document, in the order of their stamping.  (Without one, it loses all    *)
(* of them when the first is removed.)                                      *)
AllReached == own # None => Walks(bound)
=============================================================================
