--------------------------- MODULE FlattenedNodes ---------------------------
(***************************************************************************)
(* An observer of the nodes an element is seen to contain: its children,   *)
(* with a slot standing for the nodes assigned to it.  Changes of the      *)
(* children are delivered as records, changes of a slot as events if the   *)
(* slot is listened to; either way what is there is compared with what was *)
(* there and the splices are reported.                                     *)
(***************************************************************************)
EXTENDS ArraySplice

CONSTANTS
    Nodes,     \* children that are no slots, and assigned nodes
    Slot,      \* a slot among the children
    MaxNodes   \* bound: how many children, and how many assigned nodes

VARIABLES
    children, assigned,  \* what the element contains, what the slot is assigned
    records,    \* whether changes of the children are to be delivered
    event,      \* whether a slotchange is to be
    listened,   \* whether the slot is listened to
    effective,  \* _effectiveNodes
    scheduled,  \* _scheduled
    task,       \* whether a microtask is to flush
    connected,
    known,      \* the nodes by what the callback was told
    missed      \* whether something came while it was disconnected

flatVars == <<children, assigned, records, event, listened, effective,
              scheduled, task, connected, known, missed>>

Lists == UNION {{s \in [1 .. n -> Nodes \cup {Slot}] : \A i, j \in 1 .. n : s[i] = s[j] => i = j} :
                    n \in 0 .. MaxNodes}

Assignments == {s \in Lists : \A i \in DOMAIN s : s[i] # Slot}

HasSlot == Slot \in Range(children)

(* The constructor connects, listens to the slot and schedules a flush.     *)
FlatInit ==
    /\ children \in {<<>>, <<Slot>>} /\ assigned = <<>>
    /\ records = FALSE /\ event = FALSE
    /\ listened = HasSlot
    /\ effective = <<>> /\ known = {}
    /\ scheduled = TRUE /\ task = TRUE
    /\ connected = TRUE /\ missed = FALSE

-----------------------------------------------------------------------------
FlattenedNodes ==
    FlattenSeq([i \in DOMAIN children |-> IF children[i] = Slot THEN assigned ELSE <<children[i]>>])

(* The children change; a node is a child or assigned, not both.            *)
MoveChildren(list) ==
    /\ list # children
    /\ Range(list) \cap Range(assigned) = {}
    /\ children' = list
    /\ records' = connected
    /\ missed' = (missed \/ ~connected)
    /\ UNCHANGED <<assigned, event, listened, effective, scheduled, task, connected, known>>

(* Other nodes are assigned to the slot; it is told in time only if it is   *)
(* among the children.                                                      *)
Assign(list) ==
    /\ list # assigned
    /\ Range(list) \cap Range(children) = {}
    /\ assigned' = list
    /\ event' = (event \/ HasSlot)
    /\ missed' = (missed \/ ~connected)
    /\ UNCHANGED <<children, records, listened, effective, scheduled, task, connected, known>>

(* What splices remove and add, all together.                               *)
Removed(splices) == UNION {Range(s.removed) : s \in Range(splices)}

Added(splices, current) ==
    UNION {{current[k + 1] : k \in s.index .. s.index + s.addedCount - 1} : s \in Range(splices)}

(* What the callback is told: all that is removed, then all that is added,  *)
(* so that a node that moved is told as both.                               *)
Report ==
    LET splices == CalculateSplices(FlattenedNodes, effective)
    IN  known' = (known \ Removed(splices)) \cup Added(splices, FlattenedNodes)

(* flush: the records there are are processed, so that a new slot is        *)
(* listened to.                                                             *)
FlushNodes ==
    /\ records' = FALSE
    /\ listened' = IF records THEN HasSlot ELSE listened
    /\ scheduled' = FALSE /\ missed' = FALSE
    /\ Report
    /\ effective' = FlattenedNodes
    /\ UNCHANGED <<children, assigned, event, connected>>

(* The records are delivered: _processMutations.                            *)
DeliverRecords == records /\ FlushNodes /\ UNCHANGED task

(* A slotchange, after the records: a flush is scheduled unless one is.     *)
SlotChange ==
    /\ event /\ ~records
    /\ event' = FALSE
    /\ scheduled' = (scheduled \/ listened)
    /\ task' = (task \/ (listened /\ ~scheduled))
    /\ missed' = (missed \/ ~connected)
    /\ UNCHANGED <<children, assigned, records, listened, effective, connected, known>>

(* The microtask comes; without a connection nothing is done, and the flush *)
(* stays scheduled for good.                                                *)
RunTask ==
    /\ task /\ task' = FALSE
    /\ \/ connected /\ FlushNodes
       \/ /\ ~connected /\ missed' = TRUE
          /\ UNCHANGED <<children, assigned, records, event, listened, effective,
                         scheduled, connected, known>>

(* What was not delivered of the children is not going to be.               *)
Disconnect ==
    /\ connected
    /\ connected' = FALSE
    /\ listened' = FALSE /\ records' = FALSE
    /\ missed' = (missed \/ records)
    /\ UNCHANGED <<children, assigned, event, effective, scheduled, task, known>>

(* connect looks for slots and changes to come, not for past ones.          *)
Connect ==
    /\ ~connected
    /\ connected' = TRUE
    /\ listened' = HasSlot
    /\ UNCHANGED <<children, assigned, records, event, effective, scheduled, task, known, missed>>

FlatNext ==
    \/ \E list \in Lists : MoveChildren(list)
    \/ \E list \in Assignments : Assign(list)
    \/ DeliverRecords \/ SlotChange \/ RunTask \/ Disconnect \/ Connect

FlatSpec == FlatInit /\ [][FlatNext]_flatVars

-----------------------------------------------------------------------------
(* cloud-dashboard.js:14144-14161,14211-14214: the state has its type.      *)
FlatTypeOK ==
    /\ children \in Lists /\ assigned \in Assignments
    /\ effective \in Seq(Nodes) /\ known \subseteq Nodes
    /\ {records, event, listened, scheduled, task, connected, missed} \subseteq BOOLEAN

(* cloud-dashboard.js:14263-14284: what the callback was told, one splice   *)
(* after another, adds up to the nodes it was told of last.                 *)
ToldAddsUp == known = Range(effective)

(* cloud-dashboard.js:14168-14187,14211-14245,14288-14295: when nothing is  *)
(* to be delivered or flushed, the nodes it was told of are those there     *)
(* are, if nothing came while it was disconnected.                          *)
ChangesReported ==
    connected /\ ~records /\ ~event /\ ~task /\ ~missed => effective = FlattenedNodes
=============================================================================
