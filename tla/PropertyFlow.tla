---------------------------- MODULE PropertyFlow ----------------------------
(***************************************************************************)
(* How a value flows between an element and the elements of its template   *)
(* that are bound to it.  Each element has a property v, a property        *)
(* computed from v, and an observer of v that may set v again.  Nothing    *)
(* waits: a change is carried through the other elements by nested calls,  *)
(* which may come back to an element that is in the middle of its own.     *)
(***************************************************************************)
EXTENDS Integers, Sequences

CONSTANTS
    Host,
    Children,   \* the elements of its template, in order
    TwoWay,     \* those bound in both directions, {{v}}; the others are [[v]]
    Late,       \* those whose definition is loaded after the host is there
    Values,
    Undefined,
    MaxSets     \* bound: how often v is set by the page or by an observer

Bound == {Children[i] : i \in DOMAIN Children}

Elements == Bound \cup {Host}

VARIABLES
    life,      \* "plain", "built", "enabled", "clients" (they are readied), "ready"
    data,      \* __data.v; of a plain element, its own property v
    computed,  \* the value of v from which the computed property was computed
    pending,   \* whether v is in __dataPending
    notify,    \* __dataToNotify.v: "none", "yes", or "no" (set by the host)
    clients,   \* the host's __dataPendingClients
    told,      \* the value the observer was called with last
    calls,     \* the stack of calls
    sets       \* how often v was set so far

(* The lists of the elements of a set in the order of the template, which   *)
(* is one list as long as no element is twice in it.                        *)
Precedes(b, c) ==
    \E i, j \in DOMAIN Children : i < j /\ Children[i] = b /\ Children[j] = c

InOrder(S) ==
    {s \in UNION {[1 .. n -> S] : n \in 0 .. Len(Children)} :
        /\ \A c \in S : \E k \in DOMAIN s : s[k] = c
        /\ \A k, l \in DOMAIN s : k < l => Precedes(s[k], s[l])}

flowVars == <<life, data, computed, pending, notify, clients, told, calls, sets>>

Enable(e) == [what |-> "ready", el |-> e, at |-> "flush", todo |-> <<>>, notify |-> "none"]

Flush(e) == [what |-> "flush", el |-> e, at |-> "begin", todo |-> <<>>, notify |-> "none"]

(* A template is stamped: its elements are built and v gets its default, if *)
(* its properties give one, then the host is made ready.                    *)
FlowInit ==
    /\ life = [e \in Elements |-> IF e \in Late THEN "plain" ELSE IF e = Host THEN "enabled" ELSE "built"]
    /\ data \in [Elements -> Values \cup {Undefined}]
    /\ \A e \in Late : data[e] = Undefined
    /\ pending = [e \in Elements |-> data[e] # Undefined]
    /\ notify = [e \in Elements |-> IF pending[e] /\ e \in TwoWay THEN "yes" ELSE "none"]
    /\ computed = [e \in Elements |-> Undefined]
    /\ told = [e \in Elements |-> Undefined]
    /\ clients \in InOrder(Bound \ Late)
    /\ calls = <<Enable(Host)>>
    /\ sets = 0

-----------------------------------------------------------------------------
Top == calls[Len(calls)]

Running(what, at) == calls # <<>> /\ Top.what = what /\ Top.at = at

(* The stack once its top went on to another place; with a call above it.   *)
At(at) == [calls EXCEPT ![Len(calls)].at = at]

Return == SubSeq(calls, 1, Len(calls) - 1)

(* A mutant: a call in another's changes is left to that one.               *)
FlushIf_NotNested(stack, condition, e) ==
    IF condition /\ \A i \in DOMAIN stack : stack[i].el # e THEN Append(stack, Flush(e)) ELSE stack

(* _flushProperties of an element does nothing if nothing is pending.       *)
FlushIf(stack, condition, e) == IF condition THEN Append(stack, Flush(e)) ELSE stack

(* _setPendingProperty by the page, an observer or a notification: an       *)
(* element that notifies will tell its host.                                *)
SetPending(e, value) ==
    IF data[e] = value THEN UNCHANGED <<data, pending, notify>>
    ELSE /\ data' = [data EXCEPT ![e] = value]
         /\ pending' = [pending EXCEPT ![e] = TRUE]
         /\ notify' = IF e \in TwoWay THEN [notify EXCEPT ![e] = "yes"] ELSE notify

(* The same, then _invalidateProperties: flushed at once if it is ready.    *)
SetProperty(stack, e, value) ==
    /\ sets < MaxSets
    /\ sets' = sets + 1
    /\ SetPending(e, value)
    /\ calls' = FlushIf(stack, data[e] # value /\ life[e] = "ready", e)

(* The page sets v when nothing runs.                                       *)
PageSets(e, value) ==
    /\ calls = <<>> /\ life[e] # "plain"
    /\ SetProperty(calls, e, value)
    /\ UNCHANGED <<life, computed, clients, told>>

(* The definition of an element is loaded: it is built, gets its default,   *)
(* then the value it had as a plain element, and is enabled.                *)
Upgrade(e, default) ==
    /\ calls = <<>> /\ life[e] = "plain"
    /\ life' = [life EXCEPT ![e] = "enabled"]
    /\ data' = [data EXCEPT ![e] = IF @ = Undefined THEN default ELSE @]
    /\ pending' = [pending EXCEPT ![e] = data'[e] # Undefined]
    /\ notify' = IF default # Undefined /\ e \in TwoWay
                 THEN [notify EXCEPT ![e] = "yes"] ELSE notify
    /\ calls' = <<Enable(e)>>
    /\ UNCHANGED <<computed, clients, told, sets>>

-----------------------------------------------------------------------------
(* ready: flush, ready the elements of the template unless that flush did,  *)
(* and flush what they notified meanwhile.                                  *)
Ready ==
    \/ /\ Running("ready", "flush")
       /\ calls' = FlushIf(At("clients"), pending[Top.el], Top.el)
       /\ UNCHANGED <<life, clients>>
    \/ /\ Running("ready", "clients") /\ life[Top.el] = "enabled"
       /\ life' = [life EXCEPT ![Top.el] = "clients"]
       /\ clients' = IF Top.el = Host THEN <<>> ELSE clients
       /\ calls' = [At("loop") EXCEPT ![Len(calls)].todo = IF Top.el = Host THEN clients ELSE <<>>]
    \/ /\ Running("ready", "clients") /\ life[Top.el] # "enabled"
       /\ calls' = At("again")
       /\ UNCHANGED <<life, clients>>
    \/ /\ Running("ready", "again")
       /\ calls' = FlushIf(At("end"), pending[Top.el], Top.el)
       /\ UNCHANGED <<life, clients>>

(* The elements a value goes to: those it is new for.                       *)
Propagated(e) == IF e = Host THEN {c \in Bound : data[c] # data[Host]} ELSE {}

Compute(e) == computed' = [computed EXCEPT ![e] = data[e]]

(* _flushProperties and the start of _propertiesChanged: the value that     *)
(* depends on v is computed, what is to be notified is taken, the elements  *)
(* of the template get the value and wait in the list of clients.           *)
Begin ==
    /\ Running("flush", "begin")
    /\ LET e  == Top.el
           to == Propagated(e)
           built == {c \in to : life[c] # "plain"}
       IN  /\ Compute(e)
           /\ data' = [c \in Elements |-> IF c \in to THEN data[e] ELSE data[c]]
           /\ pending' = [c \in Elements |-> IF c = e THEN FALSE ELSE pending[c] \/ c \in built]
           /\ notify' = [c \in Elements |->
                  IF c = e THEN "none"
                  ELSE IF c \in built \cap TwoWay THEN "no" ELSE notify[c]]
           /\ \E enqueued \in InOrder(built) :
                calls' = [At("loop") EXCEPT
                    ![Len(calls)].notify = notify[e],
                    ![Len(calls)].todo = IF e = Host THEN clients \o enqueued ELSE <<>>]
           /\ clients' = IF e = Host THEN <<>> ELSE clients
           /\ life' = IF life[e] = "enabled" THEN [life EXCEPT ![e] = "clients"] ELSE life
    /\ UNCHANGED <<told, sets>>

(* A mutant: an element is flushed though it was not enabled.               *)
Client_NotEnabled ==
    /\ Running("ready", "loop") \/ Running("flush", "loop")
    /\ IF Top.todo = <<>>
       THEN /\ life' = [life EXCEPT ![Top.el] = "ready"]
            /\ calls' = At(IF Top.what = "ready" THEN "again" ELSE "observe")
       ELSE LET c == Head(Top.todo)
                rest == [calls EXCEPT ![Len(calls)].todo = Tail(@)]
            IN  /\ calls' = FlushIf(rest, pending[c], c)
                /\ UNCHANGED life
    /\ UNCHANGED <<data, computed, pending, notify, clients, told, sets>>

(* __enableOrFlushClients, one of them at a time; at its end the element    *)
(* is ready.                                                                *)
Client ==
    /\ Running("ready", "loop") \/ Running("flush", "loop")
    /\ IF Top.todo = <<>>
       THEN /\ life' = [life EXCEPT ![Top.el] = "ready"]
            /\ calls' = At(IF Top.what = "ready" THEN "again" ELSE "observe")
       ELSE LET c == Head(Top.todo)
                rest == [calls EXCEPT ![Len(calls)].todo = Tail(@)]
            IN  IF life[c] = "built"
                THEN /\ life' = [life EXCEPT ![c] = "enabled"]
                     /\ calls' = Append(rest, Enable(c))
                ELSE /\ calls' = FlushIf(rest, pending[c], c)
                     /\ UNCHANGED life
    /\ UNCHANGED <<data, computed, pending, notify, clients, told, sets>>

(* The observer is called with the value there is now; it may set v.        *)
Observe ==
    /\ Running("flush", "observe")
    /\ told' = [told EXCEPT ![Top.el] = data[Top.el]]
    /\ \/ /\ calls' = At("notify")
          /\ UNCHANGED <<data, pending, notify, sets>>
       \/ \E value \in Values : SetProperty(At("notify"), Top.el, value)
    /\ UNCHANGED <<life, computed, clients>>

(* The event of a change: the host takes the value, and flushes what is     *)
(* pending when all events are sent.                                        *)
Notify ==
    /\ Running("flush", "notify") /\ Top.notify = "yes"
    /\ SetPending(Host, data[Top.el])
    /\ calls' = FlushIf(At("end"), life[Host] = "ready" /\ (pending[Host] \/ data[Host] # data[Top.el]), Host)
    /\ UNCHANGED <<life, computed, clients, told, sets>>

Silent ==
    /\ Running("flush", "notify") /\ Top.notify # "yes"
    /\ calls' = At("end")
    /\ UNCHANGED <<life, data, computed, pending, notify, clients, told, sets>>

Done ==
    /\ Running("flush", "end") \/ Running("ready", "end")
    /\ calls' = Return
    /\ UNCHANGED <<life, data, computed, pending, notify, clients, told, sets>>

FlowNext ==
    \/ \E e \in Elements, value \in Values : PageSets(e, value)
    \/ \E e \in Late, default \in Values \cup {Undefined} : Upgrade(e, default)
    \/ Ready /\ UNCHANGED <<data, computed, pending, notify, told, sets>>
    \/ Begin \/ Client \/ Observe \/ Notify \/ Silent \/ Done

FlowSpec == FlowInit /\ [][FlowNext]_flowVars

-----------------------------------------------------------------------------
(* cloud-dashboard.js:10006-10069,10440: the state has its type, and no     *)
(* call is made to an element before it is enabled.                         *)
FlowTypeOK ==
    /\ life \in [Elements -> {"plain", "built", "enabled", "clients", "ready"}]
    /\ data \in [Elements -> Values \cup {Undefined}]
    /\ computed \in [Elements -> Values \cup {Undefined}]
    /\ pending \in [Elements -> BOOLEAN]
    /\ notify \in [Elements -> {"none", "yes", "no"}]
    /\ told \in [Elements -> Values \cup {Undefined}]
    /\ sets \in 0 .. MaxSets
    /\ \A i \in DOMAIN calls : life[calls[i].el] \notin {"plain", "built"}

Quiescent == calls = <<>>

Readying(e) == {i \in DOMAIN calls : calls[i].what = "ready" /\ calls[i].el = e}

(* cloud-dashboard.js:9131-9152,9238-9254,10521-10548: when the calls have  *)
(* returned nothing is pending, and the host and the elements bound to it   *)
(* in both directions have one value, whoever set which of them, and from   *)
(* however deep in the calls.                                               *)
Agreement ==
    Quiescent =>
        /\ \A e \in Elements : ~pending[e]
        /\ \A c \in TwoWay : life[c] = "ready" => data[c] = data[Host]

(* cloud-dashboard.js:9104-9109,10542: the last value an observer was       *)
(* called with is the one the element has, though calls to it may nest.     *)
ToldLast == Quiescent => \A e \in Elements : life[e] = "ready" => told[e] = data[e]

(* cloud-dashboard.js:9293-9303,10530: when an observer is called, what is  *)
(* computed from the value it is told was computed from that value.  Not so *)
(* while the element is readied: what it is notified of then is kept for    *)
(* the flush at the end, but its observer reads it at once.                 *)
ComputedFirst ==
    Running("flush", "observe") /\ Readying(Top.el) = {} => computed[Top.el] = data[Top.el]
=============================================================================
