----------------------------- MODULE MicroTasks -----------------------------
(***************************************************************************)
(* The queue of microtasks and the debouncers that use it: an array of     *)
(* callbacks whose handles are counted from the start of the program, so   *)
(* the place of a handle is its distance to the handle of the first place. *)
(* While a flush goes through the array, callbacks add to it and cancel in *)
(* it; a render that is asked for is also kept in a list that a caller of  *)
(* Polymer.flush runs at once.                                             *)
(***************************************************************************)
EXTENDS Integers, Sequences

CONSTANTS
    Debouncers,
    None,        \* a null callback or timer
    MaxHandles,  \* bound: how many handles are given
    MaxQueue     \* bound: the length of debouncerQueue

ASSUME MicroTasksAssumption ==
    None \notin Debouncers /\ None \notin Nat /\ MaxHandles \in Nat /\ MaxQueue \in Nat

VARIABLES
    callbacks,   \* microtaskCallbacks: the debouncer each would run, or None
    currHandle,  \* microtaskCurrHandle: the next one
    lastHandle,  \* microtaskLastHandle: the handle of the first place
    flushed,     \* how far microtaskFlush is: [next, len], len = 0 when it does not run
    timer,       \* each debouncer's _timer: a handle or None
    queue,       \* debouncerQueue
    flushing     \* whether Polymer.flush runs

microVars == <<callbacks, currHandle, lastHandle, flushed, timer, queue, flushing>>

NoFlush == [next |-> 1, len |-> 0]

MicroInit ==
    /\ callbacks = <<>> /\ currHandle = 0 /\ lastHandle = 0
    /\ flushed = NoFlush
    /\ timer = [d \in Debouncers |-> None]
    /\ queue = <<>> /\ flushing = FALSE

-----------------------------------------------------------------------------
(* The place in the array a handle stands for.                              *)
Place(handle) == handle - lastHandle + 1

IsActive(d) == timer[d] # None

(* The callbacks once a debouncer was cancelled: microTask.cancel of its    *)
(* timer, which throws if there is no callback at its place.                *)
Cancelled(d) ==
    IF IsActive(d) /\ Place(timer[d]) >= 1
    THEN [callbacks EXCEPT ![Place(timer[d])] = None]
    ELSE callbacks

(* Debouncer.debounce with microTask.run.                                   *)
Debounce(d) ==
    /\ currHandle < MaxHandles
    /\ callbacks' = Append(Cancelled(d), d)
    /\ timer' = [timer EXCEPT ![d] = currHandle]
    /\ currHandle' = currHandle + 1

(* What asks for a render: it is debounced and put in the list.             *)
ScheduleRender(d) ==
    /\ Len(queue) < MaxQueue
    /\ Debounce(d)
    /\ queue' = Append(queue, d)
    /\ UNCHANGED <<lastHandle, flushed, flushing>>

Cancel(d) ==
    /\ IsActive(d)
    /\ callbacks' = Cancelled(d)
    /\ timer' = [timer EXCEPT ![d] = None]
    /\ UNCHANGED <<currHandle, lastHandle, flushed, queue, flushing>>

-----------------------------------------------------------------------------
(* The text of the node was changed: its observer is called.                *)
StartFlush ==
    /\ callbacks # <<>> /\ flushed.len = 0 /\ ~flushing
    /\ flushed' = [next |-> 1, len |-> Len(callbacks)]
    /\ UNCHANGED <<callbacks, currHandle, lastHandle, timer, queue, flushing>>

(* One round of its loop; what the callback does are actions of their own.  *)
RunCallback ==
    /\ flushed.next <= flushed.len /\ ~flushing
    /\ flushed' = [flushed EXCEPT !.next = @ + 1]
    /\ LET d == callbacks[flushed.next]
       IN  timer' = IF d = None THEN timer ELSE [timer EXCEPT ![d] = None]
    /\ UNCHANGED <<callbacks, currHandle, lastHandle, queue, flushing>>

(* A mutant: the handles are not moved on with the callbacks.               *)
EndFlush_KeepsHandle ==
    /\ flushed.len > 0 /\ flushed.next > flushed.len /\ ~flushing
    /\ callbacks' = SubSeq(callbacks, flushed.len + 1, Len(callbacks))
    /\ flushed' = NoFlush
    /\ UNCHANGED <<lastHandle, currHandle, timer, queue, flushing>>

(* What was added during the loop stays for the next flush.                 *)
EndFlush ==
    /\ flushed.len > 0 /\ flushed.next > flushed.len /\ ~flushing
    /\ callbacks' = SubSeq(callbacks, flushed.len + 1, Len(callbacks))
    /\ lastHandle' = lastHandle + flushed.len
    /\ flushed' = NoFlush
    /\ UNCHANGED <<currHandle, timer, queue, flushing>>

(* Polymer.flush, called at any time, by a callback too.                    *)
StartPolymerFlush ==
    /\ ~flushing
    /\ flushing' = TRUE
    /\ UNCHANGED <<callbacks, currHandle, lastHandle, flushed, timer, queue>>

(* Debouncer.flush of the first in the list: cancelled and called at once,  *)
(* if it is still active.                                                   *)
FlushDebouncer ==
    /\ flushing /\ queue # <<>>
    /\ queue' = Tail(queue)
    /\ callbacks' = Cancelled(Head(queue))
    /\ timer' = [timer EXCEPT ![Head(queue)] = None]
    /\ UNCHANGED <<currHandle, lastHandle, flushed, flushing>>

EndPolymerFlush ==
    /\ flushing /\ queue = <<>>
    /\ flushing' = FALSE
    /\ UNCHANGED <<callbacks, currHandle, lastHandle, flushed, timer, queue>>

MicroStep ==
    \/ StartFlush \/ RunCallback \/ EndFlush
    \/ FlushDebouncer \/ EndPolymerFlush

MicroNext ==
    \/ \E d \in Debouncers : ScheduleRender(d) \/ Cancel(d)
    \/ StartPolymerFlush
    \/ MicroStep

MicroSpec == MicroInit /\ [][MicroNext]_microVars

-----------------------------------------------------------------------------
(* cloud-dashboard.js:7659-7664,12437-12439: the state has its type, and    *)
(* the handles count the callbacks.                                         *)
MicroTypeOK ==
    /\ callbacks \in Seq(Debouncers \cup {None})
    /\ lastHandle \in Nat /\ currHandle = lastHandle + Len(callbacks)
    /\ flushed \in [next : Nat \ {0}, len : Nat]
    /\ timer \in [Debouncers -> Nat \cup {None}]
    /\ queue \in Seq(Debouncers) /\ flushing \in BOOLEAN

(* The timer of an active debouncer is the handle of the callback that will *)
(* run it, whatever was run, cancelled or added since.                      *)
ActiveIsQueued ==
    \A d \in Debouncers : IsActive(d) =>
        /\ Place(timer[d]) \in flushed.next .. Len(callbacks)
        /\ callbacks[Place(timer[d])] = d

(* A callback that is still to run is the one its debouncer asked for last. *)
QueuedIsActive ==
    \A i \in flushed.next .. Len(callbacks) :
        callbacks[i] # None => timer[callbacks[i]] = lastHandle + i - 1

(* cloud-dashboard.js:7829-7834,12452-12464,12513-12520: cancelling a       *)
(* debouncer finds its callback, and never throws, and a debouncer runs     *)
(* once, however often it was debounced, and not after it was cancelled or  *)
(* flushed.                                                                 *)
QueueAgrees == ActiveIsQueued /\ QueuedIsActive

(* cloud-dashboard.js:14326-14356: when Polymer.flush returns no render     *)
(* waits, those asked for while it ran included.                            *)
NothingToRender == flushing /\ ~flushing' => \A d \in Debouncers : timer'[d] = None
=============================================================================
