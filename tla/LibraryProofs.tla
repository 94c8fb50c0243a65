---------------------------- MODULE LibraryProofs ----------------------------
(***************************************************************************)
(* The microtasks, for any number of debouncers, handles and renders asked *)
(* for, and the parts of the libraries as they are run: the theorems of    *)
(* ElementProofs, BindingProofs and SpliceProofs with its constants and    *)
(* variables.                                                              *)
(***************************************************************************)
EXTENDS MCLibrary, FiniteSetTheorems, TLAPS

(* A flush never goes beyond the callbacks that were there when it began.   *)
FlushInRange ==
    /\ flushed.len <= Len(callbacks)
    /\ flushed.next <= flushed.len + 1

IInv == MicroTypeOK /\ FlushInRange /\ ActiveIsQueued /\ QueuedIsActive

Callback == Debouncers \cup {None}

(* Cancelling empties the place of the debouncer's callback, no other ...   *)
LEMMA CancelledShape ==
  ASSUME IInv, NEW d \in Debouncers
  PROVE  /\ Cancelled(d) \in Seq(Callback)
         /\ Len(Cancelled(d)) = Len(callbacks)
         /\ \A i \in 1 .. Len(callbacks) :
               Cancelled(d)[i] = IF IsActive(d) /\ i = Place(timer[d])
                                 THEN None ELSE callbacks[i]
<1> USE DEF IInv, MicroTypeOK, Callback
<1>1. CASE ~IsActive(d)
  BY <1>1 DEF Cancelled
<1>2. CASE IsActive(d)
  <2>1. Place(timer[d]) \in flushed.next .. Len(callbacks)
    BY <1>2 DEF ActiveIsQueued
  <2>2. flushed.next \in Nat \ {0} /\ Len(callbacks) \in Nat
    OBVIOUS
  <2>3. Place(timer[d]) \in 1 .. Len(callbacks)
    BY <2>1, <2>2
  <2>4. Cancelled(d) = [callbacks EXCEPT ![Place(timer[d])] = None]
    BY <1>2, <2>3 DEF Cancelled
  <2>5. QED
    BY <1>2, <2>3, <2>4
<1>3. QED
  BY <1>1, <1>2

(* ... and leaves none of the callbacks still to run to the debouncer.      *)
LEMMA CancelledIsGone ==
  ASSUME IInv, NEW d \in Debouncers, NEW i \in flushed.next .. Len(callbacks)
  PROVE  Cancelled(d)[i] # d
<1>1. i \in 1 .. Len(callbacks) /\ lastHandle \in Nat /\ i \in Nat
  BY DEF IInv, MicroTypeOK
<1>2. d # None /\ None \notin Nat
  BY MicroTasksAssumption
<1>3. CASE callbacks[i] = d
  <2>1. timer[d] = lastHandle + i - 1
    BY <1>2, <1>3 DEF IInv, QueuedIsActive
  <2>2. IsActive(d) /\ i = Place(timer[d])
    BY <1>1, <1>2, <2>1 DEF IsActive, Place
  <2>3. QED
    BY <1>1, <1>2, <2>2, CancelledShape
<1>4. CASE callbacks[i] # d
  BY <1>1, <1>2, <1>4, CancelledShape
<1>5. QED
  BY <1>3, <1>4

(* A debouncer whose callback is emptied and timer forgotten: Cancel, and   *)
(* the flush of a debouncer.                                                *)
LEMMA CancelPreserves ==
  ASSUME IInv, NEW d \in Debouncers,
         callbacks' = Cancelled(d), timer' = [timer EXCEPT ![d] = None],
         UNCHANGED <<currHandle, lastHandle, flushed>>,
         queue' \in Seq(Debouncers), flushing' \in BOOLEAN
  PROVE  IInv'
<1>1. /\ callbacks' \in Seq(Callback)
      /\ Len(callbacks') = Len(callbacks)
      /\ \A i \in 1 .. Len(callbacks) :
            callbacks'[i] = IF IsActive(d) /\ i = Place(timer[d])
                            THEN None ELSE callbacks[i]
  BY CancelledShape
<1>2. \A i \in flushed.next .. Len(callbacks) : callbacks'[i] # d
  BY CancelledIsGone
<1>3. /\ lastHandle \in Nat /\ flushed.next \in Nat \ {0} /\ Len(callbacks) \in Nat
      /\ timer \in [Debouncers -> Nat \cup {None}]
  BY DEF IInv, MicroTypeOK
<1>4. MicroTypeOK'
  BY <1>1, MicroTasksAssumption DEF IInv, MicroTypeOK, Callback
<1>5. FlushInRange'
  BY <1>1 DEF IInv, FlushInRange
<1>6. ActiveIsQueued'
  <2> SUFFICES ASSUME NEW e \in Debouncers, timer'[e] # None
               PROVE  /\ Place(timer[e]) \in flushed.next .. Len(callbacks)
                      /\ callbacks'[Place(timer[e])] = e
                      /\ timer'[e] = timer[e]
    BY <1>1 DEF ActiveIsQueued, IsActive, Place
  <2>1. e # d /\ timer'[e] = timer[e] /\ IsActive(e)
    BY <1>3 DEF IsActive
  <2>2. /\ Place(timer[e]) \in flushed.next .. Len(callbacks)
        /\ callbacks[Place(timer[e])] = e
    BY <2>1 DEF IInv, ActiveIsQueued
  <2>3. ~(IsActive(d) /\ Place(timer[e]) = Place(timer[d]))
    BY <2>1, <2>2 DEF IInv, ActiveIsQueued
  <2>4. Place(timer[e]) \in 1 .. Len(callbacks)
    BY <1>3, <2>2
  <2>5. callbacks'[Place(timer[e])] = e
    BY <1>1, <2>2, <2>3, <2>4
  <2>6. QED
    BY <2>1, <2>2, <2>5
<1>7. QueuedIsActive'
  <2> SUFFICES ASSUME NEW i \in flushed.next .. Len(callbacks), callbacks'[i] # None
               PROVE  timer'[callbacks'[i]] = lastHandle + i - 1
    BY <1>1 DEF QueuedIsActive
  <2>1. i \in 1 .. Len(callbacks)
    BY <1>3
  <2>2. callbacks'[i] = callbacks[i]
    BY <1>1, <2>1
  <2>3. timer[callbacks[i]] = lastHandle + i - 1
    BY <2>2 DEF IInv, QueuedIsActive
  <2>4. callbacks[i] # d /\ callbacks[i] \in Debouncers
    BY <1>2, <2>1, <2>2 DEF IInv, MicroTypeOK
  <2>5. QED
    BY <1>3, <2>2, <2>3, <2>4
<1>8. QED
  BY <1>4, <1>5, <1>6, <1>7 DEF IInv

(* A new callback is the last, and its handle the next one.                 *)
LEMMA SchedulePreserves ==
  ASSUME IInv, NEW d \in Debouncers, ScheduleRender(d)
  PROVE  IInv'
<1> DEFINE n == Len(callbacks)
<1>1. /\ Cancelled(d) \in Seq(Callback)
      /\ Len(Cancelled(d)) = n
      /\ \A i \in 1 .. n : Cancelled(d)[i] = IF IsActive(d) /\ i = Place(timer[d])
                                             THEN None ELSE callbacks[i]
  BY CancelledShape
<1>2. \A i \in flushed.next .. n : Cancelled(d)[i] # d
  BY CancelledIsGone
<1>3. /\ lastHandle \in Nat /\ flushed.next \in Nat \ {0} /\ n \in Nat
      /\ flushed.len \in Nat
      /\ timer \in [Debouncers -> Nat \cup {None}] /\ currHandle = lastHandle + n
  BY DEF IInv, MicroTypeOK
<1>4. /\ callbacks' = Append(Cancelled(d), d)
      /\ timer' = [timer EXCEPT ![d] = currHandle]
      /\ currHandle' = currHandle + 1
      /\ queue' = Append(queue, d)
      /\ UNCHANGED <<lastHandle, flushed, flushing>>
  BY DEF ScheduleRender, Debounce
<1>5. /\ callbacks' \in Seq(Callback)
      /\ Len(callbacks') = n + 1
      /\ callbacks'[n + 1] = d
      /\ \A i \in 1 .. n : callbacks'[i] = Cancelled(d)[i]
  BY <1>1, <1>3, <1>4 DEF Callback
<1>6. MicroTypeOK'
  BY <1>3, <1>4, <1>5 DEF IInv, MicroTypeOK, Callback
<1>7. FlushInRange' /\ flushed.next <= n + 1
  BY <1>3, <1>4, <1>5 DEF IInv, FlushInRange
<1>8. ActiveIsQueued'
  <2> SUFFICES ASSUME NEW e \in Debouncers, timer'[e] # None
               PROVE  /\ timer'[e] - lastHandle + 1 \in flushed.next .. n + 1
                      /\ callbacks'[timer'[e] - lastHandle + 1] = e
    BY <1>4, <1>5 DEF ActiveIsQueued, IsActive, Place
  <2>1. CASE e = d
    BY <1>3, <1>4, <1>5, <1>7, <2>1
  <2>2. CASE e # d
    <3>1. timer'[e] = timer[e] /\ IsActive(e)
      BY <1>3, <1>4, <2>2 DEF IsActive
    <3>2. Place(timer[e]) \in flushed.next .. n /\ callbacks[Place(timer[e])] = e
      BY <3>1 DEF IInv, ActiveIsQueued
    <3>3. ~(IsActive(d) /\ Place(timer[e]) = Place(timer[d]))
      BY <2>2, <3>2 DEF IInv, ActiveIsQueued
    <3>4. Place(timer[e]) \in 1 .. n
      BY <1>3, <3>2
    <3>5. callbacks'[Place(timer[e])] = e
      BY <1>1, <1>5, <3>2, <3>3, <3>4
    <3>6. QED
      BY <1>3, <3>1, <3>2, <3>5 DEF Place
  <2>3. QED
    BY <2>1, <2>2
<1>9. QueuedIsActive'
  <2> SUFFICES ASSUME NEW i \in flushed.next .. n + 1, callbacks'[i] # None
               PROVE  timer'[callbacks'[i]] = lastHandle + i - 1
    BY <1>4, <1>5 DEF QueuedIsActive
  <2>1. CASE i = n + 1
    BY <1>3, <1>4, <1>5, <2>1
  <2>2. CASE i # n + 1
    <3>1. i \in 1 .. n /\ i \in flushed.next .. n
      BY <1>3, <2>2
    <3>2. callbacks'[i] = callbacks[i]
      BY <1>1, <1>5, <3>1
    <3>3. timer[callbacks[i]] = lastHandle + i - 1
      BY <3>1, <3>2 DEF IInv, QueuedIsActive
    <3>4. callbacks[i] # d /\ callbacks[i] \in Debouncers
      BY <1>2, <1>5, <3>1, <3>2 DEF IInv, MicroTypeOK
    <3>5. QED
      BY <1>3, <1>4, <3>2, <3>3, <3>4
  <2>3. QED
    BY <2>1, <2>2
<1>10. QED
  BY <1>6, <1>7, <1>8, <1>9 DEF IInv

(* A callback that is run is no longer to run, nor its debouncer active.    *)
LEMMA RunPreserves ==
  ASSUME IInv, RunCallback
  PROVE  IInv'
<1> DEFINE d == callbacks[flushed.next]
<1>1. /\ lastHandle \in Nat /\ flushed.next \in Nat \ {0} /\ Len(callbacks) \in Nat
      /\ flushed.len \in Nat /\ flushed \in [next : Nat \ {0}, len : Nat]
      /\ timer \in [Debouncers -> Nat \cup {None}]
      /\ flushed.len <= Len(callbacks) /\ flushed.next <= flushed.len
  BY DEF IInv, MicroTypeOK, FlushInRange, RunCallback
<1>2. /\ flushed'.next = flushed.next + 1 /\ flushed'.len = flushed.len
      /\ flushed' \in [next : Nat \ {0}, len : Nat]
      /\ timer' = IF d = None THEN timer ELSE [timer EXCEPT ![d] = None]
      /\ UNCHANGED <<callbacks, currHandle, lastHandle, queue, flushing>>
  BY <1>1 DEF RunCallback
<1>3. d \in Callback
  BY <1>1 DEF IInv, MicroTypeOK, Callback
<1>4. d # None => timer[d] = lastHandle + flushed.next - 1
  BY <1>1 DEF IInv, QueuedIsActive
<1> HIDE DEF d
<1>5. MicroTypeOK'
  BY <1>1, <1>2, <1>3 DEF IInv, MicroTypeOK, Callback
<1>6. FlushInRange'
  BY <1>1, <1>2 DEF FlushInRange
<1>7. ActiveIsQueued'
  <2> SUFFICES ASSUME NEW e \in Debouncers, timer'[e] # None
               PROVE  /\ Place(timer[e]) \in flushed.next + 1 .. Len(callbacks)
                      /\ callbacks[Place(timer[e])] = e
                      /\ timer'[e] = timer[e]
    BY <1>2 DEF ActiveIsQueued, IsActive, Place
  <2>1. timer'[e] = timer[e] /\ IsActive(e) /\ e # d
    BY <1>1, <1>2, MicroTasksAssumption DEF IsActive
  <2>2. /\ Place(timer[e]) \in flushed.next .. Len(callbacks)
        /\ callbacks[Place(timer[e])] = e
    BY <2>1 DEF IInv, ActiveIsQueued
  <2>3. Place(timer[e]) # flushed.next
    BY <2>1, <2>2 DEF d
  <2>4. QED
    BY <1>1, <2>1, <2>2, <2>3
<1>8. QueuedIsActive'
  <2> SUFFICES ASSUME NEW i \in flushed.next + 1 .. Len(callbacks), callbacks[i] # None
               PROVE  timer'[callbacks[i]] = lastHandle + i - 1
    BY <1>2 DEF QueuedIsActive
  <2>1. i \in flushed.next .. Len(callbacks) /\ i \in 1 .. Len(callbacks) /\ i # flushed.next
    BY <1>1
  <2>2. timer[callbacks[i]] = lastHandle + i - 1
    BY <2>1 DEF IInv, QueuedIsActive
  <2>3. callbacks[i] \in Debouncers
    BY <2>1 DEF IInv, MicroTypeOK
  <2>4. callbacks[i] # d \/ d = None
    BY <1>1, <1>4, <2>1, <2>2
  <2>5. QED
    BY <1>1, <1>2, <2>2, <2>3, <2>4
<1>9. QED
  BY <1>5, <1>6, <1>7, <1>8 DEF IInv

(* The callbacks a flush took go, and the handle of the first place with    *)
(* them: every handle stands for the callback it stood for.                 *)
LEMMA EndFlushPreserves ==
  ASSUME IInv, EndFlush
  PROVE  IInv'
<1> DEFINE n == Len(callbacks)
           k == flushed.len
<1>1. /\ lastHandle \in Nat /\ n \in Nat /\ k \in Nat /\ k <= n
      /\ flushed.next = k + 1 /\ currHandle = lastHandle + n
      /\ timer \in [Debouncers -> Nat \cup {None}]
  BY DEF IInv, MicroTypeOK, FlushInRange, EndFlush
<1>2. /\ callbacks' = SubSeq(callbacks, k + 1, n)
      /\ lastHandle' = lastHandle + k
      /\ flushed' = [next |-> 1, len |-> 0]
      /\ UNCHANGED <<currHandle, timer, queue, flushing>>
  BY DEF EndFlush, NoFlush
<1>3. /\ callbacks' \in Seq(Callback)
      /\ Len(callbacks') = n - k
      /\ \A i \in 1 .. n - k : callbacks'[i] = callbacks[k + i]
  <2>1. callbacks \in Seq(Callback)
    BY DEF IInv, MicroTypeOK, Callback
  <2>2. QED
    BY <1>1, <1>2, <2>1
<1>4. MicroTypeOK'
  BY <1>1, <1>2, <1>3 DEF IInv, MicroTypeOK, Callback
<1>5. FlushInRange'
  BY <1>1, <1>2, <1>3 DEF FlushInRange
<1>6. ActiveIsQueued'
  <2> SUFFICES ASSUME NEW e \in Debouncers, timer[e] # None
               PROVE  /\ timer[e] - (lastHandle + k) + 1 \in 1 .. n - k
                      /\ callbacks'[timer[e] - (lastHandle + k) + 1] = e
    BY <1>2, <1>3 DEF ActiveIsQueued, IsActive, Place
  <2>1. /\ timer[e] - lastHandle + 1 \in k + 1 .. n
        /\ callbacks[timer[e] - lastHandle + 1] = e
    BY <1>1 DEF IInv, ActiveIsQueued, IsActive, Place
  <2>2. timer[e] \in Nat
    BY <1>1
  <2> DEFINE i == timer[e] - (lastHandle + k) + 1
  <2>3. i \in 1 .. n - k /\ k + i = timer[e] - lastHandle + 1
    BY <1>1, <2>1, <2>2
  <2> HIDE DEF i
  <2>4. callbacks'[i] = callbacks[k + i]
    BY <1>3, <2>3
  <2>5. QED
    BY <2>1, <2>3, <2>4 DEF i
<1>7. QueuedIsActive'
  <2> SUFFICES ASSUME NEW i \in 1 .. n - k, callbacks'[i] # None
               PROVE  timer[callbacks'[i]] = lastHandle + k + i - 1
    BY <1>1, <1>2, <1>3 DEF QueuedIsActive
  <2>1. k + i \in flushed.next .. n /\ callbacks'[i] = callbacks[k + i]
    BY <1>1, <1>3
  <2>2. timer[callbacks[k + i]] = lastHandle + (k + i) - 1
    BY <2>1 DEF IInv, QueuedIsActive
  <2>3. QED
    BY <1>1, <2>1, <2>2
<1>8. QED
  BY <1>4, <1>5, <1>6, <1>7 DEF IInv

LEMMA StepPreserves ==
  ASSUME IInv, [MicroNext]_microVars
  PROVE  IInv'
<1>1. CASE UNCHANGED microVars
  BY <1>1 DEF microVars, IInv, MicroTypeOK, FlushInRange, ActiveIsQueued,
              QueuedIsActive, IsActive, Place
<1>2. ASSUME NEW d \in Debouncers, ScheduleRender(d) PROVE IInv'
  BY <1>2, SchedulePreserves
<1>3. ASSUME NEW d \in Debouncers, Cancel(d) PROVE IInv'
  <2>1. queue' \in Seq(Debouncers) /\ flushing' \in BOOLEAN
    BY <1>3 DEF Cancel, IInv, MicroTypeOK
  <2>2. QED
    BY <1>3, <2>1, CancelPreserves DEF Cancel
<1>4. CASE StartFlush
  <2>1. /\ flushed.len = 0 /\ flushed' = [next |-> 1, len |-> Len(callbacks)]
        /\ UNCHANGED <<callbacks, currHandle, lastHandle, timer, queue, flushing>>
    BY <1>4 DEF StartFlush
  <2>2. /\ Len(callbacks) \in Nat /\ flushed.next \in Nat \ {0}
        /\ flushed.next = 1
    BY <2>1 DEF IInv, MicroTypeOK, FlushInRange
  <2>3. QED
    BY <2>1, <2>2 DEF IInv, MicroTypeOK, FlushInRange, ActiveIsQueued,
                      QueuedIsActive, IsActive, Place
<1>5. CASE RunCallback
  BY <1>5, RunPreserves
<1>6. CASE EndFlush
  BY <1>6, EndFlushPreserves
<1>7. CASE FlushDebouncer
  <2>1. /\ Head(queue) \in Debouncers /\ queue' \in Seq(Debouncers)
        /\ flushing' \in BOOLEAN
    BY <1>7 DEF FlushDebouncer, IInv, MicroTypeOK
  <2>2. QED
    BY <1>7, <2>1, CancelPreserves DEF FlushDebouncer
<1>8. CASE StartPolymerFlush \/ EndPolymerFlush
  BY <1>8 DEF StartPolymerFlush, EndPolymerFlush, IInv, MicroTypeOK, FlushInRange,
              ActiveIsQueued, QueuedIsActive, IsActive, Place
<1>9. QED
  BY <1>1, <1>2, <1>3, <1>4, <1>5, <1>6, <1>7, <1>8 DEF MicroNext, MicroStep

-----------------------------------------------------------------------------
(* cloud-dashboard.js:7659-7664,7829-7834,12437-12520: the timer of every   *)
(* active debouncer is the handle of its callback, and every callback to    *)
(* run is the one its debouncer asked for last, through any number of       *)
(* flushes, nested or not.                                                  *)
THEOREM MicroQueueAgrees == MicroSpec => [](MicroTypeOK /\ QueueAgrees)
<1>1. MicroInit => IInv
  <2> SUFFICES ASSUME MicroInit PROVE IInv
    OBVIOUS
  <2>1. MicroTypeOK
    <3>1. callbacks = <<>> /\ Len(callbacks) = 0 /\ queue = <<>>
      BY DEF MicroInit
    <3>2. callbacks \in Seq(Debouncers \cup {None}) /\ queue \in Seq(Debouncers)
      BY <3>1
    <3>3. currHandle = lastHandle + Len(callbacks) /\ lastHandle \in Nat
      BY <3>1 DEF MicroInit
    <3>4. flushed \in [next : Nat \ {0}, len : Nat]
      BY DEF MicroInit, NoFlush
    <3>5. timer \in [Debouncers -> Nat \cup {None}]
      BY DEF MicroInit
    <3>6. flushing \in BOOLEAN
      BY DEF MicroInit
    <3>7. QED
      BY <3>2, <3>3, <3>4, <3>5, <3>6 DEF MicroTypeOK
  <2>2. FlushInRange /\ ActiveIsQueued /\ QueuedIsActive
    BY DEF MicroInit, FlushInRange, NoFlush, ActiveIsQueued, QueuedIsActive, IsActive
  <2>3. QED
    BY <2>1, <2>2 DEF IInv
<1>2. IInv /\ [MicroNext]_microVars => IInv'
  BY StepPreserves
<1>3. IInv => MicroTypeOK /\ QueueAgrees
  BY DEF IInv, QueueAgrees
<1>4. QED
  BY <1>1, <1>2, <1>3, PTL DEF MicroSpec

-----------------------------------------------------------------------------
(* The parts as they are run.                                               *)
E == INSTANCE ElementProofs WITH
    Callbacks <- {"a", "b", "c"}, MaxFlushes <- 2, MaxNested <- 3,
    queues <- s1, scheduled <- s2, frames <- s3, timeouts <- s4, loops <- s5, ran <- s6,
    flushes <- s7,
    Texts <- {"x", "y"}, NoInst <- None, Empty <- "",
    if <- s1, restamp <- s2, host <- s3, instance <- s4, invalid <- s5, debounced <- s6,
    outer <- s7, place <- s8,
    Items <- {1, 2}, Passing <- {2}, MaxLength <- 3, MaxFrames <- 2, MaxNotifying <- 2,
    InitialCount <- 1, NoRender <- "no",
    items <- s1, filter <- s2, sort <- s3, instances <- s4, instOf <- s5, limit <- s6,
    render <- s7, chunks <- s8, rendered <- s9, notifying <- s10, replaced <- s11,
    tracks <- s1, pointer <- s2, held <- s3, offset <- s4, due <- s5, follows <- s6, track <- s7,
    tap <- s8, ignore <- s9, fingers <- s10, fired <- s11,
    Types <- {"Number", "Boolean", "Object", "Array", "String"}, Written <- {"", "1", "{}", "x"},
    Absent <- "absent", MaxWrites <- 3,
    type <- s1, hosted <- s2, phase <- s3, own <- s4, attribute <- s5, value <- s6,
    serializing <- s7, stack <- s8, writes <- s9,
    Starts <- DurationStarts, Steps <- DurationSteps, MaxSteps <- 2, dur <- s1, steps <- s2

(* A step of the whole is a step of the part it is about, or of the         *)
(* microtasks, which leave the pool alone.                                  *)
LEMMA PartStays ==
  ASSUME [Next]_vars, NEW p
  PROVE  (part = p => part' = p) /\ (~(part = p) => ~(part' = p))
<1>1. part' = part
  BY DEF Next, In, vars
<1>2. QED
  BY <1>1

LEMMA PartMoves ==
  ASSUME [Next]_vars
  PROVE  /\ part = "render" => Render!RenderNext \/ UNCHANGED pool
         /\ part = "dom-if" => If!DomIfNext \/ UNCHANGED pool
         /\ part = "dom-repeat" => Repeat!RepeatNext \/ UNCHANGED pool
         /\ part = "gestures" => Gesture!GestureNext \/ UNCHANGED pool
         /\ part = "flow" => Flow!FlowNext \/ UNCHANGED pool
         /\ part = "templates" => Template!ParseNext \/ UNCHANGED pool
         /\ part = "bound" => BoundTo!BoundNext \/ UNCHANGED pool
         /\ part = "attributes" => Attribute!AttributesNext \/ UNCHANGED pool
         /\ part = "nodes" => Observer!FlatNext \/ UNCHANGED pool
         /\ part = "selector" => Selector!SelectorNext \/ UNCHANGED pool
         /\ part = "paths" => Path!PathNext \/ UNCHANGED pool
         /\ part = "splices" => UNCHANGED pool
         /\ part = "calendar" => Cal!CalendarNext \/ UNCHANGED pool
         /\ part = "durations" => Dur!DurationsNext \/ UNCHANGED pool
         /\ part = "format" => Format!FormatNext \/ UNCHANGED pool
<1>1. CASE Next
  BY <1>1 DEF Next, In
<1>2. CASE UNCHANGED vars
  BY <1>2 DEF vars
<1>3. QED
  BY <1>1, <1>2

LEMMA GesturesAreRun ==
  /\ Gesture!GestureInit => E!GestureInit
  /\ Gesture!GestureNext \/ UNCHANGED pool => [E!GestureNext]_(E!gestureVars)
  /\ E!OneTap /\ E!OneUp /\ E!NothingFollowed
     <=> Gesture!OneTap /\ Gesture!OneUp /\ Gesture!NothingFollowed
<1>1. Gesture!GestureInit => E!GestureInit
  BY DEF Gesture!GestureInit, E!GestureInit, Gesture!IdleTrack, E!IdleTrack, Gesture!NoneFired, E!NoneFired
<1>2. Gesture!GestureNext => E!GestureNext
  BY DEF Gesture!GestureNext, E!GestureNext, Gesture!MouseDown, E!MouseDown, Gesture!Reset, E!Reset,
         Gesture!IdleTrack, E!IdleTrack, Gesture!NoneFired, E!NoneFired, Gesture!LoseButton, E!LoseButton,
         Gesture!MouseUp, E!MouseUp, Gesture!GoOn, E!GoOn, Gesture!Click, E!Click, Gesture!Tapped, E!Tapped,
         Gesture!TouchStart, E!TouchStart, Gesture!OtherFinger, E!OtherFinger, Gesture!TouchEnd, E!TouchEnd,
         Gesture!IgnoreMouse, E!IgnoreMouse, Gesture!Emulated, E!Emulated, Gesture!IgnoreEnds, E!IgnoreEnds,
         Gesture!Offsets, E!Offsets, Gesture!MouseMove, E!MouseMove, Gesture!TouchMove, E!TouchMove,
         Gesture!HasMovedEnough, E!HasMovedEnough, Gesture!OtherButtonDown, E!OtherButtonDown,
         Gesture!OtherButtonUp, E!OtherButtonUp
<1>3. UNCHANGED pool => UNCHANGED E!gestureVars
  BY DEF pool, E!gestureVars
<1>4. E!OneTap /\ E!OneUp /\ E!NothingFollowed
      <=> Gesture!OneTap /\ Gesture!OneUp /\ Gesture!NothingFollowed
  BY DEF E!OneTap, E!OneUp, E!NothingFollowed, Gesture!OneTap, Gesture!OneUp, Gesture!NothingFollowed
<1>5. QED
  BY <1>1, <1>2, <1>3, <1>4

(* cloud-dashboard.js:12874-12881,13165-13198,13248-13311,13454-13469: a    *)
(* pointer that tracked does not tap, unless another button went down       *)
(* meanwhile; none taps or goes up twice, and after the end, or another     *)
(* button, nothing of it is followed.                                       *)
THEOREM LibraryGesturesEnd == Spec => []GesturesEnd
<1> DEFINE mine == part = "gestures"
           Ends == E!OneTap /\ E!OneUp /\ E!NothingFollowed
<1>1. E!GestureSpec => []Ends
  BY E!GesturesEndOnce
<1>2. Init /\ mine => E!GestureInit
  BY GesturesAreRun DEF Init
<1>3. [Next]_vars => (mine => [E!GestureNext]_(E!gestureVars)) /\ (mine => mine') /\ (~mine => ~mine')
  BY PartStays, PartMoves, GesturesAreRun
<1>4. Ends => GesturesEnd
  BY GesturesAreRun DEF GesturesEnd
<1>5. ~mine => GesturesEnd
  BY DEF GesturesEnd
<1>6. QED
  BY <1>1, <1>2, <1>3, <1>4, <1>5, PTL DEF Spec, E!GestureSpec

LEMMA AttributesHaveConstants == E!AttributesConstants
BY DEF E!AttributesConstants

LEMMA AttributesAreRun ==
  /\ Attribute!AttributesInit => E!AttributesInit
  /\ Attribute!AttributesNext \/ UNCHANGED pool => [E!AttributesNext]_(E!attributeVars)
  /\ E!AttributeReads <=> Attribute!AttributeReads
  /\ [E!ReflectionIsSilent]_(E!attributeVars) => Attribute!ReflectionIsSilent
<1>1. Attribute!Undef = E!Undef /\ Attribute!Null = E!Null
  BY DEF Attribute!Undef, E!Undef, Attribute!Null, E!Null, Attribute!Value, E!Value
<1>2. \A text, t : Attribute!DeserializeValue(text, t) = E!DeserializeValue(text, t)
  <2>1. \A text : Attribute!Number(text) = E!Number(text)
    BY DEF Attribute!Number, E!Number, Attribute!Value, E!Value
  <2>2. \A text, failed : Attribute!Parsed(text, failed) = E!Parsed(text, failed)
    BY <1>1, <2>1 DEF Attribute!Parsed, E!Parsed, Attribute!Value, E!Value
  <2>3. QED
    BY <1>1, <2>1, <2>2 DEF Attribute!DeserializeValue, E!DeserializeValue, Attribute!Value, E!Value
<1>3. \A v : Attribute!SetValue(v) <=> E!SetValue(v)
  BY DEF Attribute!SetValue, E!SetValue, Attribute!FlushOf, E!FlushOf
<1>4. \A text : Attribute!AttributeChangedCallback(text) <=> E!AttributeChangedCallback(text)
  BY <1>2, <1>3 DEF Attribute!AttributeChangedCallback, E!AttributeChangedCallback,
                    Attribute!AttributeToProperty, E!AttributeToProperty
<1>5. Attribute!Turn = E!Turn /\ (Attribute!Write <=> E!Write) /\ Attribute!EnsureAttribute = E!EnsureAttribute
      /\ \A step : Attribute!To(step) = E!To(step)
  BY DEF Attribute!Turn, E!Turn, Attribute!Write, E!Write, Attribute!EnsureAttribute, E!EnsureAttribute,
         Attribute!To, E!To
<1>6. Attribute!Settable = E!Settable
  BY <1>1, <1>2 DEF Attribute!Settable, E!Settable
<1>7. \A v : Attribute!SetProperty(v) <=> E!SetProperty(v)
  BY <1>3, <1>5 DEF Attribute!SetProperty, E!SetProperty, Attribute!MaySet, E!MaySet
<1>8. \A v : Attribute!Build(v) <=> E!Build(v)
  BY <1>2 DEF Attribute!Build, E!Build
<1>9. \A text : Attribute!SetAttribute(text) <=> E!SetAttribute(text)
  BY <1>4, <1>5 DEF Attribute!SetAttribute, E!SetAttribute
<1>10. Attribute!Ready <=> E!Ready
  BY <1>1, <1>2, <1>5 DEF Attribute!Ready, E!Ready, Attribute!FlushOf, E!FlushOf
<1>11. /\ Attribute!ClientsDone <=> E!ClientsDone
       /\ Attribute!Heard <=> E!Heard
       /\ Attribute!Serialized <=> E!Serialized
       /\ Attribute!Return <=> E!Return
  BY <1>2, <1>5 DEF Attribute!ClientsDone, E!ClientsDone, Attribute!Heard, E!Heard,
                    Attribute!Serialized, E!Serialized, Attribute!Return, E!Return
<1>12. Attribute!PropertyToAttribute <=> E!PropertyToAttribute
  BY <1>5 DEF Attribute!PropertyToAttribute, E!PropertyToAttribute, Attribute!SerializeValue, E!SerializeValue,
              Attribute!ReflectedValue, E!ReflectedValue
<1>13. Attribute!AttributesNext => E!AttributesNext
  BY <1>6, <1>7, <1>8, <1>9, <1>10, <1>11, <1>12 DEF Attribute!AttributesNext, E!AttributesNext
<1>14. UNCHANGED pool => UNCHANGED E!attributeVars
  BY DEF pool, E!attributeVars
<1>15. Attribute!AttributesInit => E!AttributesInit
  BY <1>1 DEF Attribute!AttributesInit, E!AttributesInit
<1>16. E!AttributeReads <=> Attribute!AttributeReads
  BY <1>1, <1>2 DEF E!AttributeReads, Attribute!AttributeReads, E!Alike, Attribute!Alike
<1>17. [E!ReflectionIsSilent]_(E!attributeVars) => Attribute!ReflectionIsSilent
  BY DEF E!ReflectionIsSilent, Attribute!ReflectionIsSilent, E!attributeVars
<1>18. QED
  BY <1>13, <1>14, <1>15, <1>16, <1>17

(* cloud-dashboard.js:8078-8099,9269-9275: the conjuncts of ClassesAreMade  *)
(* and of StepsInOrder about attributes: in the end an attribute reads as   *)
(* its property, and writing it changes no property.                        *)
THEOREM LibraryAttributesAgree ==
  Spec => /\ [](part = "attributes" => Attribute!AttributeReads)
          /\ [][part = "attributes" => Attribute!ReflectionIsSilent]_vars
<1> DEFINE mine == part = "attributes"
           Reads == mine => Attribute!AttributeReads
           Silent == mine => Attribute!ReflectionIsSilent
<1>1. E!AttributesSpec => []E!AttributeReads /\ [][E!ReflectionIsSilent]_(E!attributeVars)
  BY AttributesHaveConstants, E!AttributesAgree
<1>2. Init /\ mine => E!AttributesInit
  BY AttributesAreRun DEF Init
<1>3. [Next]_vars => (mine => [E!AttributesNext]_(E!attributeVars)) /\ (mine => mine') /\ (~mine => ~mine')
  BY PartStays, PartMoves, AttributesAreRun
<1>4. (E!AttributeReads => Reads) /\ (~mine => Reads)
  BY AttributesAreRun
<1>5. ([E!ReflectionIsSilent]_(E!attributeVars) => [Silent]_vars) /\ (~mine => [Silent]_vars)
  BY AttributesAreRun
<1> HIDE DEF Reads, Silent
<1>6. Spec => []Reads /\ [][Silent]_vars
  BY <1>1, <1>2, <1>3, <1>4, <1>5, PTL DEF Spec, E!AttributesSpec
<1>7. QED
  BY <1>6 DEF Reads, Silent

F == INSTANCE BindingProofs WITH
    Host <- "host", Children <- <<"c1", "c2", "c3">>, TwoWay <- {"c1", "c3"}, Late <- {"c3"},
    Values <- {1, 2}, Undefined <- 0, MaxSets <- 3,
    life <- s1, data <- s2, computed <- s3, pending <- s4, notify <- s5, clients <- s6,
    told <- s7, calls <- s8, sets <- s9,
    Outer <- 1..3, Inner <- 1..2,
    strip <- s1, dom <- s2, cursor <- s3, place <- s4, infos <- s5, effects <- s6,
    Doms <- {"d1", "d2", "d3", "d4"}, None <- "none",
    first <- s1, last <- s2, next <- s3, previous <- s4, own <- s5, bound <- s6,
    Ends <- {<<"items", "0">>, <<"selected">>, <<"copy">>}, Below <- {<<>>, <<"name">>},
    Things <- {1, 2}, MaxTelling <- 4, MaxItems <- 3, MaxStrays <- 1,
    links <- s1, pathCalls <- s2, temp <- s3, array <- s4, mirror <- s5, strays <- s6

LEMMA FlowHasConstants == F!FlowConstants
<1>1. F!Bound = {"c1", "c2", "c3"}
  <2>1. DOMAIN <<"c1", "c2", "c3">> = {1, 2, 3}
    OBVIOUS
  <2>2. QED
    BY <2>1 DEF F!Bound
<1>2. <<"c1", "c2", "c3">> \in Seq(F!Bound)
  BY <1>1
<1>3. QED
  BY <1>1, <1>2 DEF F!FlowConstants

LEMMA FlowIsRun ==
  /\ Flow!FlowInit => F!FlowInit
  /\ Flow!FlowNext \/ UNCHANGED pool => [F!FlowNext]_(F!flowVars)
  /\ F!FlowTypeOK <=> Flow!FlowTypeOK
  /\ F!Agreement /\ F!ToldLast /\ F!ComputedFirst
     <=> Flow!Agreement /\ Flow!ToldLast /\ Flow!ComputedFirst
<1>1. /\ Flow!Bound = F!Bound /\ Flow!Elements = F!Elements
      /\ \A e : Flow!Enable(e) = F!Enable(e) /\ Flow!Flush(e) = F!Flush(e)
  BY DEF Flow!Bound, F!Bound, Flow!Elements, F!Elements, Flow!Enable, F!Enable, Flow!Flush, F!Flush
<1>2. \A S : Flow!InOrder(S) = F!InOrder(S)
  <2>1. \A b, c : Flow!Precedes(b, c) <=> F!Precedes(b, c)
    BY DEF Flow!Precedes, F!Precedes
  <2>2. QED
    BY <2>1 DEF Flow!InOrder, F!InOrder
<1>3. Flow!FlowInit => F!FlowInit
  BY <1>1, <1>2 DEF Flow!FlowInit, F!FlowInit
<1>4. /\ Flow!Top = F!Top /\ Flow!Return = F!Return
      /\ \A what, at : Flow!Running(what, at) <=> F!Running(what, at)
      /\ \A at : Flow!At(at) = F!At(at)
      /\ \A stack, condition, e : Flow!FlushIf(stack, condition, e) = F!FlushIf(stack, condition, e)
      /\ \A e : Flow!Propagated(e) = F!Propagated(e)
      /\ \A e : Flow!Readying(e) = F!Readying(e)
  BY <1>1 DEF Flow!Top, F!Top, Flow!Return, F!Return, Flow!Running, F!Running, Flow!At, F!At,
              Flow!FlushIf, F!FlushIf, Flow!Propagated, F!Propagated, Flow!Readying, F!Readying
<1>5. \A e, value : Flow!SetPending(e, value) <=> F!SetPending(e, value)
  BY DEF Flow!SetPending, F!SetPending
<1>6. \A stack, e, value : Flow!SetProperty(stack, e, value) <=> F!SetProperty(stack, e, value)
  BY <1>4, <1>5 DEF Flow!SetProperty, F!SetProperty
<1>7. /\ \A e, value : Flow!PageSets(e, value) => F!PageSets(e, value)
      /\ \A e, default : Flow!Upgrade(e, default) => F!Upgrade(e, default)
  BY <1>1, <1>6 DEF Flow!PageSets, F!PageSets, Flow!Upgrade, F!Upgrade
<1>8. Flow!Ready => F!Ready
  BY <1>4 DEF Flow!Ready, F!Ready
<1>9. Flow!Begin => F!Begin
  BY <1>1, <1>2, <1>4 DEF Flow!Begin, F!Begin, Flow!Compute, F!Compute
<1>10. Flow!Client => F!Client
  BY <1>1, <1>4 DEF Flow!Client, F!Client
<1>11. Flow!Observe \/ Flow!Notify \/ Flow!Silent \/ Flow!Done => F!Observe \/ F!Notify \/ F!Silent \/ F!Done
  BY <1>4, <1>5, <1>6 DEF Flow!Observe, F!Observe, Flow!Notify, F!Notify, Flow!Silent, F!Silent,
                          Flow!Done, F!Done
<1>12. Flow!FlowNext => F!FlowNext
  BY <1>1, <1>7, <1>8, <1>9, <1>10, <1>11 DEF Flow!FlowNext, F!FlowNext
<1>13. UNCHANGED pool => UNCHANGED F!flowVars
  BY DEF pool, F!flowVars
<1>14. F!Agreement /\ F!ToldLast /\ F!ComputedFirst
       <=> Flow!Agreement /\ Flow!ToldLast /\ Flow!ComputedFirst
  BY <1>1, <1>4 DEF F!Agreement, F!ToldLast, F!ComputedFirst, F!Quiescent,
                    Flow!Agreement, Flow!ToldLast, Flow!ComputedFirst, Flow!Quiescent
<1>15. F!FlowTypeOK <=> Flow!FlowTypeOK
  BY <1>1 DEF F!FlowTypeOK, Flow!FlowTypeOK
<1>16. QED
  BY <1>3, <1>12, <1>13, <1>14, <1>15

(* cloud-dashboard.js:9104-9152,9238-9303,10530-10542: when all calls have  *)
(* returned, the host and the elements bound to it in both directions have  *)
(* one value, an observer was told last what its element has, and saw       *)
(* computed what was computed from the value it is told.                    *)
THEOREM LibraryFlowSettles == Spec => []FlowSettles
<1> DEFINE flowing == part = "flow"
           Settled == F!FlowTypeOK /\ F!Agreement /\ F!ToldLast /\ F!ComputedFirst
<1>1. F!FlowSpec => []Settled
  BY FlowHasConstants, F!FlowIsSettled
<1>2. Init /\ flowing => F!FlowInit
  BY FlowIsRun DEF Init
<1>3. [Next]_vars => /\ (flowing => [F!FlowNext]_(F!flowVars))
                     /\ (flowing => flowing') /\ (~flowing => ~flowing')
  BY PartStays, PartMoves, FlowIsRun
<1>4. Settled => FlowSettles
  BY FlowIsRun DEF FlowSettles
<1>5. ~flowing => FlowSettles
  BY DEF FlowSettles
<1>6. QED
  BY <1>1, <1>2, <1>3, <1>4, <1>5, PTL DEF Spec, F!FlowSpec

LEMMA BindingsHaveConstants == F!TemplatesConstants /\ "none" \notin {"d1", "d2", "d3", "d4"}
BY DEF F!TemplatesConstants

LEMMA TemplatesAreRun ==
  /\ Template!ParseInit => F!ParseInit
  /\ Template!ParseNext \/ UNCHANGED pool => [F!ParseNext]_(F!parseVars)
  /\ F!NotedIsFound /\ F!EffectsHitTheirNode
     <=> Template!NotedIsFound /\ Template!EffectsHitTheirNode
<1>1. /\ Template!Texts = F!Texts /\ Template!Kinds = F!Kinds
      /\ \A kind : Template!IsElement(kind) <=> F!IsElement(kind)
  BY DEF Template!Texts, F!Texts, Template!Kinds, F!Kinds, Template!IsElement, F!IsElement
<1>2. Template!ParseInit => F!ParseInit
  BY DEF Template!ParseInit, F!ParseInit, Template!Texts, F!Texts, Template!Kinds, F!Kinds,
         Template!IsElement, F!IsElement
<1>3. /\ Template!Inside <=> F!Inside
      /\ Template!Level = F!Level /\ Template!Nodes = F!Nodes /\ Template!Here = F!Here
  BY DEF Template!Inside, F!Inside, Template!Level, F!Level, Template!Nodes, F!Nodes,
         Template!Here, F!Here
<1>4. /\ Template!More <=> F!More
      /\ Template!Node = F!Node /\ Template!Path = F!Path
      /\ \A nodes : Template!WithNodes(nodes) = F!WithNodes(nodes)
  BY <1>3 DEF Template!More, F!More, Template!Node, F!Node, Template!Path, F!Path,
              Template!WithNodes, F!WithNodes
<1>5. Template!Moved <=> F!Moved
  BY <1>3 DEF Template!Moved, F!Moved
<1>6. /\ Template!IsJoined <=> F!IsJoined
      /\ Template!Kept <=> F!Kept
  BY <1>1, <1>3, <1>4 DEF Template!IsJoined, F!IsJoined, Template!Kept, F!Kept
<1>7. /\ \A id : Template!AddBinding(id) = F!AddBinding(id)
      /\ \A id, path : Template!Noted(id, path) = F!Noted(id, path)
  BY DEF Template!AddBinding, F!AddBinding, Template!Noted, F!Noted
<1>8. /\ \A s, i : Template!RemoveAt(s, i) = F!RemoveAt(s, i)
      /\ \A s, i, x : Template!ReplaceAt(s, i, x) = F!ReplaceAt(s, i, x)
      /\ \A node, other : Template!Joined(node, other) = F!Joined(node, other)
  BY DEF Template!RemoveAt, F!RemoveAt, Template!ReplaceAt, F!ReplaceAt, Template!Joined, F!Joined
<1>9. /\ Template!JoinTexts => F!JoinTexts
      /\ Template!RemoveBlank => F!RemoveBlank
  BY <1>1, <1>3, <1>4, <1>6, <1>8
     DEF Template!JoinTexts, F!JoinTexts, Template!RemoveBlank, F!RemoveBlank
<1>10. /\ Template!ParseNode => F!ParseNode
       /\ Template!WrapTemplate => F!WrapTemplate
       /\ Template!NestedTemplate => F!NestedTemplate
  BY <1>3, <1>4, <1>5, <1>6, <1>7
     DEF Template!ParseNode, F!ParseNode, Template!WrapTemplate, F!WrapTemplate,
         Template!NestedTemplate, F!NestedTemplate
<1>11. /\ Template!EnterElement => F!EnterElement
       /\ Template!LeaveElement => F!LeaveElement
  BY <1>1, <1>3, <1>4, <1>6, <1>7
     DEF Template!EnterElement, F!EnterElement, Template!LeaveElement, F!LeaveElement
<1>12. Template!ParseNext => F!ParseNext
  BY <1>9, <1>10, <1>11 DEF Template!ParseNext, F!ParseNext
<1>13. UNCHANGED pool => UNCHANGED F!parseVars
  BY DEF pool, F!parseVars
<1>14. F!NotedIsFound /\ F!EffectsHitTheirNode
       <=> Template!NotedIsFound /\ Template!EffectsHitTheirNode
  BY <1>3, <1>4 DEF F!NotedIsFound, Template!NotedIsFound, F!FindTemplateNode, Template!FindTemplateNode,
         F!EffectsHitTheirNode, Template!EffectsHitTheirNode, F!Parsed, Template!Parsed
<1>15. QED
  BY <1>2, <1>12, <1>13, <1>14

LEMMA CopiesAreRun ==
  /\ BoundTo!BoundInit => F!BoundInit
  /\ BoundTo!BoundNext \/ UNCHANGED pool => [F!BoundNext]_(F!boundVars)
  /\ F!AllReached <=> BoundTo!AllReached
<1>1. BoundTo!BoundInit => F!BoundInit
  BY DEF BoundTo!BoundInit, F!BoundInit
<1>2. BoundTo!BoundNext => F!BoundNext
  <2>1. /\ \A s, i : BoundTo!RemoveAt(s, i) = F!RemoveAt(s, i)
        /\ \A s : BoundTo!ToSet(s) = F!ToSet(s)
        /\ \A link, d, to : BoundTo!Linked(link, d, to) = F!Linked(link, d, to)
    BY DEF BoundTo!RemoveAt, F!RemoveAt, BoundTo!ToSet, F!ToSet, BoundTo!Linked, F!Linked
  <2>2. \A d : BoundTo!StampTemplate(d) <=> F!StampTemplate(d)
    BY <2>1 DEF BoundTo!StampTemplate, F!StampTemplate
  <2>3. \A d : BoundTo!RemoveBoundDom(d) <=> F!RemoveBoundDom(d)
    BY <2>1 DEF BoundTo!RemoveBoundDom, F!RemoveBoundDom
  <2>4. QED
    BY <2>2, <2>3 DEF BoundTo!BoundNext, F!BoundNext
<1>3. UNCHANGED pool => UNCHANGED F!boundVars
  BY DEF pool, F!boundVars
<1>4. F!AllReached <=> BoundTo!AllReached
  BY DEF F!AllReached, BoundTo!AllReached, F!Walks, BoundTo!Walks
<1>5. QED
  BY <1>1, <1>2, <1>3, <1>4

(* cloud-dashboard.js:8475-8490,8657-8724,9384: every place noted in a      *)
(* template leads to its node in the copies, and an effect updates the node *)
(* it was made for.  11160-11172, 11253-11264: exactly the copies in the    *)
(* document are updated.                                                    *)
THEOREM LibraryTemplatesAreBound == Spec => []TemplatesAreBound
<1> DEFINE parsing == part = "templates"
           binding == part = "bound"
           Noted == F!NotedIsFound /\ F!EffectsHitTheirNode
<1>1. F!ParseSpec => []Noted
  BY BindingsHaveConstants, F!NotedAreFound
<1>2. F!BoundSpec => []F!AllReached
  BY BindingsHaveConstants, F!CopiesAreReached
<1>3. Init => /\ parsing => F!ParseInit
              /\ binding => F!BoundInit
  BY TemplatesAreRun, CopiesAreRun DEF Init
<1>4. [Next]_vars => /\ parsing => [F!ParseNext]_(F!parseVars)
                     /\ binding => [F!BoundNext]_(F!boundVars)
  BY PartMoves, TemplatesAreRun, CopiesAreRun
<1>5. [Next]_vars => /\ (parsing => parsing') /\ (~parsing => ~parsing')
                     /\ (binding => binding') /\ (~binding => ~binding')
  BY PartStays
<1>6. (parsing => Noted) /\ (binding => F!AllReached) => TemplatesAreBound
  BY TemplatesAreRun, CopiesAreRun DEF TemplatesAreBound
<1>7. Spec => [](parsing => Noted)
  BY <1>1, <1>3, <1>4, <1>5, PTL DEF Spec, F!ParseSpec
<1>8. Spec => [](binding => F!AllReached)
  BY <1>2, <1>3, <1>4, <1>5, PTL DEF Spec, F!BoundSpec
<1>9. QED
  BY <1>6, <1>7, <1>8, PTL

LEMMA RenderIsRun ==
  /\ Render!RenderInit => E!RenderInit
  /\ Render!RenderNext \/ UNCHANGED pool => [E!RenderNext]_(E!renderVars)
  /\ E!RenderTypeOK /\ E!NoneIsLeft <=> Render!RenderTypeOK /\ Render!NoneIsLeft
<1>1. Render!RenderInit => E!RenderInit
  BY DEF Render!RenderInit, E!RenderInit
<1>2. Render!RenderNext => E!RenderNext
  BY DEF Render!RenderNext, E!RenderNext, Render!NextRender, E!NextRender, Render!Asked, E!Asked,
         Render!Queued, E!Queued, Render!Frame, E!Frame, Render!Timeout, E!Timeout,
         Render!FlushRender, E!FlushRender, Render!RunRender, E!RunRender, Render!Top, E!Top,
         Render!Call, E!Call, Render!EndRender, E!EndRender, Render!Pop, E!Pop
<1>3. UNCHANGED pool => UNCHANGED E!renderVars
  BY DEF pool, E!renderVars
<1>4. E!RenderTypeOK /\ E!NoneIsLeft <=> Render!RenderTypeOK /\ Render!NoneIsLeft
  BY DEF E!NoneIsLeft, Render!NoneIsLeft, E!RenderTypeOK, Render!RenderTypeOK
<1>5. QED
  BY <1>1, <1>2, <1>3, <1>4

LEMMA RepeatIsRun ==
  /\ Repeat!RepeatInit => E!RepeatInit
  /\ Repeat!RepeatNext \/ UNCHANGED pool => [E!RepeatNext]_(E!repeatVars)
  /\ E!RepeatTypeOK <=> Repeat!RepeatTypeOK
  /\ E!InstancesAgree /\ E!ReplacedComes /\ E!AllShown
     <=> Repeat!InstancesAgree /\ Repeat!ReplacedComes /\ Repeat!AllShown
<1>1. Repeat!RepeatInit => E!RepeatInit
  BY DEF Repeat!RepeatInit, E!RepeatInit, Repeat!Infinity, E!Infinity
<1>2. Repeat!Selected = E!Selected
  <2>1. \A S : Repeat!Cardinality(S) = E!Cardinality(S)
    BY Zenon DEF Repeat!Cardinality, E!Cardinality, Repeat!IsFiniteSet, E!IsFiniteSet
  <2>2. Repeat!Shown = E!Shown
    BY DEF Repeat!Shown, E!Shown
  <2>3. \A i : Repeat!Place(i) = E!Place(i)
    <3> SUFFICES ASSUME NEW i PROVE Repeat!Place(i) = E!Place(i)
      OBVIOUS
    <3>1. {j \in Repeat!Shown : Repeat!Before(j, i)} = {j \in E!Shown : E!Before(j, i)}
      BY <2>2 DEF Repeat!Before, E!Before
    <3>2. QED
      BY <2>1, <3>1, Zenon DEF Repeat!Place, E!Place
  <2>4. \A k : (CHOOSE i \in Repeat!Shown : Repeat!Place(i) = k) = (CHOOSE i \in E!Shown : E!Place(i) = k)
    BY <2>2, <2>3, Zenon
  <2>5. DOMAIN Repeat!Selected = DOMAIN E!Selected
    BY <2>1, <2>2 DEF Repeat!Selected, E!Selected
  <2>6. \A k \in DOMAIN E!Selected : Repeat!Selected[k] = E!Selected[k]
    BY <2>1, <2>2, <2>4 DEF Repeat!Selected, E!Selected
  <2>7. /\ Repeat!Selected = [k \in DOMAIN Repeat!Selected |-> Repeat!Selected[k]]
        /\ E!Selected = [k \in DOMAIN E!Selected |-> E!Selected[k]]
    BY DEF Repeat!Selected, E!Selected
  <2>8. QED
    BY <2>5, <2>6, <2>7
<1>3. Repeat!RenderItems => E!RenderItems
  <2>1. Repeat!Limited = E!Limited /\ \A f : Repeat!Range(f) = E!Range(f)
    BY <1>2 DEF Repeat!Limited, E!Limited, Repeat!Range, E!Range
  <2>2. Repeat!Refreshed = E!Refreshed
    BY <2>1 DEF Repeat!Refreshed, E!Refreshed
  <2>3. \A i : (CHOOSE k \in DOMAIN Repeat!Limited : Repeat!Limited[k] = i)
               = (CHOOSE k \in DOMAIN E!Limited : E!Limited[k] = i)
    BY <2>1, Zenon
  <2>4. [i \in Range(Repeat!Limited) |-> CHOOSE k \in DOMAIN Repeat!Limited : Repeat!Limited[k] = i]
        = [i \in Range(E!Limited) |-> CHOOSE k \in DOMAIN E!Limited : E!Limited[k] = i]
    BY <2>1, <2>3
  <2>5. \A f : Repeat!Range(f) = Range(f)
    BY DEF Repeat!Range, Range
  <2>6. QED
    BY <2>1, <2>2, <2>4, <2>5 DEF Repeat!RenderItems, E!RenderItems
<1>4. Repeat!RepeatNext => E!RepeatNext
  BY <1>3 DEF Repeat!RepeatNext, E!RepeatNext, Repeat!ItemsChange, E!ItemsChange,
         Repeat!Arrays, E!Arrays, Repeat!FilterChanges, E!FilterChanges,
         Repeat!SortChanges, E!SortChanges, Repeat!ItemChanges, E!ItemChanges,
         Repeat!Found, E!Found, Repeat!Given, E!Given, Repeat!RequestChunk, E!RequestChunk,
         Repeat!TryRenderChunk, E!TryRenderChunk, Repeat!RenderChunk, E!RenderChunk, Repeat!Infinity, E!Infinity
<1>5. UNCHANGED pool => UNCHANGED E!repeatVars
  BY DEF pool, E!repeatVars
<1>6. E!InstancesAgree /\ E!ReplacedComes /\ E!AllShown
      <=> Repeat!InstancesAgree /\ Repeat!ReplacedComes /\ Repeat!AllShown
  BY <1>2 DEF E!InstancesAgree, Repeat!InstancesAgree, E!ReplacedComes, Repeat!ReplacedComes,
              E!AllShown, Repeat!AllShown
<1>7. E!RepeatTypeOK <=> Repeat!RepeatTypeOK
  BY DEF E!RepeatTypeOK, Repeat!RepeatTypeOK, E!Arrays, Repeat!Arrays
<1>8. QED
  BY <1>1, <1>4, <1>5, <1>6, <1>7

LEMMA DomIfIsRun ==
  /\ If!DomIfInit => E!DomIfInit
  /\ If!DomIfNext \/ UNCHANGED pool => [E!DomIfNext]_(E!domIfVars)
  /\ E!DomIfTypeOK <=> If!DomIfTypeOK
  /\ E!ShowsHost /\ E!RestampRemoves <=> If!ShowsHost /\ If!RestampRemoves
<1>1. If!DomIfInit => E!DomIfInit
  BY DEF If!DomIfInit, E!DomIfInit
<1>2. If!DomIfNext => E!DomIfNext
  BY DEF If!DomIfNext, E!DomIfNext, If!SetIf, E!SetIf, If!SetRestamp, E!SetRestamp,
         If!OuterShowHide, E!OuterShowHide, If!HostChanges, E!HostChanges, If!Detach, E!Detach,
         If!Attach, E!Attach, If!Render, E!Render, If!Ensured, E!Ensured, If!Stamped, E!Stamped,
         If!SetText, E!SetText, If!ShowHide, E!ShowHide
<1>3. UNCHANGED pool => UNCHANGED E!domIfVars
  BY DEF pool, E!domIfVars
<1>4. E!ShowsHost /\ E!RestampRemoves <=> If!ShowsHost /\ If!RestampRemoves
  BY DEF E!ShowsHost, E!RestampRemoves, If!ShowsHost, If!RestampRemoves
<1>5. E!DomIfTypeOK <=> If!DomIfTypeOK
  BY DEF E!DomIfTypeOK, If!DomIfTypeOK, E!Instances, If!Instances
<1>6. QED
  BY <1>1, <1>2, <1>3, <1>4, <1>5

(* What the constants of the run have to be for the theorems.               *)
LEMMA ConstantsOfParts ==
  E!RepeatConstants /\ None \notin E!AnyInstance
<1>1. E!RepeatConstants
  BY DEF E!RepeatConstants
<1>2. E!AnyInstance = [data : {"x", "y", ""}, text : {"x", "y", ""}, kept : {"x", "y", ""}, hide : BOOLEAN]
  <2>1. {"x", "y"} \cup {""} = {"x", "y", ""}
    OBVIOUS
  <2>2. QED
    BY <2>1 DEF E!AnyInstance
<1>3. QED
  BY <1>1, <1>2, NoneIsNoInstance

(* What ElementProofs says of the callbacks of a render, of a repeated and  *)
(* of a conditional part, as they are run.                                  *)
ElementsKept ==
    /\ part = "render" => E!RenderTypeOK /\ E!NoneIsLeft
    /\ part = "dom-repeat" => E!RepeatTypeOK /\ E!InstancesAgree /\ E!ReplacedComes /\ E!AllShown
    /\ part = "dom-if" => E!DomIfTypeOK /\ E!ShowsHost /\ E!RestampRemoves

LEMMA ElementsAreKept == Spec => []ElementsKept
<1> DEFINE rendering == part = "render"
           repeating == part = "dom-repeat"
           choosing == part = "dom-if"
           Called == E!RenderTypeOK /\ E!NoneIsLeft
           Repeated == E!RepeatTypeOK /\ E!InstancesAgree /\ E!ReplacedComes /\ E!AllShown
           Chosen == E!DomIfTypeOK /\ E!ShowsHost /\ E!RestampRemoves
<1>1. E!RenderSpec => []Called
  <2>1. 2 \in Nat
    OBVIOUS
  <2>2. QED
    BY <2>1, E!RenderLeavesNone
<1>2. E!RepeatSpec => []Repeated
  BY ConstantsOfParts, E!RepeatShowsAll
<1>3. E!DomIfSpec => []Chosen
  BY ConstantsOfParts, E!DomIfShowsHost
<1>4. Init => /\ rendering => E!RenderInit
              /\ repeating => E!RepeatInit
              /\ choosing => E!DomIfInit
  BY RenderIsRun, RepeatIsRun, DomIfIsRun DEF Init
<1>5. [Next]_vars => /\ rendering => [E!RenderNext]_(E!renderVars)
                     /\ repeating => [E!RepeatNext]_(E!repeatVars)
                     /\ choosing => [E!DomIfNext]_(E!domIfVars)
  BY PartMoves, RenderIsRun, RepeatIsRun, DomIfIsRun
<1>6. [Next]_vars => /\ (rendering => rendering') /\ (~rendering => ~rendering')
                     /\ (repeating => repeating') /\ (~repeating => ~repeating')
                     /\ (choosing => choosing') /\ (~choosing => ~choosing')
  BY PartStays
<1>7. (rendering => Called) /\ (repeating => Repeated) /\ (choosing => Chosen) => ElementsKept
  BY DEF ElementsKept
<1>8. Spec => [](rendering => Called)
  BY <1>1, <1>4, <1>5, <1>6, PTL DEF Spec, E!RenderSpec
<1>9. Spec => [](repeating => Repeated)
  BY <1>2, <1>4, <1>5, <1>6, PTL DEF Spec, E!RepeatSpec
<1>10. Spec => [](choosing => Chosen)
  BY <1>3, <1>4, <1>5, <1>6, PTL DEF Spec, E!DomIfSpec
<1>11. QED
  BY <1>7, <1>8, <1>9, <1>10, PTL

(* cloud-dashboard.js:13640-13684: a callback that waits for a render has a *)
(* frame, a timeout or a loop that will come to it.  17302-17310,           *)
(* 17356-17378, 17416, 17450-17479, 17571-17579: when nothing is to come    *)
(* all items that pass are shown, in order, each instance with its item;    *)
(* a render asked for by a listener of a render, that the next chunk took   *)
(* the place of, is made up for by that chunk.  17772-17866: a conditional  *)
(* part is seen exactly when it should be and shows the host's value, also  *)
(* if that changed while it was hidden.                                     *)
THEOREM LibraryRenderedIsCurrent == Spec => []RenderedIsCurrent
<1>1. ElementsKept => RenderedIsCurrent
  BY RenderIsRun, RepeatIsRun, DomIfIsRun DEF ElementsKept, RenderedIsCurrent
<1>2. QED
  BY <1>1, ElementsAreKept, PTL

(* cloud-dashboard.js:7659-7664,7829-7834,12437-12520: the timers and the   *)
(* queue agree in the run as well, whichever part it is about.              *)
THEOREM LibraryQueueAgrees == Spec => []QueueAgrees
<1>1. Init => MicroInit
  BY DEF Init
<1>2. [Next]_vars => [MicroNext]_microVars
  BY DEF Next, In, vars
<1>3. QED
  BY <1>1, <1>2, MicroQueueAgrees, PTL DEF Spec, MicroSpec

G == INSTANCE SpliceProofs WITH
    Nodes <- {"n", "m"}, Slot <- "slot", MaxNodes <- 3,
    children <- s1, assigned <- s2, records <- s3, event <- s4, listened <- s5, effective <- s6,
    scheduled <- s7, task <- s8, connected <- s9, known <- s10, missed <- s11,
    Pool <- {"x", "y", "z"}, NoItem <- None, MaxItems <- 3,
    multi <- s1, toggle <- s2, array <- s3, selection <- s4, selected <- s5, links <- s6

(* The splices of the run are those of the theorems.                        *)
LEMMA SplicesAreRun ==
  /\ \A a, b : Observer!CalculateSplices(a, b) = G!CalculateSplices(a, b)
  /\ \A s, a, b : Observer!AllSplices(s, a, b) = G!AllSplices(s, a, b)
  /\ \A s, a, b : Observer!Matches(s, a, b) <=> G!Matches(s, a, b)
  /\ \A s : Observer!Edits(s) = G!Edits(s)
  /\ \A a, b : Observer!LongestCommon(a, b) = G!LongestCommon(a, b)
<1>1. \A a, b : Observer!SharedLengths(a, b) = G!SharedLengths(a, b)
  <2>1. \A a, b, n : Observer!SharedPrefix(a, b, n) = G!SharedPrefix(a, b, n)
    BY DEF Observer!SharedPrefix, G!SharedPrefix, Observer!Max, G!Max
  <2>2. \A a, b, n : Observer!SharedSuffix(a, b, n) = G!SharedSuffix(a, b, n)
    BY <2>1 DEF Observer!SharedSuffix, G!SharedSuffix, Observer!Reverse, G!Reverse
  <2>3. QED
    BY <2>1, <2>2 DEF Observer!SharedLengths, G!SharedLengths, Observer!Min, G!Min
<1>2. \A a, b : Observer!SpliceOperations(a, b) = G!SpliceOperations(a, b)
  BY DEF Observer!SpliceOperations, G!SpliceOperations, Observer!EditDistances, G!EditDistances,
         Observer!Grid, G!Grid, Observer!DistanceAt, G!DistanceAt, Observer!OperationsAt, G!OperationsAt,
         Observer!Min, G!Min
<1>3. \A ops, a, start : Observer!SplicesOf(ops, a, start) = G!SplicesOf(ops, a, start)
  <2>1. \A a, b, n : Observer!NewSplice(a, b, n) = G!NewSplice(a, b, n)
    BY DEF Observer!NewSplice, G!NewSplice
  <2>2. /\ \A start : Observer!Scanned(start) = G!Scanned(start)
        /\ \A s : Observer!Closed(s) = G!Closed(s)
        /\ \A s : Observer!Opened(s) = G!Opened(s)
    BY <2>1 DEF Observer!Scanned, G!Scanned, Observer!Closed, G!Closed, Observer!Opened, G!Opened
  <2>3. \A s, op, a : Observer!Operated(s, op, a) = G!Operated(s, op, a)
    BY DEF Observer!Operated, G!Operated, Observer!Closed, G!Closed, Observer!Opened, G!Opened,
           Observer!NewSplice, G!NewSplice
  <2>4. \A ops, a, start : Observer!Scan(ops, a, start) = G!Scan(ops, a, start)
    BY <2>2, <2>3 DEF Observer!Scan, G!Scan
  <2>5. QED
    BY <2>2, <2>4 DEF Observer!SplicesOf, G!SplicesOf
<1>4. \A a, b : Observer!CalculateSplices(a, b) = G!CalculateSplices(a, b)
  <2>1. \A p, q, n : Observer!NewSplice(p, q, n) = G!NewSplice(p, q, n)
    BY DEF Observer!NewSplice, G!NewSplice
  <2> SUFFICES ASSUME NEW a, NEW b PROVE Observer!CalculateSplices(a, b) = G!CalculateSplices(a, b)
    OBVIOUS
  <2>2. PICK shared : shared = G!SharedLengths(a, b) /\ shared = Observer!SharedLengths(a, b)
    BY <1>1
  <2>3. PICK middle, was : /\ middle = SubSeq(a, shared.prefix + 1, Len(a) - shared.suffix)
                           /\ was = SubSeq(b, shared.prefix + 1, Len(b) - shared.suffix)
    OBVIOUS
  <2>4. Observer!SplicesOf(Observer!SpliceOperations(middle, was), b, shared.prefix)
        = G!SplicesOf(G!SpliceOperations(middle, was), b, shared.prefix)
    BY <1>2, <1>3
  <2>5. Observer!NewSplice(shared.prefix, was, Len(middle)) = G!NewSplice(shared.prefix, was, Len(middle))
    BY <2>1
  <2>6. Observer!CalculateSplices(a, b)
        = IF middle = <<>> /\ was = <<>> THEN <<>>
          ELSE IF middle = <<>> \/ was = <<>> THEN <<Observer!NewSplice(shared.prefix, was, Len(middle))>>
          ELSE Observer!SplicesOf(Observer!SpliceOperations(middle, was), b, shared.prefix)
    BY <2>2, <2>3, Zenon DEF Observer!CalculateSplices
  <2>7. G!CalculateSplices(a, b)
        = IF middle = <<>> /\ was = <<>> THEN <<>>
          ELSE IF middle = <<>> \/ was = <<>> THEN <<G!NewSplice(shared.prefix, was, Len(middle))>>
          ELSE G!SplicesOf(G!SpliceOperations(middle, was), b, shared.prefix)
    BY <2>2, <2>3, Zenon DEF G!CalculateSplices
  <2>8. QED
    BY <2>4, <2>5, <2>6, <2>7
<1>5. \A s, a, b : Observer!AllSplices(s, a, b) = G!AllSplices(s, a, b)
  BY DEF Observer!AllSplices, G!AllSplices, Observer!Arrays, G!Arrays, Observer!Applied, G!Applied
<1>6. \A s, a, b : Observer!Matches(s, a, b) <=> G!Matches(s, a, b)
  BY DEF Observer!Matches, G!Matches, Observer!Arrays, G!Arrays, Observer!Applied, G!Applied
<1>7. \A s : Observer!Edits(s) = G!Edits(s)
  BY DEF Observer!Edits, G!Edits
<1>8. \A a, b : Observer!LongestCommon(a, b) = G!LongestCommon(a, b)
  BY DEF Observer!LongestCommon, G!LongestCommon, Observer!Common, G!Common, Observer!Increasing,
         G!Increasing, Observer!Max, G!Max
<1>9. QED
  BY <1>4, <1>5, <1>6, <1>7, <1>8

LEMMA NodesAreRun ==
  /\ G!NodesConstants
  /\ Observer!FlatInit => G!FlatInit
  /\ Observer!FlatNext \/ UNCHANGED pool => [G!FlatNext]_(G!flatVars)
  /\ G!FlatTypeOK <=> Observer!FlatTypeOK
  /\ G!ToldAddsUp /\ G!ChangesReported <=> Observer!ToldAddsUp /\ Observer!ChangesReported
<1>1. G!NodesConstants
  BY DEF G!NodesConstants
<1>2. /\ \A f : Observer!Range(f) = G!Range(f)
      /\ Observer!HasSlot <=> G!HasSlot
  BY DEF Observer!Range, G!Range, Observer!HasSlot, G!HasSlot
<1>3. /\ Observer!Lists = G!Lists
      /\ Observer!Assignments = G!Assignments
      /\ Observer!FlattenedNodes = G!FlattenedNodes
  BY DEF Observer!Lists, G!Lists, Observer!Assignments, G!Assignments,
         Observer!FlattenedNodes, G!FlattenedNodes, Observer!FlattenSeq, G!FlattenSeq
<1>4. Observer!FlatInit => G!FlatInit
  BY <1>2 DEF Observer!FlatInit, G!FlatInit
<1>5. Observer!Report <=> G!Report
  BY <1>2, <1>3, SplicesAreRun DEF Observer!Report, G!Report, Observer!Removed, G!Removed, Observer!Added, G!Added
<1>6. Observer!FlushNodes <=> G!FlushNodes
  BY <1>2, <1>3, <1>5 DEF Observer!FlushNodes, G!FlushNodes
<1>7. Observer!FlatNext => G!FlatNext
  BY <1>2, <1>3, <1>6 DEF Observer!FlatNext, G!FlatNext, Observer!MoveChildren, G!MoveChildren,
         Observer!Assign, G!Assign, Observer!DeliverRecords, G!DeliverRecords, Observer!SlotChange, G!SlotChange,
         Observer!RunTask, G!RunTask, Observer!Disconnect, G!Disconnect, Observer!Connect, G!Connect
<1>8. UNCHANGED pool => UNCHANGED G!flatVars
  BY DEF pool, G!flatVars
<1>9. G!ToldAddsUp /\ G!ChangesReported <=> Observer!ToldAddsUp /\ Observer!ChangesReported
  BY <1>2, <1>3 DEF G!ToldAddsUp, Observer!ToldAddsUp, G!ChangesReported, Observer!ChangesReported
<1>10. G!FlatTypeOK <=> Observer!FlatTypeOK
  BY <1>2, <1>3 DEF G!FlatTypeOK, Observer!FlatTypeOK
<1>11. QED
  BY <1>1, <1>4, <1>7, <1>8, <1>9, <1>10

(* The arrays that are compared stay as they are.                           *)
Compared == part = "splices" => s1 \in Seq({"x", "y", "z"}) /\ s2 \in Seq({"x", "y", "z"})

LEMMA ComparedAreExact ==
  ASSUME Compared, part = "splices"
  PROVE  LET splices == Observer!CalculateSplices(s1, s2)
         IN /\ Observer!AllSplices(splices, s1, s2) = s1
            /\ Observer!Matches(splices, s1, s2)
            /\ Observer!Edits(splices) = Len(s1) + Len(s2) - 2 * Observer!LongestCommon(s1, s2)
<1>1. s1 \in Seq({"x", "y", "z"}) /\ s2 \in Seq({"x", "y", "z"})
  BY DEF Compared
<1>2. PICK T : T = G!CalculateSplices(s1, s2)
  OBVIOUS
<1>3. /\ G!AllSplices(T, s1, s2) = s1
      /\ G!Matches(T, s1, s2)
      /\ G!Edits(T) = Len(s1) + Len(s2) - 2 * G!LongestCommon(s1, s2)
  BY <1>1, <1>2, G!CalculatedAreExact
<1>4. QED
  BY <1>2, <1>3, SplicesAreRun

(* cloud-dashboard.js:13797-14025: the splices between two arrays, made one *)
(* after another, lead from the old one to the current one, each takes out  *)
(* what it says, and they take out and put in no more than they must.       *)
(* 14168-14284: what the observer of nodes was told by such splices adds up *)
(* to the nodes that are there.                                             *)
THEOREM LibrarySplicesAreExact == Spec => []SplicesAreExact
<1> DEFINE observing == part = "nodes"
           Reported == G!FlatTypeOK /\ G!ToldAddsUp /\ G!ChangesReported
<1>1. G!FlatSpec => []Reported
  BY NodesAreRun, G!NodesAreReported
<1>2. Init => Compared /\ (observing => G!FlatInit)
  <2>1. ASSUME Init, part = "splices" PROVE s1 \in Seq({"x", "y", "z"}) /\ s2 \in Seq({"x", "y", "z"})
    <3>1. s1 \in Arrays4 /\ s2 \in Old4
      BY <2>1 DEF Init
    <3>2. PICK m \in 0 .. 4 : s1 \in [1 .. m -> {"x", "y", "z"}]
      BY <3>1 DEF Arrays4
    <3>3. PICK n \in 0 .. 3 : s2 \in [1 .. n -> {"x", "y", "z"}]
      BY <3>1 DEF Old4
    <3>4. m \in Nat /\ n \in Nat
      OBVIOUS
    <3>5. QED
      BY <3>2, <3>3, <3>4
  <2>2. QED
    BY <2>1, NodesAreRun DEF Init, Compared
<1>3. [Next]_vars => /\ observing => [G!FlatNext]_(G!flatVars)
                     /\ Compared => Compared'
                     /\ (observing => observing') /\ (~observing => ~observing')
  <2>1. [Next]_vars => (Compared => Compared')
    BY PartStays, PartMoves DEF Compared, pool
  <2>2. QED
    BY <2>1, PartStays, PartMoves, NodesAreRun
<1>4. Compared /\ (observing => Reported) => SplicesAreExact
  BY ComparedAreExact, NodesAreRun DEF SplicesAreExact
<1>5. Spec => []Compared
  BY <1>2, <1>3, PTL DEF Spec
<1>6. Spec => [](observing => Reported)
  BY <1>1, <1>2, <1>3, PTL DEF Spec, G!FlatSpec
<1>7. QED
  BY <1>4, <1>5, <1>6, PTL

-----------------------------------------------------------------------------
(* The array selector of the run, and its splices.                          *)
LEMMA SelectorSplicesAreRun ==
  \A a, b : Selector!CalculateSplices(a, b) = G!CalculateSplices(a, b)
<1>1. \A a, b : Selector!SharedLengths(a, b) = G!SharedLengths(a, b)
  <2>1. \A a, b, n : Selector!SharedPrefix(a, b, n) = G!SharedPrefix(a, b, n)
    BY DEF Selector!SharedPrefix, G!SharedPrefix, Selector!Max, G!Max
  <2>2. \A a, b, n : Selector!SharedSuffix(a, b, n) = G!SharedSuffix(a, b, n)
    BY <2>1 DEF Selector!SharedSuffix, G!SharedSuffix, Selector!Reverse, G!Reverse
  <2>3. QED
    BY <2>1, <2>2 DEF Selector!SharedLengths, G!SharedLengths, Selector!Min, G!Min
<1>2. \A a, b : Selector!SpliceOperations(a, b) = G!SpliceOperations(a, b)
  BY DEF Selector!SpliceOperations, G!SpliceOperations, Selector!EditDistances, G!EditDistances,
         Selector!Grid, G!Grid, Selector!DistanceAt, G!DistanceAt, Selector!OperationsAt, G!OperationsAt,
         Selector!Min, G!Min
<1>3. \A ops, a, start : Selector!SplicesOf(ops, a, start) = G!SplicesOf(ops, a, start)
  <2>1. \A a, b, n : Selector!NewSplice(a, b, n) = G!NewSplice(a, b, n)
    BY DEF Selector!NewSplice, G!NewSplice
  <2>2. /\ \A start : Selector!Scanned(start) = G!Scanned(start)
        /\ \A s : Selector!Closed(s) = G!Closed(s)
        /\ \A s : Selector!Opened(s) = G!Opened(s)
    BY <2>1 DEF Selector!Scanned, G!Scanned, Selector!Closed, G!Closed, Selector!Opened, G!Opened
  <2>3. \A s, op, a : Selector!Operated(s, op, a) = G!Operated(s, op, a)
    BY DEF Selector!Operated, G!Operated, Selector!Closed, G!Closed, Selector!Opened, G!Opened,
           Selector!NewSplice, G!NewSplice
  <2>4. \A ops, a, start : Selector!Scan(ops, a, start) = G!Scan(ops, a, start)
    BY <2>2, <2>3 DEF Selector!Scan, G!Scan
  <2>5. QED
    BY <2>2, <2>4 DEF Selector!SplicesOf, G!SplicesOf
<1>4. \A a, b : Selector!CalculateSplices(a, b) = G!CalculateSplices(a, b)
  <2>1. \A p, q, n : Selector!NewSplice(p, q, n) = G!NewSplice(p, q, n)
    BY DEF Selector!NewSplice, G!NewSplice
  <2> SUFFICES ASSUME NEW a, NEW b PROVE Selector!CalculateSplices(a, b) = G!CalculateSplices(a, b)
    OBVIOUS
  <2>2. PICK shared : shared = G!SharedLengths(a, b) /\ shared = Selector!SharedLengths(a, b)
    BY <1>1
  <2>3. PICK middle, was : /\ middle = SubSeq(a, shared.prefix + 1, Len(a) - shared.suffix)
                           /\ was = SubSeq(b, shared.prefix + 1, Len(b) - shared.suffix)
    OBVIOUS
  <2>4. Selector!SplicesOf(Selector!SpliceOperations(middle, was), b, shared.prefix)
        = G!SplicesOf(G!SpliceOperations(middle, was), b, shared.prefix)
    BY <1>2, <1>3
  <2>5. Selector!NewSplice(shared.prefix, was, Len(middle)) = G!NewSplice(shared.prefix, was, Len(middle))
    BY <2>1
  <2>6. Selector!CalculateSplices(a, b)
        = IF middle = <<>> /\ was = <<>> THEN <<>>
          ELSE IF middle = <<>> \/ was = <<>> THEN <<Selector!NewSplice(shared.prefix, was, Len(middle))>>
          ELSE Selector!SplicesOf(Selector!SpliceOperations(middle, was), b, shared.prefix)
    BY <2>2, <2>3, Zenon DEF Selector!CalculateSplices
  <2>7. G!CalculateSplices(a, b)
        = IF middle = <<>> /\ was = <<>> THEN <<>>
          ELSE IF middle = <<>> \/ was = <<>> THEN <<G!NewSplice(shared.prefix, was, Len(middle))>>
          ELSE G!SplicesOf(G!SpliceOperations(middle, was), b, shared.prefix)
    BY <2>2, <2>3, Zenon DEF G!CalculateSplices
  <2>8. QED
    BY <2>4, <2>5, <2>6, <2>7
<1>5. QED
  BY <1>4

LEMMA SelectorIsRun ==
  /\ G!SelectorConstants
  /\ Selector!SelectorInit => G!SelectorInit
  /\ Selector!SelectorNext \/ UNCHANGED pool => [G!SelectorNext]_(G!selectorVars)
  /\ G!SelectedAgrees /\ G!IndicesAgree <=> Selector!SelectedAgrees /\ Selector!IndicesAgree
<1>1. G!SelectorConstants
  BY DEF G!SelectorConstants
<1>2. /\ \A f : Selector!Range(f) = G!Range(f)
      /\ \A map : Selector!Keys(map) = G!Keys(map)
      /\ \A map : Selector!Remaining(map) = G!Remaining(map)
      /\ \A seq, k : Selector!Without(seq, k) = G!Without(seq, k)
      /\ Selector!ItemArrays = G!ItemArrays
  BY DEF Selector!Range, G!Range, Selector!Keys, G!Keys, Selector!Remaining, G!Remaining,
         Selector!Without, G!Without, Selector!ItemArrays, G!ItemArrays
<1>3. /\ \A map : Selector!LinksOf(map) = G!LinksOf(map)
      /\ \A map : Selector!Chosen(map) = G!Chosen(map)
      /\ \A item : Selector!IsSelected(item) <=> G!IsSelected(item)
  <2>1. ASSUME NEW map PROVE Selector!LinksOf(map) = G!LinksOf(map)
    <3> DEFINE By(there) == IF ~s1 THEN <<>>
                  ELSE [i \in {there[k].idx : k \in DOMAIN there} |->
                           CHOOSE k \in DOMAIN there : there[k].idx = i]
    <3>1. /\ Selector!LinksOf(map) = By(Selector!Remaining(map))
          /\ G!LinksOf(map) = By(G!Remaining(map))
      BY Zenon DEF Selector!LinksOf, G!LinksOf
    <3> HIDE DEF By
    <3>2. QED
      BY <1>2, <3>1
  <2>2. \A map : Selector!Chosen(map) = G!Chosen(map)
    BY <1>2 DEF Selector!Chosen, G!Chosen
  <2>3. ASSUME NEW item PROVE Selector!IsSelected(item) <=> G!IsSelected(item)
    BY <1>2, Zenon DEF Selector!IsSelected, G!IsSelected
  <2>4. QED
    BY <2>1, <2>2, <2>3
<1>4. \A splices, items : Selector!AllSpliced(splices, items) = G!AllSpliced(splices, items)
  <2>1. \A map, s : Selector!Shifted(map, s) = G!Shifted(map, s)
    BY DEF Selector!Shifted, G!Shifted
  <2>2. \A map, s, items : Selector!Spliced(map, s, items) = G!Spliced(map, s, items)
    BY <2>1 DEF Selector!Spliced, G!Spliced
  <2>3. QED
    BY <2>2 DEF Selector!AllSpliced, G!AllSpliced
<1>5. \A splices, items : Selector!ApplySplices(splices, items) <=> G!ApplySplices(splices, items)
  BY <1>2, <1>3, <1>4 DEF Selector!ApplySplices, G!ApplySplices
<1>6. \A item : Selector!Deselect(item) <=> G!Deselect(item)
  BY <1>2, <1>3 DEF Selector!Deselect, G!Deselect
<1>7. Selector!SelectorInit => G!SelectorInit
  BY <1>2 DEF Selector!SelectorInit, G!SelectorInit
<1>8. \A items : Selector!SetArray(items) <=> G!SetArray(items)
  BY <1>5, SelectorSplicesAreRun DEF Selector!SetArray, G!SetArray
<1>9. \A index, count, added : Selector!SpliceArray(index, count, added) <=> G!SpliceArray(index, count, added)
  <2>1. \A index, removed, n : Selector!NewSplice(index, removed, n) = G!NewSplice(index, removed, n)
    BY DEF Selector!NewSplice, G!NewSplice
  <2>2. QED
    BY <1>2, <1>5, <2>1 DEF Selector!SpliceArray, G!SpliceArray
<1>10. /\ Selector!SetMulti <=> G!SetMulti
       /\ \A item : Selector!DeselectItem(item) <=> G!DeselectItem(item)
       /\ \A idx : Selector!SelectIndex(idx) <=> G!SelectIndex(idx)
       /\ \A idx, item : Selector!SetItem(idx, item) <=> G!SetItem(idx, item)
  BY <1>2, <1>3, <1>6 DEF Selector!SetMulti, G!SetMulti, Selector!DeselectItem, G!DeselectItem,
     Selector!SelectIndex, G!SelectIndex, Selector!SetItem, G!SetItem
<1>11. Selector!SelectorNext => G!SelectorNext
  BY <1>2, <1>8, <1>9, <1>10 DEF Selector!SelectorNext, G!SelectorNext
<1>12. UNCHANGED pool => UNCHANGED G!selectorVars
  BY DEF pool, G!selectorVars
<1>13. G!SelectedAgrees /\ G!IndicesAgree <=> Selector!SelectedAgrees /\ Selector!IndicesAgree
  BY <1>3 DEF G!SelectedAgrees, Selector!SelectedAgrees, G!IndicesAgree, Selector!IndicesAgree
<1>14. QED
  BY <1>1, <1>7, <1>11, <1>12, <1>13

(* The paths of the run: three ends of links, none below another.           *)
PathNames == {"items", "0", "selected", "copy", "name"}

LEMMA PathsHaveConstants == F!PathsConstants(PathNames)
<1>1. PICK x, y, z : x = <<"items", "0">> /\ y = <<"selected">> /\ z = <<"copy">>
  OBVIOUS
<1>2. /\ x \in Seq(PathNames) /\ Len(x) = 2 /\ x[1] = "items"
      /\ y \in Seq(PathNames) /\ Len(y) = 1 /\ y[1] = "selected"
      /\ z \in Seq(PathNames) /\ Len(z) = 1 /\ z[1] = "copy"
      /\ <<"name">> \in Seq(PathNames) /\ <<>> \in Seq(PathNames)
  <2>1. /\ \A S : \A a, b \in S : <<a, b>> \in Seq(S) /\ Len(<<a, b>>) = 2 /\ <<a, b>>[1] = a
        /\ \A S : \A a \in S : <<a>> \in Seq(S) /\ Len(<<a>>) = 1 /\ <<a>>[1] = a
        /\ \A S : <<>> \in Seq(S)
    OBVIOUS
  <2>2. /\ "items" \in PathNames /\ "0" \in PathNames /\ "selected" \in PathNames
        /\ "copy" \in PathNames /\ "name" \in PathNames
    BY DEF PathNames
  <2>3. QED
    BY <1>1, <2>1, <2>2
<1>3. PICK S : S = {x, y, z}
  OBVIOUS
<1>4. IsFiniteSet(S) /\ Cardinality(S) < 4
  <2>1. IsFiniteSet({x}) /\ Cardinality({x}) = 1
    BY FS_Singleton
  <2>2. IsFiniteSet({x} \cup {y}) /\ Cardinality({x} \cup {y}) <= 2 /\ Cardinality({x} \cup {y}) \in Nat
    BY <2>1, FS_AddElement
  <2>3. /\ IsFiniteSet(({x} \cup {y}) \cup {z})
        /\ Cardinality(({x} \cup {y}) \cup {z}) <= 3 /\ Cardinality(({x} \cup {y}) \cup {z}) \in Nat
    BY <2>2, FS_AddElement
  <2>4. ({x} \cup {y}) \cup {z} = S
    BY <1>3
  <2>5. QED
    BY <2>3, <2>4
<1>5. ASSUME NEW a \in S, NEW b \in S, F!IsPrefix(a, b) PROVE a = b
  <2>1. a \in Seq(PathNames) /\ b \in Seq(PathNames) /\ 1 <= Len(a) /\ Len(a) <= Len(b) /\ Len(a) \in Nat
    BY <1>2, <1>3, <1>5 DEF F!IsPrefix
  <2>2. SubSeq(a, 1, Len(a)) = SubSeq(b, 1, Len(a))
    BY <1>5 DEF F!IsPrefix
  <2>3. SubSeq(a, 1, Len(a))[1] = a[1] /\ SubSeq(b, 1, Len(a))[1] = b[1]
    BY <2>1
  <2>4. a[1] = b[1]
    BY <2>2, <2>3
  <2>5. QED
    BY <1>2, <1>3, <2>4
<1>6. S \subseteq Seq(PathNames)
  BY <1>2, <1>3
<1>7. {<<"items", "0">>, <<"selected">>, <<"copy">>} = S
  BY <1>1, <1>3
<1>8. {<<>>, <<"name">>} \subseteq Seq(PathNames)
  BY <1>2
<1>9. 4 \in Nat /\ 3 \in Nat
  OBVIOUS
<1> HIDE DEF PathNames
<1>10. \A a, b \in S : F!IsPrefix(a, b) => a = b
  BY <1>5
<1>11. F!IsFiniteSet(S) /\ F!Cardinality(S) < 4
  BY <1>4 DEF F!IsFiniteSet, F!Cardinality, IsFiniteSet, Cardinality
<1>12. QED
  BY <1>6, <1>7, <1>8, <1>9, <1>10, <1>11 DEF F!PathsConstants

LEMMA PathsAreRun ==
  /\ Path!PathInit => F!PathInit
  /\ Path!PathNext \/ UNCHANGED pool => [F!PathNext]_(F!pathVars)
  /\ F!TellingEnds /\ F!Mirrored <=> Path!TellingEnds /\ Path!Mirrored
<1>1. Path!Nothing = F!Nothing
  BY DEF Path!Nothing, F!Nothing
<1>2. Path!AtRest <=> F!AtRest
  BY <1>1 DEF Path!AtRest, F!AtRest
<1>3. /\ \A a, b : Path!IsDescendant(a, b) <=> F!IsDescendant(a, b)
      /\ \A a, b, c : Path!Translate(a, b, c) = F!Translate(a, b, c)
  BY DEF Path!IsDescendant, F!IsDescendant, Path!IsStrictPrefix, F!IsStrictPrefix, Path!IsPrefix, F!IsPrefix,
         Path!Translate, F!Translate
<1>4. \A S : Path!SetToSeq(S) = F!SetToSeq(S)
  <2>1. \A S : Path!Cardinality(S) = F!Cardinality(S)
    BY Zenon DEF Path!Cardinality, F!Cardinality
  <2> DEFINE By(S, n) == CHOOSE f \in [1 .. n -> S] : \A a, b \in DOMAIN f : f[a] = f[b] => a = b
  <2>2. \A S : Path!SetToSeq(S) = By(S, Path!Cardinality(S)) /\ F!SetToSeq(S) = By(S, F!Cardinality(S))
    BY Zenon DEF Path!SetToSeq, F!SetToSeq, Path!IsInjective, F!IsInjective
  <2> HIDE DEF By
  <2>3. QED
    BY <2>1, <2>2
<1>5. \A path : Path!LinksOn(path) = F!LinksOn(path)
  BY <1>3 DEF Path!LinksOn, F!LinksOn
<1>6. \A path, to : Path!LinkedTo(path, to) = F!LinkedTo(path, to)
  BY <1>3 DEF Path!LinkedTo, F!LinkedTo
<1>7. \A call : Path!FromLinks(call) = F!FromLinks(call)
  BY <1>4, <1>5, <1>6 DEF Path!FromLinks, F!FromLinks
<1>8. /\ \A call : Path!With(call) = F!With(call)
      /\ \A paths, value : Path!Calls(paths, value) = F!Calls(paths, value)
  BY DEF Path!With, F!With, Path!Calls, F!Calls
<1>9. /\ Path!SetPendingPath <=> F!SetPendingPath
      /\ Path!FlushPaths <=> F!FlushPaths
  BY <1>1, <1>7, <1>8 DEF Path!SetPendingPath, F!SetPendingPath, Path!FlushPaths, F!FlushPaths
<1>10. /\ \A to, from : Path!LinkPaths(to, from) <=> F!LinkPaths(to, from)
       /\ \A to : Path!UnlinkPaths(to) <=> F!UnlinkPaths(to)
       /\ \A path, value : Path!NotifyPath(path, value) <=> F!NotifyPath(path, value)
  BY <1>2 DEF Path!LinkPaths, F!LinkPaths, Path!UnlinkPaths, F!UnlinkPaths, Path!Restrict, F!Restrict,
              Path!NotifyPath, F!NotifyPath
<1>11. /\ \A seq, from, to : Path!Piece(seq, from, to) = F!Piece(seq, from, to)
       /\ \A seq, index, removed, added :
             Path!Applied(seq, index, removed, added) = F!Applied(seq, index, removed, added)
  BY DEF Path!Piece, F!Piece, Path!Applied, F!Applied
<1>12. \A new, index, added, removed :
          Path!NotifySplice(new, index, added, removed) <=> F!NotifySplice(new, index, added, removed)
  BY <1>11 DEF Path!NotifySplice, F!NotifySplice
<1>13. /\ \A item : Path!Push(item) <=> F!Push(item)
       /\ \A item : Path!Unshift(item) <=> F!Unshift(item)
       /\ Path!Pop <=> F!Pop
       /\ Path!Shift <=> F!Shift
  BY <1>12 DEF Path!Push, F!Push, Path!Unshift, F!Unshift, Path!Pop, F!Pop, Path!Shift, F!Shift,
               Path!Front, F!Front, Path!Last, F!Last
<1>14. \A start, count, items : Path!Splice(start, count, items) <=> F!Splice(start, count, items)
  <2>1. /\ \A start : Path!Start(start) = F!Start(start)
        /\ \A start, count : Path!Count(start, count) = F!Count(start, count)
    BY DEF Path!Start, F!Start, Path!Count, F!Count
  <2>2. SUFFICES ASSUME NEW start, NEW count, NEW items
                 PROVE  Path!Splice(start, count, items) <=> F!Splice(start, count, items)
    OBVIOUS
  <2>3. PICK index : index = IF start < 0 THEN Len(s4) + start ELSE start
    OBVIOUS
  <2>4. PICK at, n : at = F!Start(index) /\ n = F!Count(index, count)
    OBVIOUS
  <2>5. at = Path!Start(index) /\ n = Path!Count(index, count)
    BY <2>1, <2>4
  <2>6. PICK removed : removed = SubSeq(s4, at + 1, at + n)
    OBVIOUS
  <2>7. PICK new : new = F!Applied(s4, at, removed, items) /\ new = Path!Applied(s4, at, removed, items)
    BY <1>11
  <2>8. Path!NotifySplice(new, index, Len(items), removed) <=> F!NotifySplice(new, index, Len(items), removed)
    BY <1>12
  <2> DEFINE Allowed == /\ items # <<>> \/ removed # <<>>
                        /\ Len(s4) + Len(items) - Len(removed) <= 3
                        /\ \/ start \in -Len(s4) .. Len(s4) /\ UNCHANGED s6
                           \/ start \notin -Len(s4) .. Len(s4) /\ s6 < 1 /\ s6' = s6 + 1
  <2>9. Path!Splice(start, count, items) <=> Allowed /\ Path!NotifySplice(new, index, Len(items), removed)
    BY <2>3, <2>5, <2>6, <2>7, Zenon DEF Path!Splice, Path!InArray
  <2>10. F!Splice(start, count, items) <=> Allowed /\ F!NotifySplice(new, index, Len(items), removed)
    BY <2>3, <2>4, <2>6, <2>7, Zenon DEF F!Splice, F!InArray
  <2>11. QED
    BY <2>8, <2>9, <2>10
<1>15. Path!Items = F!Items
  BY DEF Path!Items, F!Items
<1>16. Path!PathNext => F!PathNext
  BY <1>2, <1>9, <1>10, <1>13, <1>14, <1>15
  DEF Path!PathNext, F!PathNext, Path!ArrayChanges, F!ArrayChanges
<1>17. UNCHANGED pool => UNCHANGED F!pathVars
  BY DEF pool, F!pathVars
<1>18. Path!PathInit => F!PathInit
  BY <1>1 DEF Path!PathInit, F!PathInit
<1>19. F!TellingEnds /\ F!Mirrored <=> Path!TellingEnds /\ Path!Mirrored
  BY DEF F!TellingEnds, F!Mirrored, Path!TellingEnds, Path!Mirrored
<1>20. QED
  BY <1>16, <1>17, <1>18, <1>19

(* cloud-dashboard.js:18004-18148: a selected item is found at its index    *)
(* and linked there, whatever happens to the array, and the page is given   *)
(* these items.  10232-10255, 10712-10829: what is told of a path ends,     *)
(* though links form a ring, and who follows the splices has the array, as  *)
(* long as none started outside of it.                                      *)
THEOREM LibraryObserversAgree == Spec => []ObserversAgree
<1> DEFINE selecting == part = "selector"
           linking == part = "paths"
           Found == G!SelectedAgrees /\ G!IndicesAgree
           Followed == F!TellingEnds /\ F!Mirrored
<1>1. G!SelectorSpec => []Found
  BY SelectorIsRun, G!SelectedAreFound
<1>2. F!PathSpec => []Followed
  <2>1. F!PathSpec => [](F!TellingEnds /\ F!Mirrored) /\ [][F!LinkedTold]_(F!pathVars)
    BY PathsHaveConstants, F!PathsAreFollowed
  <2>2. QED
    BY <2>1, PTL
<1>3. Init => (selecting => G!SelectorInit) /\ (linking => F!PathInit)
  BY SelectorIsRun, PathsAreRun DEF Init
<1>4. [Next]_vars => /\ selecting => [G!SelectorNext]_(G!selectorVars)
                     /\ linking => [F!PathNext]_(F!pathVars)
                     /\ (selecting => selecting') /\ (~selecting => ~selecting')
                     /\ (linking => linking') /\ (~linking => ~linking')
  BY PartStays, PartMoves, SelectorIsRun, PathsAreRun
<1>5. (selecting => Found) /\ (linking => Followed) => ObserversAgree
  BY SelectorIsRun, PathsAreRun DEF ObserversAgree
<1>6. Spec => [](selecting => Found)
  BY <1>1, <1>3, <1>4, PTL DEF Spec, G!SelectorSpec
<1>7. Spec => [](linking => Followed)
  BY <1>2, <1>3, <1>4, PTL DEF Spec, F!PathSpec
<1>8. QED
  BY <1>5, <1>6, <1>7, PTL

-----------------------------------------------------------------------------
(* The durations as they are run.                                           *)
LEMMA DurationsHaveConstants ==
  /\ \A d \in DurationStarts \cup DurationSteps : E!IsDuration(d)
  /\ \A e \in DurationSteps : E!IsLength(e) /\ e # [months |-> 0, days |-> 0, hours |-> 0]
BY DEF DurationStarts, DurationSteps, Length, E!IsDuration, E!IsLength

LEMMA DurationsShowAlike ==
  ASSUME NEW d
  PROVE  /\ E!Bubble(d) = Dur!Bubble(d)
         /\ E!Duration(d) = Dur!Duration(d) /\ (E!NotMixed(d) <=> Dur!NotMixed(d))
         /\ E!RelativeTime(d) = Dur!RelativeTime(d) /\ E!ValueOf(d) = Dur!ValueOf(d)
         /\ E!Parts(d) = Dur!Parts(d) /\ \A e : E!AtMost(d, e) <=> Dur!AtMost(d, e)
<1>1. /\ E!PerMonth = Dur!PerMonth /\ E!PerDay = Dur!PerDay /\ E!Thresholds = Dur!Thresholds
      /\ \A a, b : E!Trunc(a, b) = Dur!Trunc(a, b)
      /\ \A a, b : E!AwayFromZero(a, b) = Dur!AwayFromZero(a, b)
      /\ \A a, b : E!Round(a, b) = Dur!Round(a, b)
  BY SMT DEF E!PerMonth, Dur!PerMonth, E!PerDay, Dur!PerDay, E!Thresholds, Dur!Thresholds, E!Trunc, Dur!Trunc,
             E!AwayFromZero, Dur!AwayFromZero, E!Round, Dur!Round
<1>2. \A a, b : E!Rem(a, b) = Dur!Rem(a, b)
  BY <1>1, SMT DEF E!Rem, Dur!Rem
<1>3. E!Duration(d) = Dur!Duration(d) /\ (E!NotMixed(d) <=> Dur!NotMixed(d))
  BY SMT DEF E!Duration, Dur!Duration, E!NotMixed, Dur!NotMixed
<1>4. E!Bubble(d) = Dur!Bubble(d)
  BY <1>1, <1>2, <1>3, SMT DEF E!Bubble, Dur!Bubble
<1>5. E!ValueOf(d) = Dur!ValueOf(d)
  BY <1>1, <1>2, SMT DEF E!ValueOf, Dur!ValueOf
<1>6. \A e : /\ E!AsHours(e) = Dur!AsHours(e) /\ E!RoundedDays(e) = Dur!RoundedDays(e)
             /\ E!RoundedMonths(e) = Dur!RoundedMonths(e) /\ E!RoundedYears(e) = Dur!RoundedYears(e)
  BY <1>1, SMT DEF E!AsHours, Dur!AsHours, E!RoundedDays, Dur!RoundedDays, E!RoundedMonths, Dur!RoundedMonths,
                   E!RoundedYears, Dur!RoundedYears
<1>7. E!Absolute(d) = Dur!Absolute(d)
  BY SMT DEF E!Absolute, Dur!Absolute
<1>8. E!RelativeTime(d) = Dur!RelativeTime(d)
  BY <1>1, <1>6, <1>7, SMT DEF E!RelativeTime, Dur!RelativeTime
<1>9. E!Parts(d) = Dur!Parts(d) /\ \A e : E!AtMost(d, e) <=> Dur!AtMost(d, e)
  BY DEF E!Parts, Dur!Parts, E!AtMost, Dur!AtMost
<1>10. QED
  BY <1>3, <1>4, <1>5, <1>8, <1>9

LEMMA DurationsAreRun ==
  /\ Dur!DurationsInit => E!DurationsInit
  /\ Dur!DurationsNext \/ UNCHANGED pool => [E!DurationsNext]_(E!durVars)
  /\ E!PartsAreProper <=> Dur!PartsAreProper
  /\ E!IsDuration(s1) /\ [E!LongerIsMore]_(E!durVars) => Dur!LongerIsMore
<1>1. Dur!DurationsInit => E!DurationsInit
  BY DEF E!DurationsInit, Dur!DurationsInit
<1>2. \A d, e, n : E!Plus(d, e, n) = Dur!Plus(d, e, n)
  BY SMT DEF E!Plus, Dur!Plus
<1>3. Dur!DurationsNext \/ UNCHANGED pool => [E!DurationsNext]_(E!durVars)
  BY <1>2 DEF E!DurationsNext, Dur!DurationsNext, E!Add, Dur!Add, E!Subtract, Dur!Subtract, E!AddSubtract,
              Dur!AddSubtract, E!durVars, pool
<1>4. E!PartsAreProper <=> Dur!PartsAreProper
  BY DurationsShowAlike DEF E!PartsAreProper, Dur!PartsAreProper
<1>5. E!LongerIsMore <=> Dur!LongerIsMore
  BY <1>2, DurationsShowAlike DEF E!LongerIsMore, Dur!LongerIsMore
<1>6. ASSUME E!IsDuration(s1), UNCHANGED E!durVars PROVE Dur!LongerIsMore
  <2> SUFFICES ASSUME NEW e \in DurationSteps, s1' = Dur!Plus(s1, e, 1) PROVE FALSE
    BY DEF Dur!LongerIsMore
  <2>1. /\ e.months \in Nat /\ e.days \in Nat /\ e.hours \in Nat
        /\ e.months # 0 \/ e.days # 0 \/ e.hours # 0
    BY DurationsHaveConstants DEF E!IsLength
  <2>2. s1.months \in Int /\ s1.days \in Int /\ s1.hours \in Int /\ s1' = s1
    BY <1>6 DEF E!IsDuration, E!durVars
  <2>3. /\ s1'.months = s1.months + 1 * e.months /\ s1'.days = s1.days + 1 * e.days
        /\ s1'.hours = s1.hours + 1 * e.hours
    BY DEF Dur!Plus
  <2>4. QED
    BY <2>1, <2>2, <2>3
<1>7. QED
  BY <1>1, <1>3, <1>4, <1>5, <1>6

(* cloud-dashboard.js:6319-6364: the conjuncts of DurationsAreRight and of  *)
(* StepsInOrder about durations: the parts that are shown have one sign and *)
(* none is too large, and a longer duration is shown, told and compared as  *)
(* no less.                                                                 *)
THEOREM LibraryDurationsAreProper ==
  Spec => /\ [](part = "durations" => Dur!PartsAreProper)
          /\ [][part = "durations" => Dur!LongerIsMore]_vars
<1> DEFINE mine == part = "durations"
           Proper == mine => Dur!PartsAreProper
           More == mine => Dur!LongerIsMore
<1>1. E!DurationsSpec => [](E!IsDuration(s1) /\ E!PartsAreProper) /\ [][E!LongerIsMore]_(E!durVars)
  BY DurationsHaveConstants, E!DurationsAreProper, E!LongerIsMoreAlways
<1>2. Init /\ mine => E!DurationsInit
  BY DurationsAreRun DEF Init
<1>3. [Next]_vars => (mine => [E!DurationsNext]_(E!durVars)) /\ (mine => mine') /\ (~mine => ~mine')
  BY PartStays, PartMoves, DurationsAreRun
<1>4. (E!IsDuration(s1) /\ E!PartsAreProper => Proper) /\ (~mine => Proper)
  BY DurationsAreRun
<1>5. (E!IsDuration(s1) /\ [E!LongerIsMore]_(E!durVars) => More) /\ (~mine => More)
  BY DurationsAreRun
<1> HIDE DEF Proper, More
<1>6. Spec => []Proper /\ [][More]_vars
  BY <1>1, <1>2, <1>3, <1>4, <1>5, PTL DEF Spec, E!DurationsSpec
<1>7. QED
  BY <1>6 DEF Proper, More

-----------------------------------------------------------------------------
(* Dates are numbers of ticks, a countdown is of the template's units.      *)
DatesTyped ==
    /\ part = "calendar" => Cal!CalendarTypeOK
    /\ part = "durations" => Dur!DurationsTypeOK
    /\ part = "format" =>
          /\ s3 \in {<<"hours", "minutes", "seconds">>, <<"days", "hours", "minutes">>, <<"minutes">>,
                    <<"weeks", "days", "minutes", "seconds">>}
          /\ Format!FormatTypeOK

(* What is split off is a natural number of one of the units.               *)
LEMMA SplitIsNumbers ==
  ASSUME s3 \in {<<"hours", "minutes", "seconds">>, <<"days", "hours", "minutes">>, <<"minutes">>,
                <<"weeks", "days", "minutes", "seconds">>},
         NEW ticks \in Nat
  PROVE  \A i \in DOMAIN Format!Split(ticks) :
            /\ Format!Split(ticks)[i].type \in DOMAIN Format!Seconds
            /\ Format!Split(ticks)[i].whole \in Nat
<1>1. \A i \in DOMAIN s3 : s3[i] \in DOMAIN Format!Seconds
  BY DEF Format!Seconds
<1>2. \A unit \in DOMAIN Format!Seconds : Format!Of(unit) \in Nat \ {0}
  BY DEF Format!Seconds, Format!Of
<1>3. \A n \in Nat, d \in Nat \ {0} : n % d \in Nat /\ n \div d \in Nat
  OBVIOUS
<1> SUFFICES ASSUME NEW i \in DOMAIN s3
             PROVE  (IF i = 1 THEN ticks ELSE ticks % Format!Of(s3[i - 1])) \div Format!Of(s3[i]) \in Nat
  BY <1>1 DEF Format!Split
<1>4. i = 1 \/ i - 1 \in DOMAIN s3
  OBVIOUS
<1>5. QED
  BY <1>1, <1>2, <1>3, <1>4

LEMMA FormatKeepsTypes ==
  ASSUME DatesTyped, part = "format", Format!FormatNext
  PROVE  s3' = s3 /\ Format!FormatTypeOK'
<1>1. /\ s1 \in Nat /\ s2 \in 0 .. 14
      /\ \A i \in DOMAIN s7 : s7[i].type \in DOMAIN Format!Seconds /\ s7[i].whole \in Nat
  BY DEF DatesTyped, Format!FormatTypeOK
<1>2. CASE Format!BubbleUp
  <2>1. UNCHANGED <<s1, s2, s3>>
    BY <1>2 DEF Format!BubbleUp, Format!settings
  <2>2. ASSUME NEW type, NEW target
        PROVE  \A i \in DOMAIN Format!Bubbled(s7, type, target) :
                  /\ Format!Bubbled(s7, type, target)[i].type \in DOMAIN Format!Seconds
                  /\ Format!Bubbled(s7, type, target)[i].whole \in Nat
    <3> SUFFICES ASSUME NEW i \in DOMAIN s7
                 PROVE  /\ Format!Bubbled(s7, type, target)[i].type \in DOMAIN Format!Seconds
                        /\ Format!Bubbled(s7, type, target)[i].whole \in Nat
      BY DEF Format!Bubbled
    <3>1. s7[i].type \in DOMAIN Format!Seconds /\ s7[i].whole \in Nat /\ s7[i].whole + 1 \in Nat
      BY <1>1
    <3>2. QED
      BY <3>1 DEF Format!Bubbled
  <2>3. s7' = s7 \/ \E type, target : s7' = Format!Bubbled(s7, type, target)
    BY <1>2 DEF Format!BubbleUp
  <2>4. QED
    BY <1>1, <2>1, <2>2, <2>3 DEF Format!FormatTypeOK
<1>3. CASE Format!Show
  BY <1>1, <1>3 DEF Format!Show, Format!settings, Format!FormatTypeOK
<1>4. CASE Format!Tick
  <2>1. /\ s1' \in Nat /\ s2' \in 0 .. 14 /\ s3' = s3 /\ s7' = Format!Split(s1 - 1) /\ s1 - 1 \in Nat
    BY <1>1, <1>4 DEF Format!Tick, Format!settings
  <2>2. QED
    BY <2>1, SplitIsNumbers DEF DatesTyped, Format!FormatTypeOK
<1>5. QED
  BY <1>2, <1>3, <1>4 DEF Format!FormatNext

LEMMA DatesKeepTypes ==
  ASSUME DatesTyped, [Next]_vars
  PROVE  DatesTyped'
<1>1. CASE UNCHANGED pool
  BY <1>1, PartStays DEF DatesTyped, pool, Cal!CalendarTypeOK, Dur!DurationsTypeOK, Format!FormatTypeOK
<1>2. CASE part = "calendar" /\ Cal!CalendarNext
  BY <1>2, PartStays DEF DatesTyped, Cal!CalendarTypeOK, Cal!CalendarNext, Cal!Later
<1>3. CASE part = "durations" /\ Dur!DurationsNext
  BY <1>3, PartStays DEF DatesTyped, Dur!DurationsTypeOK, Dur!DurationsNext, Dur!Add, Dur!Subtract,
                         Dur!AddSubtract, Dur!Plus
<1>4. CASE part = "format" /\ Format!FormatNext
  BY <1>4, PartStays, FormatKeepsTypes DEF DatesTyped
<1>5. CASE part \notin {"calendar", "durations", "format"}
  BY <1>5, PartStays DEF DatesTyped
<1>6. QED
  BY <1>1, <1>2, <1>3, <1>4, <1>5, PartMoves

LEMMA DatesStartTyped == Init => DatesTyped
<1> SUFFICES ASSUME Init PROVE DatesTyped
  OBVIOUS
<1>1. ASSUME part = "calendar" PROVE Cal!CalendarTypeOK
  <2>1. Cal!CalendarInit
    BY <1>1 DEF Init
  <2>2. DaysOfEdges \subseteq Nat
    BY DEF DaysOfEdges
  <2>3. \A d \in Nat : \A t \in 0 .. 1 : d * 2 + t \in Nat
    OBVIOUS
  <2>4. s1 \in Nat
    BY <2>1, <2>2, <2>3 DEF Cal!CalendarInit
  <2>5. QED
    BY <2>1, <2>4 DEF Cal!CalendarInit, Cal!CalendarTypeOK
<1>2. ASSUME part = "durations" PROVE Dur!DurationsTypeOK
  BY <1>2 DEF Init, Dur!DurationsInit, Dur!DurationsTypeOK, DurationStarts, Length
<1>3. ASSUME part = "format"
      PROVE  /\ s3 \in {<<"hours", "minutes", "seconds">>, <<"days", "hours", "minutes">>, <<"minutes">>,
                        <<"weeks", "days", "minutes", "seconds">>}
             /\ s1 \in Nat /\ s2 = 0 /\ s7 = Format!Split(s1)
  BY <1>3 DEF Init, Format!FormatInit
<1>4. ASSUME part = "format" PROVE Format!FormatTypeOK
  <2>1. \A i \in DOMAIN Format!Split(s1) :
            /\ Format!Split(s1)[i].type \in DOMAIN Format!Seconds
            /\ Format!Split(s1)[i].whole \in Nat
    BY <1>3, <1>4, SplitIsNumbers
  <2>2. QED
    BY <1>3, <1>4, <2>1 DEF Format!FormatTypeOK
<1>5. QED
  BY <1>1, <1>2, <1>3, <1>4 DEF DatesTyped

(* cloud-dashboard.js:7659-7664,10006-10069,13636-13651,14144-14161,        *)
(* 17219-17234,17711-17718: the parts keep their types; a callback is run   *)
(* once, no call is made to an element that is not enabled, what is nowhere *)
(* has no instance.                                                         *)
THEOREM LibraryKeepsTypes == Spec => []LibraryTypeOK
<1> DEFINE flowing == part = "flow"
           observing == part = "nodes"
           Settled == F!FlowTypeOK /\ F!Agreement /\ F!ToldLast /\ F!ComputedFirst
           Reported == G!FlatTypeOK /\ G!ToldAddsUp /\ G!ChangesReported
           Queue == MicroTypeOK /\ QueueAgrees
<1>1. /\ F!FlowSpec => []Settled
      /\ G!FlatSpec => []Reported
  BY FlowHasConstants, F!FlowIsSettled, NodesAreRun, G!NodesAreReported
<1>2. Init => MicroInit /\ (flowing => F!FlowInit) /\ (observing => G!FlatInit)
  BY FlowIsRun, NodesAreRun DEF Init
<1>3. [Next]_vars => /\ [MicroNext]_microVars
                     /\ (flowing => [F!FlowNext]_(F!flowVars))
                     /\ (observing => [G!FlatNext]_(G!flatVars))
                     /\ (flowing => flowing') /\ (~flowing => ~flowing')
                     /\ (observing => observing') /\ (~observing => ~observing')
  <2>1. [Next]_vars => [MicroNext]_microVars
    BY DEF Next, In, vars
  <2>2. QED
    BY <2>1, PartStays, PartMoves, FlowIsRun, NodesAreRun
<1>4. Spec => []Queue
  BY <1>2, <1>3, MicroQueueAgrees, PTL DEF Spec, MicroSpec
<1>5. Spec => [](flowing => Settled)
  BY <1>1, <1>2, <1>3, PTL DEF Spec, F!FlowSpec
<1>6. Spec => [](observing => Reported)
  BY <1>1, <1>2, <1>3, PTL DEF Spec, G!FlatSpec
<1>7. Spec => []DatesTyped
  BY DatesStartTyped, DatesKeepTypes, PTL DEF Spec
<1>8. Queue /\ (flowing => Settled) /\ (observing => Reported) /\ DatesTyped /\ ElementsKept
      => LibraryTypeOK
  BY FlowIsRun, NodesAreRun, RenderIsRun, RepeatIsRun, DomIfIsRun
     DEF DatesTyped, ElementsKept, LibraryTypeOK
<1>9. QED
  BY <1>4, <1>5, <1>6, <1>7, <1>8, ElementsAreKept, PTL
=============================================================================
