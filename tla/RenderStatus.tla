---------------------------- MODULE RenderStatus ----------------------------
(***************************************************************************)
(* Callbacks that are run before and after the next render.  One animation *)
(* frame is asked for when the first of them comes; it runs the first      *)
(* queue until it is empty and leaves the second to a timeout.  A caller   *)
(* of flush, a callback too, runs both at once and forgets the frame that  *)
(* is still to come.                                                       *)
(***************************************************************************)
EXTENDS Naturals, Sequences

CONSTANTS
    Callbacks,  \* what is run, each asked for once
    MaxFlushes, \* bound: the calls of flush
    MaxNested   \* bound: the loops on the stack

VARIABLES
    queues,     \* beforeRenderQueue and afterRenderQueue
    scheduled,
    frames,     \* the animation frames asked for
    timeouts,   \* the timeouts set by them
    loops,      \* the stack of what runs: a frame, a timeout with its rounds, a flush
    ran,        \* the callbacks that were run
    flushes     \* calls of flush so far

renderVars == <<queues, scheduled, frames, timeouts, loops, ran, flushes>>

RenderInit ==
    /\ queues = [before |-> <<>>, after |-> <<>>]
    /\ scheduled = FALSE
    /\ frames = 0 /\ timeouts = 0
    /\ loops = <<>>
    /\ ran = <<>> /\ flushes = 0

-----------------------------------------------------------------------------
Queued(queue) == {queue[i] : i \in DOMAIN queue}

Asked(c) == c \in Queued(queues.before) \cup Queued(queues.after) \cup Queued(ran)

(* beforeNextRender, afterNextRender: called from anywhere, a callback too. *)
NextRender(c, when) ==
    /\ ~Asked(c)
    /\ queues' = [queues EXCEPT ![when] = Append(@, c)]
    /\ scheduled' = TRUE
    /\ frames' = IF scheduled THEN frames ELSE frames + 1
    /\ UNCHANGED <<timeouts, loops, ran, flushes>>

(* An animation frame comes.                                                *)
Frame ==
    /\ loops = <<>> /\ frames > 0
    /\ frames' = frames - 1
    /\ scheduled' = FALSE
    /\ loops' = <<[kind |-> "frame", left |-> 0]>>
    /\ UNCHANGED <<queues, timeouts, ran, flushes>>

(* Its timeout ends: runQueue runs as many as there are now.                *)
Timeout ==
    /\ loops = <<>> /\ timeouts > 0
    /\ timeouts' = timeouts - 1
    /\ loops' = <<[kind |-> "timeout", left |-> Len(queues.after)]>>
    /\ UNCHANGED <<queues, scheduled, frames, ran, flushes>>

(* flush, called from anywhere, a callback too.                             *)
FlushRender ==
    /\ flushes < MaxFlushes /\ Len(loops) < MaxNested
    /\ flushes' = flushes + 1
    /\ loops' = Append(loops, [kind |-> "flush", left |-> 0])
    /\ UNCHANGED <<queues, scheduled, frames, timeouts, ran>>

-----------------------------------------------------------------------------
Top == loops[Len(loops)]

Pop == SubSeq(loops, 1, Len(loops) - 1)

(* callMethod of the first of a queue: a callback that throws is left, as   *)
(* one that returns.                                                        *)
Call(when) ==
    /\ ran' = Append(ran, Head(queues[when]))
    /\ queues' = [queues EXCEPT ![when] = Tail(@)]
    /\ UNCHANGED <<scheduled, frames, timeouts, flushes>>

(* The next round of the loop that runs.  flush empties one queue, then the *)
(* other, and starts over if the second brought new ones for the first; it  *)
(* is in the second once a callback of it ran.                              *)
RunRender ==
    /\ loops # <<>>
    /\ \/ /\ Top.kind = "frame" /\ queues.before # <<>>
          /\ Call("before") /\ UNCHANGED loops
       \/ /\ Top.kind = "timeout" /\ Top.left > 0 /\ queues.after # <<>>
          /\ Call("after") /\ loops' = [loops EXCEPT ![Len(loops)].left = @ - 1]
       \/ /\ Top.kind = "flush" /\ queues.after # <<>>
          /\ queues.before = <<>> \/ Top.left > 0
          /\ Call("after") /\ loops' = [loops EXCEPT ![Len(loops)].left = 1]
       \/ /\ Top.kind = "flush" /\ queues.before # <<>>
          /\ queues.after = <<>> \/ Top.left = 0
          /\ Call("before") /\ loops' = [loops EXCEPT ![Len(loops)].left = 0]

(* The loop ends; runQueue also when another one took what was left to it,  *)
(* by an error that is thrown outside of any try.                           *)
EndRender ==
    /\ loops # <<>>
    /\ \/ /\ Top.kind = "frame" /\ queues.before = <<>>
          /\ timeouts' = timeouts + 1
          /\ UNCHANGED scheduled
       \/ /\ Top.kind = "timeout" /\ (Top.left = 0 \/ queues.after = <<>>)
          /\ UNCHANGED <<timeouts, scheduled>>
       \/ /\ Top.kind = "flush" /\ queues.before = <<>> /\ queues.after = <<>>
          /\ scheduled' = FALSE
          /\ UNCHANGED timeouts
    /\ loops' = Pop
    /\ UNCHANGED <<queues, frames, ran, flushes>>

RenderNext ==
    \/ \E c \in Callbacks, when \in {"before", "after"} : NextRender(c, when)
    \/ Frame \/ Timeout \/ FlushRender \/ RunRender \/ EndRender

RenderSpec == RenderInit /\ [][RenderNext]_renderVars

-----------------------------------------------------------------------------
(* cloud-dashboard.js:13636-13651: the state has its type, and each         *)
(* callback is run at most once.                                            *)
RenderTypeOK ==
    /\ queues \in [{"before", "after"} -> Seq(Callbacks)]
    /\ scheduled \in BOOLEAN
    /\ frames \in Nat /\ timeouts \in Nat /\ flushes \in 0 .. MaxFlushes
    /\ \A i \in DOMAIN loops :
           loops[i] \in [kind : {"frame", "timeout", "flush"}, left : Nat]
    /\ \A i, j \in DOMAIN ran : ran[i] = ran[j] => i = j

(* cloud-dashboard.js:13640-13651,13678-13684: a callback that waits has a  *)
(* frame, a timeout or a loop that will come to it, though a flush forgets  *)
(* the frame that was asked for.                                            *)
NoneIsLeft ==
    /\ queues.before # <<>> =>
           \/ frames > 0
           \/ \E i \in DOMAIN loops : loops[i].kind \in {"frame", "flush"}
    /\ queues.after # <<>> =>
           \/ frames > 0 \/ timeouts > 0
           \/ \E i \in DOMAIN loops : loops[i].kind \in {"frame", "flush"}
           \/ \E i \in DOMAIN loops :
                  loops[i].kind = "timeout" /\ loops[i].left >= Len(queues.after)
=============================================================================
