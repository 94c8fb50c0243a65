---------------------------- MODULE ElementProofs ----------------------------
(***************************************************************************)
(* What the elements of the libraries keep, one part after another: the    *)
(* callbacks of a render, a conditional part, a repeated part, gestures, a *)
(* property with its attribute, the durations.  The parts share no         *)
(* variable.  The theorems are about each of them for any constants; what  *)
(* a constant has to be is a hypothesis of its theorem.  LibraryProofs     *)
(* applies them to the parts as they are run.                              *)
(***************************************************************************)
EXTENDS RenderStatus, DomIf, DomRepeat, Gestures, Attributes, Durations, FiniteSetTheorems, TLAPS

-----------------------------------------------------------------------------
(* Callbacks of a render.                                                   *)

Loops == [kind : {"frame", "timeout", "flush"}, left : Nat]

RenderTypes ==
    /\ queues \in [{"before", "after"} -> Seq(Callbacks)]
    /\ scheduled \in BOOLEAN
    /\ frames \in Nat /\ timeouts \in Nat
    /\ loops \in Seq(Loops)

(* As long as scheduled is set no further frame is asked for.               *)
FrameIsAsked == scheduled => frames > 0

RenderInv == RenderTypes /\ FrameIsAsked /\ NoneIsLeft

(* What is appended to a stack keeps what is below it; what is taken from   *)
(* it leaves all but the top.                                               *)
LEMMA LoopsPushed ==
  ASSUME RenderTypes, NEW loop \in Loops
  PROVE  /\ Append(loops, loop) \in Seq(Loops)
         /\ \A i \in DOMAIN loops : i \in DOMAIN Append(loops, loop)
                                    /\ Append(loops, loop)[i] = loops[i]
         /\ Len(loops) + 1 \in DOMAIN Append(loops, loop)
         /\ Append(loops, loop)[Len(loops) + 1] = loop
  BY DEF RenderTypes

LEMMA LoopsPopped ==
  ASSUME RenderTypes, loops # <<>>
  PROVE  /\ Pop \in Seq(Loops)
         /\ \A i \in DOMAIN loops : i = Len(loops) \/ (i \in DOMAIN Pop /\ Pop[i] = loops[i])
         /\ Len(loops) \in DOMAIN loops /\ Top \in Loops
<1>1. Len(loops) \in Nat /\ Len(loops) > 0 /\ DOMAIN loops = 1 .. Len(loops)
  BY DEF RenderTypes
<1>2. Len(loops) - 1 \in 0 .. Len(loops)
  BY <1>1
<1>3. \A i \in 1 .. (Len(loops) - 1) : loops[i] \in Loops
  BY <1>1 DEF RenderTypes
<1>4. Pop = [i \in 1 .. (Len(loops) - 1) |-> loops[i]]
  BY <1>1, <1>2 DEF Pop, RenderTypes
<1>5. Len(Pop) = Len(loops) - 1
  BY <1>1, <1>2 DEF Pop, RenderTypes
<1>6. Pop \in Seq(Loops)
  BY <1>1, <1>2, <1>3, <1>4
<1>7. QED
  BY <1>1, <1>4, <1>5, <1>6 DEF Top, RenderTypes

(* A callback is taken from its queue.                                      *)
LEMMA CallTakes ==
  ASSUME RenderTypes, NEW when \in {"before", "after"}, queues[when] # <<>>, Call(when)
  PROVE  /\ queues' \in [{"before", "after"} -> Seq(Callbacks)]
         /\ \A other \in {"before", "after"} \ {when} : queues'[other] = queues[other]
         /\ Len(queues'[when]) = Len(queues[when]) - 1
<1>1. queues[when] \in Seq(Callbacks)
  BY DEF RenderTypes
<1>2. Tail(queues[when]) \in Seq(Callbacks) /\ Len(Tail(queues[when])) = Len(queues[when]) - 1
  BY <1>1
<1>3. queues' = [queues EXCEPT ![when] = Tail(queues[when])]
  BY DEF Call
<1>4. QED
  BY <1>1, <1>2, <1>3 DEF RenderTypes

(* A round of a loop: the stack stays, but for the count of its top.        *)
LEMMA RunKeepsLoops ==
  ASSUME RenderTypes, loops # <<>>, NEW left \in Nat,
         loops' = [loops EXCEPT ![Len(loops)].left = left]
  PROVE  /\ loops' \in Seq(Loops) /\ DOMAIN loops' = DOMAIN loops
         /\ \A i \in DOMAIN loops : loops'[i].kind = loops[i].kind
                                    /\ (i # Len(loops) => loops'[i] = loops[i])
         /\ loops'[Len(loops)].left = left
<1>1. Len(loops) \in Nat /\ DOMAIN loops = 1 .. Len(loops) /\ Len(loops) \in DOMAIN loops
      /\ loops[Len(loops)] \in Loops
  BY DEF RenderTypes
<1>2. loops' = [loops EXCEPT ![Len(loops)] = [loops[Len(loops)] EXCEPT !.left = left]]
  OBVIOUS
<1>3. [loops[Len(loops)] EXCEPT !.left = left] \in Loops
  BY <1>1 DEF Loops
<1>4. loops' \in Seq(Loops) /\ DOMAIN loops' = DOMAIN loops
  BY <1>1, <1>2, <1>3 DEF RenderTypes
<1>5. QED
  BY <1>1, <1>2, <1>3, <1>4 DEF Loops

LEMMA RunRenderPreserves ==
  ASSUME RenderInv, RunRender
  PROVE  RenderInv'
<1> USE DEF RenderInv, FrameIsAsked
<1>1. RenderTypes /\ loops # <<>> /\ Top \in Loops /\ Len(loops) \in DOMAIN loops
  BY LoopsPopped DEF RunRender
<1>2. /\ queues.before \in Seq(Callbacks) /\ queues.after \in Seq(Callbacks)
      /\ queues["before"] = queues.before /\ queues["after"] = queues.after
  BY DEF RenderTypes
<1>3. CASE Top.kind = "frame" /\ queues.before # <<>> /\ Call("before") /\ UNCHANGED loops
  <2>1. /\ queues' \in [{"before", "after"} -> Seq(Callbacks)]
        /\ queues'.after = queues.after
    BY <1>1, <1>3, CallTakes
  <2>2. UNCHANGED <<scheduled, frames, timeouts, loops>>
    BY <1>3 DEF Call
  <2>3. QED
    BY <1>1, <1>3, <2>1, <2>2 DEF RenderTypes, NoneIsLeft, Top
<1>4. CASE /\ Top.kind = "timeout" /\ Top.left > 0 /\ queues.after # <<>>
           /\ Call("after") /\ loops' = [loops EXCEPT ![Len(loops)].left = @ - 1]
  <2>1. /\ queues' \in [{"before", "after"} -> Seq(Callbacks)]
        /\ queues'.before = queues.before
        /\ Len(queues'.after) = Len(queues.after) - 1
    BY <1>1, <1>2, <1>4, CallTakes
  <2>2. Top.left - 1 \in Nat
    BY <1>1, <1>4 DEF Loops
  <2>3. loops' = [loops EXCEPT ![Len(loops)].left = Top.left - 1]
    BY <1>4 DEF Top
  <2>4. /\ loops' \in Seq(Loops) /\ DOMAIN loops' = DOMAIN loops
        /\ \A i \in DOMAIN loops : loops'[i].kind = loops[i].kind
                                   /\ (i # Len(loops) => loops'[i] = loops[i])
        /\ loops'[Len(loops)].left = Top.left - 1
    BY <1>1, <2>2, <2>3, RunKeepsLoops
  <2>5. UNCHANGED <<scheduled, frames, timeouts>>
    BY <1>4 DEF Call
  <2>6. queues.after # <<>> /\ Len(queues.after) \in Nat
    BY <1>2, <1>4
  <2>7. \A i \in DOMAIN loops : loops[i].left >= Len(queues.after)
                                => loops'[i].left >= Len(queues'.after)
    <3> SUFFICES ASSUME NEW i \in DOMAIN loops, loops[i].left >= Len(queues.after)
                 PROVE  loops'[i].left >= Len(queues'.after)
      OBVIOUS
    <3>1. loops[i].left \in Nat
      <4>1. loops[i] \in Loops
        BY <1>1 DEF RenderTypes
      <4>2. QED
        BY <4>1 DEF Loops
    <3>2. CASE i = Len(loops)
      BY <2>1, <2>4, <2>6, <3>1, <3>2 DEF Top
    <3>3. CASE i # Len(loops)
      BY <2>1, <2>4, <2>6, <3>1, <3>3
    <3>4. QED
      BY <3>2, <3>3
  <2>8. NoneIsLeft'
    BY <2>1, <2>4, <2>5, <2>6, <2>7 DEF NoneIsLeft
  <2>9. QED
    BY <1>1, <2>1, <2>4, <2>5, <2>8 DEF RenderTypes
<1>5. ASSUME NEW when \in {"before", "after"}, NEW left \in {0, 1},
             Top.kind = "flush", queues[when] # <<>>, Call(when),
             loops' = [loops EXCEPT ![Len(loops)].left = left]
      PROVE  RenderInv'
  <2>1. queues' \in [{"before", "after"} -> Seq(Callbacks)]
    BY <1>1, <1>5, CallTakes
  <2>2. /\ loops' \in Seq(Loops) /\ DOMAIN loops' = DOMAIN loops
        /\ \A i \in DOMAIN loops : loops'[i].kind = loops[i].kind
    BY <1>1, <1>5, RunKeepsLoops
  <2>3. UNCHANGED <<scheduled, frames, timeouts>>
    BY <1>5 DEF Call
  <2>4. loops'[Len(loops)].kind = "flush"
    BY <1>1, <1>5, <2>2 DEF Top
  <2>5. NoneIsLeft'
    BY <1>1, <2>2, <2>4 DEF NoneIsLeft
  <2>6. QED
    BY <1>1, <2>1, <2>2, <2>3, <2>5 DEF RenderTypes
<1>6. QED
  BY <1>2, <1>3, <1>4, <1>5 DEF RunRender

LEMMA EndRenderPreserves ==
  ASSUME RenderInv, EndRender
  PROVE  RenderInv'
<1> USE DEF RenderInv, FrameIsAsked
<1>1. /\ RenderTypes /\ loops' = Pop /\ loops' \in Seq(Loops) /\ Top \in Loops
      /\ \A i \in DOMAIN loops : i = Len(loops) \/ (i \in DOMAIN loops' /\ loops'[i] = loops[i])
      /\ UNCHANGED <<queues, frames>>
  BY LoopsPopped DEF EndRender
<1>2. /\ queues.before \in Seq(Callbacks) /\ queues.after \in Seq(Callbacks)
      /\ frames \in Nat /\ timeouts \in Nat
  BY <1>1 DEF RenderTypes
<1>3. CASE Top.kind = "frame" /\ queues.before = <<>> /\ timeouts' = timeouts + 1 /\ UNCHANGED scheduled
  BY <1>1, <1>2, <1>3 DEF RenderTypes, NoneIsLeft
<1>4. CASE /\ Top.kind = "timeout" /\ (Top.left = 0 \/ queues.after = <<>>)
           /\ UNCHANGED <<timeouts, scheduled>>
  <2>1. loops[Len(loops)].left >= Len(queues.after) => queues.after = <<>>
    BY <1>2, <1>4 DEF Top
  <2>2. NoneIsLeft'
    BY <1>1, <1>2, <1>4, <2>1 DEF NoneIsLeft, Top
  <2>3. QED
    BY <1>1, <1>4, <2>2 DEF RenderTypes
<1>5. CASE /\ Top.kind = "flush" /\ queues.before = <<>> /\ queues.after = <<>>
           /\ scheduled' = FALSE /\ UNCHANGED timeouts
  BY <1>1, <1>2, <1>5 DEF RenderTypes, NoneIsLeft
<1>6. QED
  BY <1>3, <1>4, <1>5 DEF EndRender

LEMMA RenderPreserves ==
  ASSUME RenderInv, [RenderNext]_renderVars
  PROVE  RenderInv'
<1> USE DEF RenderInv, FrameIsAsked
<1>1. /\ RenderTypes /\ loops \in Seq(Loops) /\ frames \in Nat /\ timeouts \in Nat
      /\ queues.before \in Seq(Callbacks) /\ queues.after \in Seq(Callbacks)
  BY DEF RenderTypes
<1>2. ASSUME NEW c \in Callbacks, NEW when \in {"before", "after"}, NextRender(c, when)
      PROVE  RenderInv'
  <2>1. /\ queues' = [queues EXCEPT ![when] = Append(queues[when], c)]
        /\ scheduled' = TRUE /\ frames' > 0 /\ frames' \in Nat
        /\ UNCHANGED <<timeouts, loops>>
    BY <1>1, <1>2 DEF NextRender
  <2>2. queues' \in [{"before", "after"} -> Seq(Callbacks)]
    BY <1>1, <2>1 DEF RenderTypes
  <2>3. QED
    BY <1>1, <2>1, <2>2 DEF RenderTypes, NoneIsLeft
<1>3. CASE Frame
  <2>1. [kind |-> "frame", left |-> 0] \in Loops
    BY DEF Loops
  <2>2. /\ loops' = Append(loops, [kind |-> "frame", left |-> 0])
        /\ frames' \in Nat /\ scheduled' = FALSE /\ UNCHANGED <<queues, timeouts>>
    BY <1>1, <1>3 DEF Frame
  <2>3. loops' \in Seq(Loops) /\ Len(loops) + 1 \in DOMAIN loops'
        /\ loops'[Len(loops) + 1].kind = "frame"
    BY <1>1, <2>1, <2>2, LoopsPushed
  <2>4. NoneIsLeft'
    BY <2>3 DEF NoneIsLeft
  <2>5. QED
    BY <1>1, <2>2, <2>3, <2>4 DEF RenderTypes
<1>4. CASE Timeout
  <2>1. [kind |-> "timeout", left |-> Len(queues.after)] \in Loops
    BY <1>1 DEF Loops
  <2>2. /\ loops' = <<[kind |-> "timeout", left |-> Len(queues.after)]>>
        /\ loops = <<>> /\ timeouts' \in Nat /\ UNCHANGED <<queues, scheduled, frames>>
    BY <1>1, <1>4 DEF Timeout
  <2>3. /\ loops' \in Seq(Loops) /\ 1 \in DOMAIN loops'
        /\ loops'[1].kind = "timeout" /\ loops'[1].left >= Len(queues'.after)
    BY <1>1, <2>1, <2>2
  <2>4. NoneIsLeft'
    BY <1>1, <2>2, <2>3 DEF NoneIsLeft
  <2>5. QED
    BY <1>1, <2>2, <2>3, <2>4 DEF RenderTypes
<1>5. CASE FlushRender
  <2>1. [kind |-> "flush", left |-> 0] \in Loops
    BY DEF Loops
  <2>2. /\ loops' = Append(loops, [kind |-> "flush", left |-> 0])
        /\ UNCHANGED <<queues, scheduled, frames, timeouts>>
    BY <1>5 DEF FlushRender
  <2>3. QED
    BY <1>1, <2>1, <2>2, LoopsPushed DEF RenderTypes, NoneIsLeft
<1>6. CASE UNCHANGED renderVars
  BY <1>6 DEF renderVars, RenderTypes, NoneIsLeft
<1>7. QED
  BY <1>2, <1>3, <1>4, <1>5, <1>6, RunRenderPreserves, EndRenderPreserves DEF RenderNext

(* Whatever waits or was run was asked for once, in one place: nothing is   *)
(* twice in a queue or in what was run, and nothing is in two of them.      *)
Places == [before |-> queues.before, after |-> queues.after, ran |-> ran]

AskedOnce ==
    /\ ran \in Seq(Callbacks) /\ flushes \in 0 .. MaxFlushes
    /\ \A p, q \in {"before", "after", "ran"} :
          \A i \in DOMAIN Places[p], j \in DOMAIN Places[q] :
             Places[p][i] = Places[q][j] => p = q /\ i = j

(* A callback is asked for that is in none of them.                         *)
LEMMA AskingKeepsOnce ==
  ASSUME RenderTypes, AskedOnce, NEW c \in Callbacks, NEW when \in {"before", "after"},
         NextRender(c, when)
  PROVE  AskedOnce'
<1>1. /\ queues.before \in Seq(Callbacks) /\ queues.after \in Seq(Callbacks)
      /\ ran \in Seq(Callbacks)
  BY DEF RenderTypes, AskedOnce
<1>2. /\ queues' = [queues EXCEPT ![when] = Append(queues[when], c)]
      /\ UNCHANGED <<ran, flushes>>
  BY DEF NextRender
<1>3. \A p \in {"before", "after", "ran"} : \A i \in DOMAIN Places[p] : Places[p][i] # c
  BY DEF NextRender, Asked, Queued, Places
<1>4. /\ queues'.before = (IF when = "before" THEN Append(queues.before, c) ELSE queues.before)
      /\ queues'.after = (IF when = "after" THEN Append(queues.after, c) ELSE queues.after)
  BY <1>2 DEF RenderTypes
<1>5. \A s \in Seq(Callbacks) :
         /\ DOMAIN s = 1 .. Len(s) /\ Len(s) \in Nat
         /\ DOMAIN Append(s, c) = 1 .. Len(s) + 1
         /\ \A i \in 1 .. Len(s) + 1 : Append(s, c)[i] = IF i = Len(s) + 1 THEN c ELSE s[i]
  OBVIOUS
<1>6. ASSUME NEW p \in {"before", "after", "ran"}, NEW i \in DOMAIN (Places'[p])
      PROVE  \/ i \in DOMAIN Places[p] /\ Places'[p][i] = Places[p][i]
             \/ p = when /\ i = Len(Places[p]) + 1 /\ Places'[p][i] = c
  <2>1. CASE p = when
    <3>1. Places[p] \in Seq(Callbacks) /\ Places'[p] = Append(Places[p], c)
      BY <1>1, <1>4, <2>1 DEF Places
    <3>2. QED
      BY <1>5, <2>1, <3>1
  <2>2. CASE p # when
    BY <1>2, <1>4, <2>2 DEF Places
  <2>3. QED
    BY <2>1, <2>2
<1>7. QED
  BY <1>2, <1>3, <1>6 DEF AskedOnce

(* A callback that is run goes from the front of its queue to the end of    *)
(* what was run.                                                            *)
LEMMA CallingKeepsOnce ==
  ASSUME RenderTypes, AskedOnce, NEW when \in {"before", "after"}, queues[when] # <<>>, Call(when)
  PROVE  AskedOnce'
<1>1. /\ queues.before \in Seq(Callbacks) /\ queues.after \in Seq(Callbacks)
      /\ ran \in Seq(Callbacks)
  BY DEF RenderTypes, AskedOnce
<1>2. /\ queues' = [queues EXCEPT ![when] = Tail(queues[when])]
      /\ ran' = Append(ran, Head(queues[when])) /\ flushes' = flushes
  BY DEF Call
<1>3. /\ queues'.before = (IF when = "before" THEN Tail(queues.before) ELSE queues.before)
      /\ queues'.after = (IF when = "after" THEN Tail(queues.after) ELSE queues.after)
      /\ queues[when] = Places[when] /\ Places[when] \in Seq(Callbacks)
  BY <1>1, <1>2 DEF RenderTypes, Places
<1>4. /\ Head(Places[when]) = Places[when][1] /\ 1 \in DOMAIN Places[when]
      /\ Head(Places[when]) \in Callbacks
      /\ \A i \in DOMAIN Tail(Places[when]) :
            i \in Nat /\ i + 1 \in DOMAIN Places[when]
            /\ Tail(Places[when])[i] = Places[when][i + 1]
  BY <1>3
<1>5. /\ ran' \in Seq(Callbacks)
      /\ \A i \in DOMAIN ran' : \/ i \in DOMAIN ran /\ ran'[i] = ran[i]
                                \/ i = Len(ran) + 1 /\ ran'[i] = Head(Places[when])
  BY <1>1, <1>2, <1>3, <1>4
<1>6. ASSUME NEW p \in {"before", "after", "ran"}, NEW i \in DOMAIN (Places'[p])
      PROVE  \/ p # when /\ i \in DOMAIN Places[p] /\ Places'[p][i] = Places[p][i]
             \/ p = when /\ i \in Nat /\ i + 1 \in DOMAIN Places[p] /\ Places'[p][i] = Places[p][i + 1]
             \/ p = "ran" /\ i = Len(ran) + 1 /\ Places'[p][i] = Places[when][1]
  <2>1. CASE p = "ran"
    BY <1>4, <1>5, <2>1 DEF Places
  <2>2. CASE p = when
    <3>1. Places'[p] = Tail(Places[p])
      <4>1. CASE p = "before"
        BY <1>3, <2>2, <4>1 DEF Places
      <4>2. CASE p = "after"
        BY <1>3, <2>2, <4>2 DEF Places
      <4>3. QED
        BY <2>2, <4>1, <4>2
    <3>2. QED
      BY <1>4, <2>2, <3>1
  <2>3. CASE p # "ran" /\ p # when
    BY <1>3, <2>3 DEF Places
  <2>4. QED
    BY <2>1, <2>2, <2>3
<1>7. ASSUME NEW p \in {"before", "after", "ran"}, NEW q \in {"before", "after", "ran"},
             NEW i \in DOMAIN (Places'[p]), NEW j \in DOMAIN (Places'[q]), Places'[p][i] = Places'[q][j]
      PROVE  p = q /\ i = j
  <2>1. \A k \in Nat : k + 1 # 1 \/ k = 0
    OBVIOUS
  <2>2. \A k \in DOMAIN (Places'[when]) : k \in Nat /\ k # 0
    BY <1>3, <1>4 DEF Places
  <2>3. QED
    BY <1>4, <1>6, <1>7, <2>1, <2>2 DEF AskedOnce
<1>8. QED
  BY <1>2, <1>5, <1>7 DEF AskedOnce

LEMMA RenderKeepsOnce ==
  ASSUME MaxFlushes \in Nat, RenderTypes, AskedOnce, [RenderNext]_renderVars
  PROVE  AskedOnce'
<1>1. CASE UNCHANGED <<queues, ran>> /\ flushes' \in 0 .. MaxFlushes
  BY <1>1 DEF AskedOnce, Places
<1>2. ASSUME Frame \/ Timeout \/ FlushRender \/ EndRender \/ UNCHANGED renderVars
      PROVE  UNCHANGED <<queues, ran>> /\ flushes' \in 0 .. MaxFlushes
  BY <1>2 DEF Frame, Timeout, FlushRender, EndRender, renderVars, AskedOnce
<1>3. ASSUME RunRender PROVE AskedOnce'
  BY <1>3, CallingKeepsOnce DEF RunRender
<1>4. QED
  BY <1>1, <1>2, <1>3, AskingKeepsOnce DEF RenderNext

(* cloud-dashboard.js:13636-13651,13678-13684: a callback that waits for a  *)
(* render has a frame, a timeout or a loop that will come to it, and none   *)
(* is run twice, for any callbacks, and for any number of flushes on top of *)
(* each other.                                                              *)
THEOREM RenderLeavesNone ==
  ASSUME MaxFlushes \in Nat
  PROVE  RenderSpec => [](RenderTypeOK /\ NoneIsLeft)
<1>1. RenderInit => RenderInv /\ AskedOnce
  <2> SUFFICES ASSUME RenderInit PROVE RenderInv /\ AskedOnce
    OBVIOUS
  <2>1. /\ queues = [before |-> <<>>, after |-> <<>>] /\ loops = <<>>
        /\ scheduled = FALSE /\ frames = 0 /\ timeouts = 0 /\ ran = <<>> /\ flushes = 0
    BY DEF RenderInit
  <2>2. queues = [when \in {"before", "after"} |-> <<>>] /\ loops \in Seq(Loops)
    BY <2>1
  <2> <<>> \in Seq(Callbacks)
    OBVIOUS
  <2> queues \in [{"before", "after"} -> Seq(Callbacks)]
    BY <2>2
  <2>3. RenderInv
    BY <2>1, <2>2 DEF RenderInv, RenderTypes, FrameIsAsked, NoneIsLeft
  <2>4. Places = [before |-> <<>>, after |-> <<>>, ran |-> <<>>]
    BY <2>1 DEF Places
  <2>5. \A p \in {"before", "after", "ran"} : DOMAIN Places[p] = {}
    BY <2>4
  <2>6. QED
    BY <2>1, <2>3, <2>5 DEF AskedOnce
<1>2. RenderInv /\ AskedOnce /\ [RenderNext]_renderVars => RenderInv' /\ AskedOnce'
  BY RenderPreserves, RenderKeepsOnce DEF RenderInv
<1>3. RenderInv /\ AskedOnce => RenderTypeOK /\ NoneIsLeft
  <2> SUFFICES ASSUME RenderInv, AskedOnce PROVE RenderTypeOK
    BY DEF RenderInv
  <2>1. \A i, j \in DOMAIN ran : ran[i] = ran[j] => i = j
    BY DEF AskedOnce, Places
  <2>2. \A i \in DOMAIN loops : loops[i] \in Loops
    BY DEF RenderInv, RenderTypes
  <2>3. QED
    BY <2>1, <2>2 DEF RenderInv, RenderTypes, AskedOnce, RenderTypeOK, Loops
<1>4. QED
  BY <1>1, <1>2, <1>3, PTL DEF RenderSpec

-----------------------------------------------------------------------------
(* Gestures.                                                                *)

GestureTypes ==
    /\ tracks \in BOOLEAN /\ held \in BOOLEAN /\ ignore \in BOOLEAN /\ fingers \in BOOLEAN
    /\ pointer \in {"none", "mouse", "touch"}
    /\ due \in {"none", "click", "emulated"}
    /\ follows \in [downup : BOOLEAN, track : BOOLEAN]
    /\ track \in [state : {"start", "track", "end"}, started : BOOLEAN, prevent : BOOLEAN]
    /\ tap \in [prevent : BOOLEAN, saved : BOOLEAN]
    /\ fired \in [down : Nat, up : Nat, track : {"none", "start", "track", "end"}, taps : Nat,
                  disturbed : BOOLEAN]

(* A tap comes last of all: after a pointer that is gone, by the events     *)
(* that are due, and those that follow a touch find the mouse ignored.      *)
TapComesLast ==
    /\ due = "emulated" => ignore
    /\ due # "none" => pointer = "none"
    /\ pointer # "none" \/ due = "click" => fired.taps = 0

(* A track that was told of prevents the tap, unless another button went    *)
(* down; a touch is not followed, and what is told of its track next is the *)
(* state of the recognizer.                                                 *)
TrackIsTold ==
    /\ track.started \/ (fired.track # "none" /\ ~fired.disturbed) =>
           tap.prevent /\ fired.taps = 0
    /\ pointer = "touch" \/ follows.track => (track.started <=> fired.track # "none")
    /\ pointer = "touch" =>
           /\ fired.track # "end" /\ fired.up = 0 /\ ~fired.disturbed
           /\ ~follows.downup /\ ~follows.track
           /\ track.state = IF track.started THEN "track" ELSE "start"

(* One pointer goes down, and up is told by whom the document has.          *)
DownAndUp ==
    /\ pointer # "none" => fired.down = 1
    /\ follows.downup => fired.down = 1 /\ fired.up = 0

GestureInv ==
    /\ GestureTypes /\ TapComesLast /\ TrackIsTold /\ DownAndUp
    /\ OneTap /\ OneUp /\ NothingFollowed

LEMMA GestureStarts ==
  ASSUME GestureInit
  PROVE  GestureInv
<1>1. /\ pointer = "none" /\ held = FALSE /\ due = "none" /\ tracks \in BOOLEAN
      /\ follows = [downup |-> FALSE, track |-> FALSE]
      /\ track = [state |-> "start", started |-> FALSE, prevent |-> FALSE]
      /\ tap = [prevent |-> FALSE, saved |-> FALSE] /\ ignore = FALSE /\ fingers = FALSE
      /\ fired = [down |-> 0, up |-> 0, track |-> "none", taps |-> 0, disturbed |-> FALSE]
  BY DEF GestureInit, IdleTrack, NoneFired
<1>2. GestureTypes
  BY <1>1 DEF GestureTypes
<1>3. TapComesLast /\ DownAndUp /\ OneTap /\ OneUp /\ NothingFollowed
  BY <1>1 DEF TapComesLast, DownAndUp, OneTap, OneUp, NothingFollowed
<1>4. TrackIsTold
  BY <1>1 DEF TrackIsTold
<1>5. QED
  BY <1>2, <1>3, <1>4 DEF GestureInv

LEMMA TouchIsUp ==
  ASSUME GestureTypes, fired.down = 1, fired.taps = 0, ~fired.disturbed, NEW told
  PROVE  [fired EXCEPT !.up = 1, !.track = told]
         = [down |-> 1, up |-> 1, track |-> told, taps |-> 0, disturbed |-> FALSE]
<1>1. PICK gestures : gestures = [fired EXCEPT !.up = 1, !.track = told]
  OBVIOUS
<1>2. gestures = [down |-> 1, up |-> 1, track |-> told, taps |-> 0, disturbed |-> FALSE]
  BY <1>1 DEF GestureTypes
<1>3. QED
  BY <1>1, <1>2

LEMMA GesturePreserves ==
  ASSUME GestureInv, [GestureNext]_gestureVars
  PROVE  GestureInv' /\ TrackInOrder
<1> USE DEF GestureInv, GestureTypes, TapComesLast, TrackIsTold, DownAndUp, OneTap, OneUp,
            NothingFollowed, TrackInOrder
<1>1. CASE MouseDown
  <2>1. PICK prevent \in BOOLEAN : Reset(prevent, TRUE)
    BY <1>1 DEF MouseDown
  <2>2. /\ track' = [state |-> "start", started |-> FALSE, prevent |-> prevent]
        /\ tap' = [prevent |-> FALSE, saved |-> TRUE]
        /\ fired' = [down |-> 1, up |-> 0, track |-> "none", taps |-> 0, disturbed |-> FALSE]
        /\ follows' = [downup |-> TRUE, track |-> tracks]
        /\ pointer' = "mouse" /\ due' = due /\ due = "none"
        /\ held' = TRUE /\ UNCHANGED <<tracks, ignore, fingers>>
    BY <1>1, <2>1 DEF MouseDown, Reset, IdleTrack, NoneFired
  <2>3. QED
    BY <2>2
<1>2. CASE LoseButton \/ GoOn \/ OtherFinger \/ IgnoreEnds
  <2>1. /\ UNCHANGED <<tracks, due, follows, track, tap, fired>>
        /\ pointer' \in {pointer, "none"} /\ held' \in BOOLEAN
        /\ fingers' \in BOOLEAN /\ ignore' \in BOOLEAN
        /\ due = "emulated" => ignore'
    BY <1>2 DEF LoseButton, GoOn, OtherFinger, IgnoreEnds
  <2>2. due # "none" => pointer' = "none"
    BY <2>1
  <2>3. pointer' = "none" => pointer = "mouse" \/ pointer' = pointer
    BY <1>2 DEF LoseButton, GoOn, OtherFinger, IgnoreEnds
  <2>4. QED
    BY <2>1, <2>2, <2>3
<1>3. CASE MouseUp
  <2> DEFINE ends == follows.track /\ track.started /\ ~track.prevent
             ups == IF follows.downup THEN fired.up + 1 ELSE fired.up
             told == IF ends THEN "end" ELSE fired.track
  <2>1. /\ track' = IF ends THEN [track EXCEPT !.state = "end"] ELSE track
        /\ fired' = [fired EXCEPT !.up = ups, !.track = told]
        /\ follows' = [downup |-> FALSE, track |-> FALSE]
        /\ pointer = "mouse" /\ pointer' = "none" /\ due' = "click"
        /\ held' = FALSE /\ UNCHANGED <<tracks, tap, ignore, fingers>>
    BY <1>3 DEF MouseUp
  <2>2. /\ track'.started = track.started
        /\ track' \in [state : {"start", "track", "end"}, started : BOOLEAN, prevent : BOOLEAN]
    BY <2>1
  <2>3. /\ ups \in Nat /\ told \in {"none", "start", "track", "end"}
        /\ ups <= 1 /\ (told # fired.track => ends)
    OBVIOUS
  <2>4. ends => fired.track \notin {"none", "end"} /\ fired.taps = 0
    OBVIOUS
  <2>5. /\ told # "none" /\ ~fired.disturbed => tap.prevent /\ fired.taps = 0
        /\ fired.taps = 0 /\ fired.down = 1
    BY <2>1, <2>4
  <2> HIDE DEF ends, ups, told
  <2>6. fired' = [down |-> fired.down, up |-> ups, track |-> told, taps |-> fired.taps,
                  disturbed |-> fired.disturbed]
    BY <2>1
  <2>7. TrackInOrder
    BY <2>3, <2>4, <2>6 DEF told
  <2>8. GestureTypes'
    BY <2>1, <2>2, <2>3, <2>6
  <2>9. TapComesLast' /\ TrackIsTold' /\ DownAndUp'
    BY <2>1, <2>2, <2>3, <2>5, <2>6
  <2>10. OneTap' /\ OneUp' /\ NothingFollowed'
    BY <2>1, <2>3, <2>5, <2>6
  <2>11. QED
    BY <2>7, <2>8, <2>9, <2>10
<1>4. CASE Click
  BY <1>4 DEF Click, Tapped
<1>5. CASE TouchStart
  <2>1. PICK prevent \in BOOLEAN : Reset(prevent, TRUE)
    BY <1>5 DEF TouchStart
  <2>2. /\ track' = [state |-> "start", started |-> FALSE, prevent |-> prevent]
        /\ tap' = [prevent |-> FALSE, saved |-> TRUE]
        /\ fired' = [down |-> 1, up |-> 0, track |-> "none", taps |-> 0, disturbed |-> FALSE]
        /\ follows' = [downup |-> FALSE, track |-> FALSE]
        /\ pointer' = "touch" /\ due' = due /\ due = "none"
        /\ UNCHANGED <<tracks, held, ignore, fingers>>
    BY <1>5, <2>1 DEF TouchStart, Reset, IdleTrack, NoneFired
  <2>3. QED
    BY <2>2
<1>6. CASE TouchEnd
  <2> DEFINE ends == tracks /\ track.started
             taps == IF (tap.saved => offset # "far") /\ ~tap.prevent THEN fired.taps + 1 ELSE fired.taps
             told == IF ends THEN "end" ELSE fired.track
  <2>1. /\ track' = IF ends THEN [track EXCEPT !.state = "end"] ELSE track
        /\ pointer = "touch" /\ pointer' = "none"
        /\ due' = (IF fingers THEN "none" ELSE "emulated")
        /\ ignore' = TRUE /\ UNCHANGED <<tracks, held, follows, tap, fingers>>
    BY <1>6 DEF TouchEnd, IgnoreMouse
  <2>2. /\ fired.up = 0 /\ fired.down = 1 /\ fired.taps = 0 /\ ~fired.disturbed
        /\ ~follows.downup /\ ~follows.track
    BY <2>1
  <2>3. [fired EXCEPT !.up = 1, !.track = told]
        = [down |-> 1, up |-> 1, track |-> told, taps |-> 0, disturbed |-> FALSE]
    BY <2>2, TouchIsUp
  <2>4. fired' = Tapped(offset, [fired EXCEPT !.up = 1, !.track = told])
    BY <1>6, <2>2 DEF TouchEnd
  <2>5. fired' = [down |-> 1, up |-> 1, track |-> told, taps |-> taps, disturbed |-> FALSE]
    BY <2>2, <2>3, <2>4 DEF Tapped
  <2>6. /\ track'.started = track.started
        /\ track' \in [state : {"start", "track", "end"}, started : BOOLEAN, prevent : BOOLEAN]
    BY <2>1
  <2>7. /\ told \in {"none", "start", "track", "end"} /\ taps \in {0, 1}
        /\ told # fired.track => told = "end" /\ fired.track \notin {"none", "end"}
        /\ told # "none" => tap.prevent /\ taps = 0
        /\ tap.prevent => taps = 0
    BY <2>1, <2>2
  <2> HIDE DEF ends, told, taps
  <2>8. TrackInOrder
    BY <2>5, <2>7
  <2>9. GestureTypes'
    BY <2>1, <2>5, <2>6, <2>7
  <2>10. TapComesLast' /\ TrackIsTold' /\ DownAndUp'
    BY <2>1, <2>2, <2>5, <2>6, <2>7
  <2>11. OneTap' /\ OneUp' /\ NothingFollowed'
    BY <2>1, <2>2, <2>5, <2>7
  <2>12. QED
    BY <2>8, <2>9, <2>10, <2>11
<1>7. CASE Emulated
  BY <1>7 DEF Emulated
<1>8. ASSUME NEW to \in Offsets, MouseMove(to)
      PROVE  GestureInv' /\ TrackInOrder
  <2> DEFINE moved == follows.track /\ HasMovedEnough(to)
             state == IF ~held THEN "end" ELSE IF track.started THEN "track" ELSE "start"
             ups == IF follows.downup /\ ~held THEN fired.up + 1 ELSE fired.up
             told == IF moved THEN state ELSE fired.track
  <2>1. /\ track' = IF moved THEN [track EXCEPT !.state = state, !.started = TRUE] ELSE track
        /\ tap' = IF moved /\ ~track.started THEN [tap EXCEPT !.prevent = TRUE] ELSE tap
        /\ follows' = [downup |-> follows.downup /\ held, track |-> follows.track /\ (held \/ ~moved)]
        /\ fired' = [fired EXCEPT !.up = ups, !.track = told]
        /\ pointer = "mouse" /\ UNCHANGED <<tracks, pointer, held, due, ignore, fingers>>
    BY <1>8 DEF MouseMove
  <2>2. /\ track'.started = (track.started \/ moved)
        /\ track' \in [state : {"start", "track", "end"}, started : BOOLEAN, prevent : BOOLEAN]
    BY <2>1
  <2>3. moved => tap'.prevent
    BY <2>1
  <2>4. moved \in BOOLEAN /\ (moved => follows.track)
    BY DEF HasMovedEnough
  <2>5. /\ tap' \in [prevent : BOOLEAN, saved : BOOLEAN]
        /\ follows' \in [downup : BOOLEAN, track : BOOLEAN]
    BY <2>1, <2>4
  <2>6. /\ ups \in Nat /\ told \in {"none", "start", "track", "end"}
        /\ ups <= 1 /\ (follows.downup /\ held => ups = 0)
    OBVIOUS
  <2>7. /\ fired.taps = 0 /\ fired.down = 1
        /\ fired.disturbed => ~follows.downup /\ ~follows.track
    BY <2>1
  <2>8. /\ moved => told = state /\ (~held => told = "end") /\ told # "none"
        /\ moved /\ held => told \in {"start", "track"}
        /\ ~moved => told = fired.track
    OBVIOUS
  <2>9. moved /\ told # fired.track =>
          <<fired.track, told>> \in
            {<<"none", "start">>, <<"none", "end">>, <<"start", "track">>,
             <<"start", "end">>, <<"track", "end">>}
    BY <2>4
  <2> HIDE DEF moved, ups, told, state
  <2>10. fired' = [down |-> 1, up |-> ups, track |-> told, taps |-> 0,
                   disturbed |-> fired.disturbed]
    BY <2>1, <2>7
  <2>11. TrackInOrder
    BY <2>8, <2>9, <2>10
  <2>12. GestureTypes'
    BY <2>1, <2>2, <2>5, <2>6, <2>10
  <2>13. TapComesLast' /\ DownAndUp'
    BY <2>1, <2>6, <2>10
  <2>14. TrackIsTold'
    BY <2>1, <2>2, <2>3, <2>4, <2>7, <2>8, <2>10
  <2>15. OneTap' /\ OneUp' /\ NothingFollowed'
    BY <2>1, <2>4, <2>6, <2>7, <2>8, <2>10
  <2>16. QED
    BY <2>11, <2>12, <2>13, <2>14, <2>15
<1>9. ASSUME NEW to \in Offsets, TouchMove(to)
      PROVE  GestureInv' /\ TrackInOrder
  BY <1>9 DEF TouchMove, HasMovedEnough
<1>10. CASE OtherButtonDown
  <2>1. /\ track' = [state |-> "start", started |-> FALSE, prevent |-> FALSE]
        /\ tap' = [prevent |-> FALSE, saved |-> FALSE]
        /\ follows' = [downup |-> FALSE, track |-> FALSE]
        /\ fired' = [fired EXCEPT !.disturbed = TRUE]
        /\ pointer # "touch" /\ UNCHANGED <<tracks, pointer, held, due, ignore, fingers>>
    BY <1>10 DEF OtherButtonDown, Reset, IdleTrack
  <2>2. QED
    BY <2>1
<1>11. CASE OtherButtonUp
  <2> DEFINE ends == follows.track /\ track.started /\ ~track.prevent
             told == IF ends THEN "end" ELSE fired.track
  <2>1. /\ track' = IF ends THEN [track EXCEPT !.state = "end"] ELSE track
        /\ fired' = [fired EXCEPT !.track = told]
        /\ follows' = [downup |-> FALSE, track |-> FALSE]
        /\ pointer # "touch" /\ UNCHANGED <<tracks, pointer, held, due, tap, ignore, fingers>>
    BY <1>11 DEF OtherButtonUp
  <2>2. /\ track'.started = track.started
        /\ track' \in [state : {"start", "track", "end"}, started : BOOLEAN, prevent : BOOLEAN]
    BY <2>1
  <2>3. /\ told \in {"none", "start", "track", "end"}
        /\ ends => fired.track \notin {"none", "end"}
        /\ told # fired.track => told = "end" /\ ends
        /\ told # "none" /\ ~fired.disturbed => tap.prevent /\ fired.taps = 0
    OBVIOUS
  <2> HIDE DEF ends, told
  <2>4. fired' = [down |-> fired.down, up |-> fired.up, track |-> told, taps |-> fired.taps,
                  disturbed |-> fired.disturbed]
    BY <2>1
  <2>5. TrackInOrder
    BY <2>3, <2>4
  <2>6. GestureTypes' /\ TapComesLast' /\ TrackIsTold' /\ DownAndUp'
    BY <2>1, <2>2, <2>3, <2>4
  <2>7. OneTap' /\ OneUp' /\ NothingFollowed'
    BY <2>1, <2>3, <2>4
  <2>8. QED
    BY <2>5, <2>6, <2>7
<1>12. CASE UNCHANGED gestureVars
  BY <1>12 DEF gestureVars
<1>13. QED
  BY <1>1, <1>2, <1>3, <1>4, <1>5, <1>6, <1>7, <1>8, <1>9, <1>10, <1>11, <1>12 DEF GestureNext

(* cloud-dashboard.js:12874-12881,13165-13198,13248-13311,13454-13469: a    *)
(* pointer that tracked does not tap, unless another button went down       *)
(* meanwhile; none taps or goes up twice, and after the end, or another     *)
(* button, nothing of it is followed.                                       *)
THEOREM GesturesEndOnce == GestureSpec => [](OneTap /\ OneUp /\ NothingFollowed)
<1>1. GestureInit => GestureInv
  BY GestureStarts
<1>2. GestureInv /\ [GestureNext]_gestureVars => GestureInv'
  BY GesturePreserves
<1>3. GestureInv => OneTap /\ OneUp /\ NothingFollowed
  BY DEF GestureInv
<1>4. QED
  BY <1>1, <1>2, <1>3, PTL DEF GestureSpec

(* cloud-dashboard.js:13285-13302,13330-13358: what is told of a track is a *)
(* start, moves, an end, and then nothing; but an end may come alone, and   *)
(* when another button goes down no end comes.                              *)
THEOREM GestureTracksInOrder == GestureSpec => [][TrackInOrder]_gestureVars
<1>1. GestureInit => GestureInv
  BY GestureStarts
<1>2. GestureInv /\ [GestureNext]_gestureVars => GestureInv' /\ [TrackInOrder]_gestureVars
  BY GesturePreserves
<1>3. QED
  BY <1>1, <1>2, PTL DEF GestureSpec

-----------------------------------------------------------------------------
(* A conditional part.                                                      *)

(* Instances, those included that were not given the host's value yet.      *)
AnyInstance ==
    [data : Texts \cup {Empty}, text : Texts \cup {Empty}, kept : Texts \cup {Empty}, hide : BOOLEAN]

(* A hidden instance shows nothing and keeps its value, another shows it.   *)
Shows(inst) ==
    IF inst.hide THEN inst.text = Empty /\ inst.kept = inst.data ELSE inst.text = inst.data

(* What an instance is, whenever the part is rendered or not ...            *)
InstanceKeeps ==
    instance # NoInst =>
        /\ Shows(instance)
        /\ invalid \/ instance.data = host

(* ... and that it is there and hidden as it should once that is done.      *)
IsRendered ==
    ~debounced =>
        /\ if => ~invalid
        /\ if /\ place = "page" => instance # NoInst
        /\ instance # NoInst => instance.hide = (outer \/ ~if)

IfInv == DomIfTypeOK /\ InstanceKeeps /\ IsRendered /\ RestampRemoves

LEMMA TextIsSet ==
  ASSUME NEW inst \in AnyInstance, Shows(inst), NEW text \in Texts
  PROVE  /\ SetText(inst, text) \in AnyInstance /\ Shows(SetText(inst, text))
         /\ SetText(inst, text).data = text /\ SetText(inst, text).hide = inst.hide
  BY DEF AnyInstance, Shows, SetText

LEMMA IsShownOrHidden ==
  ASSUME NoInst \notin AnyInstance, NEW inst \in AnyInstance, Shows(inst), NEW hide \in BOOLEAN
  PROVE  /\ ShowHide(inst, hide) \in AnyInstance /\ Shows(ShowHide(inst, hide))
         /\ ShowHide(inst, hide).data = inst.data /\ ShowHide(inst, hide).hide = hide
<1>1. inst # NoInst
  OBVIOUS
<1>2. CASE inst.hide = hide
  <2>1. ShowHide(inst, hide) = inst
    BY <1>2 DEF ShowHide
  <2>2. QED
    BY <1>2, <2>1
<1>3. CASE inst.hide # hide
  BY <1>1, <1>3 DEF AnyInstance, Shows, ShowHide
<1>4. QED
  BY <1>2, <1>3

(* An instance that has a text of the host is one.                          *)
LEMMA InstanceOfHost ==
  /\ \A inst \in AnyInstance : inst.data \in Texts => inst \in Instances
  /\ Instances \subseteq AnyInstance
  BY DEF AnyInstance, Instances

LEMMA StampedIsHosts ==
  ASSUME NoInst \notin AnyInstance, host \in Texts, outer \in BOOLEAN
  PROVE  Stamped \in Instances /\ Shows(Stamped) /\ Stamped.data = host /\ Stamped.hide = outer
<1> DEFINE fresh == [data |-> Empty, text |-> Empty, kept |-> Empty, hide |-> FALSE]
<1>1. fresh \in AnyInstance /\ Shows(fresh)
  BY DEF AnyInstance, Shows
<1> HIDE DEF fresh
<1>2. /\ ShowHide(fresh, outer) \in AnyInstance /\ Shows(ShowHide(fresh, outer))
      /\ ShowHide(fresh, outer).hide = outer
  BY <1>1, IsShownOrHidden
<1>3. Stamped = SetText(ShowHide(fresh, outer), host)
  BY DEF Stamped, fresh
<1>4. QED
  BY <1>2, <1>3, TextIsSet, InstanceOfHost

(* A render shows or hides what there is, or stamps it.                     *)
LEMMA DomIfRenders ==
  ASSUME NoInst \notin AnyInstance, IfInv, Render
  PROVE  IfInv'
<1>1. /\ if \in BOOLEAN /\ outer \in BOOLEAN /\ restamp \in BOOLEAN /\ host \in Texts
      /\ instance \in Instances \cup {NoInst} /\ (place = "nowhere" => instance = NoInst)
      /\ instance # NoInst => /\ instance \in AnyInstance /\ Shows(instance)
                              /\ invalid \/ instance.data = host
  BY InstanceOfHost DEF IfInv, DomIfTypeOK, InstanceKeeps
<1>2. UNCHANGED <<if, restamp, host, outer, place>> /\ debounced' = FALSE
      /\ invalid' = (invalid /\ ~if /\ ~restamp)
  BY DEF Render
<1>3. CASE if
  <2>1. instance' = ShowHide(Ensured, outer) /\ invalid' = FALSE
    BY <1>1, <1>2, <1>3 DEF Render
  <2>2. ASSUME instance # NoInst \/ place # "nowhere"
        PROVE  Ensured \in Instances /\ Shows(Ensured) /\ Ensured.data = host
    <3>1. CASE instance # NoInst /\ invalid
      BY <1>1, <3>1, TextIsSet, InstanceOfHost DEF Ensured
    <3>2. CASE instance # NoInst /\ ~invalid
      BY <1>1, <3>2 DEF Ensured
    <3>3. CASE instance = NoInst
      BY <1>1, <2>2, <3>3, StampedIsHosts DEF Ensured
    <3>4. QED
      BY <3>1, <3>2, <3>3
  <2>3. CASE instance # NoInst \/ place # "nowhere"
    <3>1. /\ instance' \in Instances /\ Shows(instance')
          /\ instance'.data = host /\ instance'.hide = outer
      BY <1>1, <2>1, <2>2, <2>3, IsShownOrHidden, InstanceOfHost
    <3>2. instance' # NoInst /\ (place = "nowhere" => instance = NoInst)
      BY <1>1, <3>1, InstanceOfHost
    <3>3. place # "nowhere"
      BY <1>1, <2>3
    <3>4. Shows(instance)' = Shows(instance')
      BY DEF Shows
    <3>5. QED
      BY <1>1, <1>2, <1>3, <2>1, <3>1, <3>2, <3>3, <3>4
      DEF IfInv, DomIfTypeOK, InstanceKeeps, IsRendered, RestampRemoves
  <2>4. CASE instance = NoInst /\ place = "nowhere"
    <3>1. instance' = NoInst
      BY <2>1, <2>4 DEF Ensured, ShowHide
    <3>2. QED
      BY <1>1, <1>2, <1>3, <2>1, <2>4, <3>1
      DEF IfInv, DomIfTypeOK, InstanceKeeps, IsRendered, RestampRemoves
  <2>5. QED
    BY <2>3, <2>4
<1>4. CASE ~if /\ (restamp \/ instance = NoInst)
  <2>1. instance' = NoInst
    BY <1>4 DEF Render, ShowHide
  <2>2. QED
    BY <1>1, <1>2, <1>4, <2>1
    DEF IfInv, DomIfTypeOK, InstanceKeeps, IsRendered, RestampRemoves
<1>5. CASE ~if /\ ~restamp /\ instance # NoInst
  <2>1. instance' = ShowHide(instance, TRUE) /\ invalid' = invalid
    BY <1>2, <1>5 DEF Render, IfInv, DomIfTypeOK
  <2>2. /\ instance' \in Instances /\ Shows(instance')
        /\ instance'.data = instance.data /\ instance'.hide = TRUE
    BY <1>1, <1>5, <2>1, IsShownOrHidden, InstanceOfHost DEF Instances
  <2>3. Shows(instance)' = Shows(instance')
    BY DEF Shows
  <2>4. QED
    BY <1>1, <1>2, <1>5, <2>1, <2>2, <2>3
    DEF IfInv, DomIfTypeOK, InstanceKeeps, IsRendered, RestampRemoves
<1>6. QED
  BY <1>3, <1>4, <1>5

LEMMA DomIfPreserves ==
  ASSUME NoInst \notin AnyInstance, IfInv, [DomIfNext]_domIfVars
  PROVE  IfInv'
<1> USE DEF IfInv, DomIfTypeOK, InstanceKeeps, IsRendered, RestampRemoves
<1>1. CASE SetIf \/ SetRestamp
  BY <1>1 DEF SetIf, SetRestamp, Shows
<1>2. ASSUME NEW text \in Texts, HostChanges(text)
      PROVE  IfInv'
  <2>1. /\ UNCHANGED <<if, restamp, debounced, outer, place>> /\ host' = text
        /\ invalid' = (invalid \/ (~if /\ instance # NoInst))
        /\ instance' = IF if /\ instance # NoInst THEN SetText(instance, text) ELSE instance
    BY <1>2 DEF HostChanges
  <2>2. CASE if /\ instance # NoInst
    <3>1. instance \in AnyInstance /\ Shows(instance)
      BY <2>2, InstanceOfHost
    <3>2. /\ instance' \in Instances /\ Shows(instance') /\ instance'.data = text
          /\ instance'.hide = instance.hide
      BY <2>1, <2>2, <3>1, TextIsSet, InstanceOfHost
    <3>3. Shows(instance)' = Shows(instance')
      BY DEF Shows
    <3>4. instance' # NoInst /\ invalid' = invalid
      BY <2>1, <2>2, <3>2, InstanceOfHost
    <3>5. QED
      BY <2>1, <2>2, <3>2, <3>3, <3>4
  <2>3. CASE ~(if /\ instance # NoInst)
    BY <2>1, <2>3 DEF Shows
  <2>4. QED
    BY <2>2, <2>3
<1>3. CASE OuterShowHide
  <2>1. /\ UNCHANGED <<if, restamp, host, invalid, debounced, place>>
        /\ outer' \in BOOLEAN /\ instance' = ShowHide(instance, outer' \/ ~if)
    BY <1>3 DEF OuterShowHide
  <2>2. CASE instance = NoInst
    BY <2>1, <2>2 DEF ShowHide
  <2>3. CASE instance # NoInst
    <3>1. instance \in AnyInstance /\ Shows(instance) /\ instance.data \in Texts
      BY <2>3, InstanceOfHost DEF Instances
    <3>2. (outer' \/ ~if) \in BOOLEAN
      OBVIOUS
    <3>3. /\ instance' \in Instances /\ Shows(instance') /\ instance'.data = instance.data
          /\ instance'.hide = (outer' \/ ~if)
      BY <2>1, <3>1, <3>2, IsShownOrHidden, InstanceOfHost
    <3>4. Shows(instance)' = Shows(instance') /\ instance' # NoInst
      BY <3>3, InstanceOfHost DEF Shows
    <3>5. QED
      BY <2>1, <2>3, <3>3, <3>4
  <2>4. QED
    BY <2>2, <2>3
<1>4. CASE Detach
  BY <1>4 DEF Detach
<1>5. CASE Attach
  BY <1>5 DEF Attach, Shows
<1>6. CASE Render
  BY <1>6, DomIfRenders
<1>7. CASE UNCHANGED domIfVars
  BY <1>7 DEF domIfVars, Shows
<1>8. QED
  BY <1>1, <1>2, <1>3, <1>4, <1>5, <1>6, <1>7 DEF DomIfNext

(* cloud-dashboard.js:17772-17792,17822-17834,17858-17866: once it is       *)
(* rendered the part is seen exactly when its condition holds and what it   *)
(* is in is seen, with the host's text; with restamp nothing stays while   *)
(* the condition does not hold.  For any values of the host.                *)
THEOREM DomIfShowsHost ==
  ASSUME NoInst \notin AnyInstance
  PROVE  DomIfSpec => [](DomIfTypeOK /\ ShowsHost /\ RestampRemoves)
<1>1. DomIfInit => IfInv
  BY DEF DomIfInit, IfInv, DomIfTypeOK, InstanceKeeps, IsRendered, RestampRemoves
<1>2. IfInv /\ [DomIfNext]_domIfVars => IfInv'
  BY DomIfPreserves
<1>3. IfInv => DomIfTypeOK /\ ShowsHost /\ RestampRemoves
  BY DEF IfInv, DomIfTypeOK, InstanceKeeps, IsRendered, Shows, ShowsHost
<1>4. QED
  BY <1>1, <1>2, <1>3, PTL DEF DomIfSpec

-----------------------------------------------------------------------------
(* A repeated part.                                                         *)

LEMMA ArrayFacts ==
  ASSUME MaxLength \in Nat, NEW array \in Arrays
  PROVE  /\ Len(array) \in 0 .. MaxLength /\ DOMAIN array = 1 .. Len(array)
         /\ \A i \in DOMAIN array : array[i] \in Items
<1>1. PICK n \in 0 .. MaxLength : array \in [1 .. n -> Items]
  BY DEF Arrays
<1>2. array \in Seq(Items) /\ Len(array) = n
  BY <1>1
<1>3. QED
  BY <1>1, <1>2

RepeatConstants ==
    /\ Items \subseteq Int /\ MaxLength \in Nat /\ InitialCount \in Nat
    /\ NoRender \notin {"render", "chunk"}

LEMMA ShownFinite ==
  ASSUME RepeatConstants, items \in Arrays, NEW I \in SUBSET Shown
  PROVE  /\ IsFiniteSet(I) /\ Cardinality(I) \in Nat /\ Cardinality(I) <= Len(items)
         /\ Len(items) \in Nat /\ \A i \in Shown : i \in 1 .. Len(items) /\ items[i] \in Int
<1>1. Len(items) \in Nat /\ DOMAIN items = 1 .. Len(items)
      /\ \A i \in DOMAIN items : items[i] \in Int
  <2>1. MaxLength \in Nat /\ Items \subseteq Int
    BY DEF RepeatConstants
  <2>2. /\ Len(items) \in 0 .. MaxLength /\ DOMAIN items = 1 .. Len(items)
        /\ \A i \in DOMAIN items : items[i] \in Items
    BY <2>1, ArrayFacts
  <2>3. \A i \in DOMAIN items : items[i] \in Int
    BY <2>1, <2>2
  <2>4. QED
    BY <2>2, <2>3
<1>2. I \in SUBSET (1 .. Len(items))
  BY <1>1 DEF Shown
<1>3. IsFiniteSet(1 .. Len(items)) /\ Cardinality(1 .. Len(items)) = Len(items)
  BY <1>1, FS_Interval
<1>4. IsFiniteSet(I) /\ Cardinality(I) <= Len(items)
  BY <1>2, <1>3, FS_Subset
<1>5. QED
  BY <1>1, <1>4, FS_CardinalityType DEF Shown

(* The items are shown in an order: of two one is before the other ...      *)
LEMMA BeforeOrders ==
  ASSUME RepeatConstants, items \in Arrays, NEW i \in Shown, NEW j \in Shown, NEW k \in Shown
  PROVE  /\ ~Before(i, i)
         /\ Before(i, j) => ~Before(j, i)
         /\ i # j => Before(i, j) \/ Before(j, i)
         /\ Before(i, j) /\ Before(j, k) => Before(i, k)
<1>1. /\ i \in Int /\ j \in Int /\ k \in Int
      /\ items[i] \in Int /\ items[j] \in Int /\ items[k] \in Int
  BY ShownFinite
<1>2. QED
  BY <1>1 DEF Before

(* ... so that each has a place of its own among as many as there are ...   *)
LEMMA PlaceInRange ==
  ASSUME RepeatConstants, items \in Arrays, NEW i \in Shown
  PROVE  Place(i) \in 1 .. Cardinality(Shown)
<1> DEFINE B == {j \in Shown : Before(j, i)}
<1>1. IsFiniteSet(Shown) /\ IsFiniteSet(B) /\ Cardinality(B) \in Nat /\ Cardinality(Shown) \in Nat
  BY ShownFinite, B \in SUBSET Shown, Shown \in SUBSET Shown
<1>2. B \in SUBSET Shown /\ B # Shown
  BY BeforeOrders
<1>3. Cardinality(B) <= Cardinality(Shown) /\ Cardinality(B) # Cardinality(Shown)
  BY <1>1, <1>2, FS_Subset
<1>4. QED
  BY <1>1, <1>3 DEF Place

LEMMA PlaceIsOrdered ==
  ASSUME RepeatConstants, items \in Arrays, NEW i \in Shown, NEW j \in Shown, Before(i, j)
  PROVE  Place(i) < Place(j)
<1> DEFINE A == {k \in Shown : Before(k, i)}
           B == {k \in Shown : Before(k, j)}
<1>1. /\ IsFiniteSet(A) /\ Cardinality(A) \in Nat
      /\ IsFiniteSet(B) /\ Cardinality(B) \in Nat
  BY ShownFinite, A \in SUBSET Shown, B \in SUBSET Shown
<1>2. A \in SUBSET B
  BY BeforeOrders
<1>3. i \in B /\ i \notin A
  BY BeforeOrders
<1>4. Cardinality(A) <= Cardinality(B) /\ Cardinality(A) # Cardinality(B)
  BY <1>1, <1>2, <1>3, FS_Subset
<1>5. QED
  BY <1>1, <1>4 DEF Place

(* ... and each place is taken.                                             *)
LEMMA PlaceIsTaken ==
  ASSUME RepeatConstants, items \in Arrays, NEW k \in 1 .. Cardinality(Shown)
  PROVE  \E i \in Shown : Place(i) = k
<1> DEFINE N == 1 .. Cardinality(Shown)
           f == [i \in Shown |-> Place(i)]
<1>1. IsFiniteSet(Shown) /\ Cardinality(Shown) \in Nat
  BY ShownFinite, Shown \in SUBSET Shown
<1>2. f \in [Shown -> N]
  BY PlaceInRange
<1>3. \A a, b \in Shown : f[a] = f[b] => a = b
  <2> SUFFICES ASSUME NEW a \in Shown, NEW b \in Shown, a # b PROVE f[a] # f[b]
    OBVIOUS
  <2>1. Before(a, b) \/ Before(b, a)
    BY BeforeOrders
  <2>2. Place(a) \in N /\ Place(b) \in N
    BY PlaceInRange
  <2>3. Place(a) < Place(b) \/ Place(b) < Place(a)
    BY <2>1, PlaceIsOrdered
  <2>4. QED
    BY <1>1, <2>2, <2>3
<1>4. f \in Injection(Shown, N)
  BY <1>2, <1>3 DEF Injection, IsInjective
<1>5. IsFiniteSet(N) /\ Cardinality(N) = Cardinality(Shown)
  BY <1>1, FS_Interval
<1>6. f \in Surjection(Shown, N)
  BY <1>1, <1>4, <1>5, FS_Injection
<1>7. QED
  BY <1>6 DEF Surjection

(* cloud-dashboard.js:17460-17474: what is selected are exactly the items   *)
(* the filter passes, each once, and each before those that come after it   *)
(* in the order, for any array of any length.                               *)
THEOREM SelectedInOrder ==
  ASSUME RepeatConstants, items \in Arrays
  PROVE  /\ Selected \in Seq(Shown) /\ Len(Selected) = Cardinality(Shown)
         /\ \A i \in Shown : \E k \in DOMAIN Selected : Selected[k] = i
         /\ \A k, l \in DOMAIN Selected : k < l => Before(Selected[k], Selected[l])
<1>1. Cardinality(Shown) \in Nat
  BY ShownFinite, Shown \in SUBSET Shown
<1>2. \A k \in 1 .. Cardinality(Shown) : Selected[k] \in Shown /\ Place(Selected[k]) = k
  BY PlaceIsTaken DEF Selected
<1>3. Selected \in Seq(Shown) /\ Len(Selected) = Cardinality(Shown)
      /\ DOMAIN Selected = 1 .. Cardinality(Shown)
  BY <1>1, <1>2 DEF Selected
<1>4. ASSUME NEW i \in Shown, NEW j \in Shown, Place(i) = Place(j)
      PROVE  i = j
  <2>1. Place(i) \in Nat /\ Place(j) \in Nat
    BY <1>1, PlaceInRange
  <2>2. ~(Place(i) < Place(j)) /\ ~(Place(j) < Place(i))
    BY <1>4, <2>1
  <2>3. QED
    BY <2>2, PlaceIsOrdered, BeforeOrders
<1>5. ASSUME NEW i \in Shown
      PROVE  \E k \in DOMAIN Selected : Selected[k] = i
  <2>1. Place(i) \in 1 .. Cardinality(Shown)
    BY PlaceInRange
  <2>2. Selected[Place(i)] \in Shown /\ Place(Selected[Place(i)]) = Place(i)
    BY <1>2, <2>1
  <2>3. Selected[Place(i)] = i
    BY <1>4, <2>2
  <2>4. QED
    BY <1>3, <2>1, <2>3
<1>6. ASSUME NEW k \in DOMAIN Selected, NEW l \in DOMAIN Selected, k < l
      PROVE  Before(Selected[k], Selected[l])
  <2>1. /\ Selected[k] \in Shown /\ Place(Selected[k]) = k
        /\ Selected[l] \in Shown /\ Place(Selected[l]) = l
    BY <1>2, <1>3
  <2>2. ~(l < k) /\ k # l
    BY <1>1, <1>3, <1>6
  <2>3. ~Before(Selected[l], Selected[k]) /\ Selected[k] # Selected[l]
    BY <2>1, <2>2, PlaceIsOrdered
  <2>4. QED
    BY <2>1, <2>3, BeforeOrders
<1>7. QED
  BY <1>3, <1>5, <1>6

-----------------------------------------------------------------------------
RepeatTypes ==
    /\ items \in Arrays
    /\ filter \in BOOLEAN /\ sort \in BOOLEAN /\ rendered \in BOOLEAN
    /\ instances \in Seq([item : Items, index : Nat, itemsIndex : 1 .. MaxLength])
    /\ \A k \in DOMAIN instances : instances[k].index = k
    /\ limit \in Nat /\ chunks \in Nat /\ notifying \in Nat /\ replaced \in BOOLEAN
    /\ render \in {"render", "chunk", NoRender}

(* Whatever was changed since, the instances and the indices they were      *)
(* rendered with lead to each other.                                        *)
IndicesLink ==
    /\ \A k \in DOMAIN instances :
          /\ instances[k].itemsIndex \in DOMAIN instOf
          /\ instOf[instances[k].itemsIndex] = k
    /\ \A i \in DOMAIN instOf :
          instOf[i] \in DOMAIN instances /\ instances[instOf[i]].itemsIndex = i

ItemsAgree ==
    render # "render" /\ ~replaced =>
        \A k \in DOMAIN instances :
            /\ instances[k].itemsIndex \in DOMAIN items
            /\ instances[k].item = items[instances[k].itemsIndex]

(* What was rendered last is shown, and if the limit may cut it off a frame *)
(* is to come, when the listeners were told.                                *)
LimitedAreShown ==
    /\ render # "render" /\ ~replaced /\ rendered =>
          /\ DOMAIN instances = DOMAIN Limited
          /\ \A k \in DOMAIN instances : instances[k].itemsIndex = Limited[k]
    /\ render = NoRender /\ notifying = 0 => chunks > 0 \/ limit >= Len(items)

RepeatInv == RepeatTypes /\ IndicesLink /\ ItemsAgree /\ LimitedAreShown /\ ReplacedComes

(* What the limit lets through.                                             *)
LEMMA LimitedAreSelected ==
  ASSUME RepeatConstants, items \in Arrays, limit \in Nat
  PROVE  /\ Limited \in Seq(Shown)
         /\ \A k, l \in DOMAIN Limited : Limited[k] = Limited[l] => k = l
         /\ limit >= Len(items) => Limited = Selected
<1> DEFINE m == IF Len(Selected) < limit THEN Len(Selected) ELSE limit
<1>1. /\ Selected \in Seq(Shown) /\ Len(Selected) = Cardinality(Shown)
      /\ \A k, l \in DOMAIN Selected : k < l => Before(Selected[k], Selected[l])
  BY SelectedInOrder
<1>2. Len(Selected) \in Nat /\ m \in 0 .. Len(Selected) /\ DOMAIN Selected = 1 .. Len(Selected)
  BY <1>1
<1>3. Limited = [k \in 1 .. m |-> Selected[k]] /\ Limited \in Seq(Shown)
  BY <1>1, <1>2 DEF Limited
<1>4. ASSUME NEW k \in DOMAIN Limited, NEW l \in DOMAIN Limited, Limited[k] = Limited[l]
      PROVE  k = l
  <2>1. /\ k \in DOMAIN Selected /\ l \in DOMAIN Selected
        /\ Selected[k] = Selected[l] /\ Selected[k] \in Shown
    BY <1>1, <1>2, <1>3, <1>4
  <2>2. ~Before(Selected[k], Selected[l]) /\ ~Before(Selected[l], Selected[k])
    BY <2>1, BeforeOrders
  <2>3. ~(k < l) /\ ~(l < k)
    BY <1>1, <2>1, <2>2
  <2>4. QED
    BY <1>2, <2>1, <2>3
<1>5. ASSUME limit >= Len(items)
      PROVE  Limited = Selected
  <2>1. Len(Selected) <= Len(items) /\ Len(items) \in Nat
    BY <1>1, ShownFinite, Shown \in SUBSET Shown
  <2>2. m = Len(Selected)
    <3>1. \A a, b \in Nat : a <= b => (IF a < b THEN a ELSE b) = a
      OBVIOUS
    <3>2. Len(Selected) \in Nat /\ limit \in Nat /\ Len(Selected) <= limit
      BY <1>2, <1>5, <2>1
    <3> HIDE DEF m
    <3>3. (IF Len(Selected) < limit THEN Len(Selected) ELSE limit) = Len(Selected)
      BY <3>1, <3>2
    <3>4. QED
      BY <3>3 DEF m
  <2>3. Selected = [k \in 1 .. Len(Selected) |-> Selected[k]]
    BY <1>1
  <2>4. QED
    BY <1>3, <2>2, <2>3
<1>6. QED
  BY <1>3, <1>4, <1>5

LEMMA RenderItemsPreserves ==
  ASSUME RepeatConstants, RepeatInv, RenderItems
  PROVE  RepeatInv'
<1>1. RepeatTypes /\ items \in Arrays /\ limit \in Nat
  BY DEF RepeatInv, RepeatTypes
<1>2. /\ UNCHANGED <<items, filter, sort, limit, chunks>> /\ rendered' = TRUE
      /\ render' = NoRender /\ replaced' = FALSE /\ notifying' = notifying + 1
  BY DEF RenderItems
<1>3. Limited \in Seq(Shown) /\ \A k, l \in DOMAIN Limited : Limited[k] = Limited[l] => k = l
  BY <1>1, LimitedAreSelected
<1>4. Limited' = Limited
  BY <1>2 DEF Limited, Selected, Shown, Place, Before
<1>5. /\ Len(items) \in Nat
      /\ \A i \in Shown : i \in DOMAIN items /\ i \in 1 .. MaxLength /\ items[i] \in Items
  <2>1. Len(items) \in 0 .. MaxLength /\ DOMAIN items = 1 .. Len(items)
        /\ \A i \in DOMAIN items : items[i] \in Items
    BY <1>1, ArrayFacts DEF RepeatConstants
  <2>2. MaxLength \in Nat
    BY DEF RepeatConstants
  <2>3. \A i \in 1 .. Len(items) : i \in 1 .. MaxLength
    BY <2>1, <2>2
  <2>4. QED
    BY <2>1, <2>3 DEF Shown
<1> DEFINE D == DOMAIN Limited
           L == Limited
<1>6. D = 1 .. Len(L) /\ Len(L) \in Nat /\ \A k \in D : L[k] \in Shown
  BY <1>3
<1>7. instances' = [k \in D |-> [item |-> items[L[k]], index |-> k, itemsIndex |-> L[k]]]
  BY DEF RenderItems, Refreshed
<1>8. instOf' = [i \in Range(L) |-> CHOOSE k \in D : L[k] = i]
  BY DEF RenderItems
<1> HIDE DEF D, L
<1>9. /\ instances' \in Seq([item : Items, index : Nat, itemsIndex : 1 .. MaxLength])
      /\ DOMAIN instances' = D
      /\ \A k \in D : /\ instances'[k].itemsIndex = L[k] /\ instances'[k].item = items[L[k]]
                      /\ instances'[k].index = k
  BY <1>5, <1>6, <1>7
<1>10. \A i \in Range(L) : \E k \in D : L[k] = i
  BY DEF Range, D, L
<1>11. \A k \in D : L[k] \in Range(L)
  BY DEF Range, D, L
<1>12. \A k, l \in D : L[k] = L[l] => k = l
  BY <1>3 DEF D, L
<1>13. /\ DOMAIN instOf' = Range(L)
       /\ \A i \in Range(L) : instOf'[i] \in D /\ L[instOf'[i]] = i
  BY <1>8, <1>10
<1>14. IndicesLink'
  <2>1. ASSUME NEW k \in D
        PROVE  instances'[k].itemsIndex \in DOMAIN instOf' /\ instOf'[instances'[k].itemsIndex] = k
    <3>1. instances'[k].itemsIndex = L[k] /\ L[k] \in Range(L)
      BY <1>9, <1>11
    <3>2. instOf'[L[k]] \in D /\ L[instOf'[L[k]]] = L[k]
      BY <1>13, <3>1
    <3>3. instOf'[L[k]] = k
      BY <1>12, <3>2
    <3>4. QED
      BY <1>13, <3>1, <3>3
  <2>2. ASSUME NEW i \in Range(L)
        PROVE  instOf'[i] \in DOMAIN instances' /\ instances'[instOf'[i]].itemsIndex = i
    BY <1>9, <1>13
  <2>3. QED
    BY <1>9, <1>13, <2>1, <2>2 DEF IndicesLink
<1>15. ItemsAgree'
  BY <1>2, <1>5, <1>6, <1>9 DEF ItemsAgree
<1>16. LimitedAreShown'
  <2>1. \A k \in D : instances'[k].itemsIndex = Limited'[k] /\ D = DOMAIN Limited'
    BY <1>4, <1>9 DEF D, L
  <2>2. notifying' # 0
    BY <1>1, <1>2 DEF RepeatTypes
  <2>3. (DOMAIN instances = DOMAIN Limited)'
    BY <1>4, <1>9 DEF D
  <2>4. QED
    BY <1>2, <1>9, <2>1, <2>2, <2>3 DEF LimitedAreShown
<1>17. RepeatTypes'
  <2>1. notifying \in Nat /\ filter \in BOOLEAN /\ sort \in BOOLEAN /\ chunks \in Nat
    BY <1>1 DEF RepeatTypes
  <2>2. notifying' \in Nat /\ replaced' \in BOOLEAN /\ rendered' \in BOOLEAN
    <3>1. notifying' = notifying + 1
      BY <1>2
    <3>2. notifying' \in Nat
      BY <2>1, <3>1
    <3>3. replaced' = FALSE /\ rendered' = TRUE
      BY <1>2
    <3>4. QED
      BY <3>2, <3>3
  <2>3. items' \in Arrays
    BY <1>1, <1>2 DEF Arrays
  <2>4. QED
    BY <1>1, <1>2, <1>9, <2>1, <2>2, <2>3 DEF RepeatTypes
<1>18. ReplacedComes'
  BY <1>2 DEF ReplacedComes
<1>19. QED
  BY <1>14, <1>15, <1>16, <1>17, <1>18 DEF RepeatInv

LEMMA ItemChangesPreserves ==
  ASSUME RepeatConstants, RepeatInv, NEW i \in 1 .. MaxLength, NEW item \in Items, ItemChanges(i, item)
  PROVE  RepeatInv'
<1>1. RepeatTypes /\ IndicesLink /\ ItemsAgree /\ LimitedAreShown /\ ReplacedComes
  BY DEF RepeatInv
<1>2. /\ i \in DOMAIN items /\ items' = [items EXCEPT ![i] = item] /\ rendered' = FALSE
      /\ UNCHANGED <<filter, sort, instOf, limit, render, chunks, notifying, replaced>>
      /\ instances' = IF Found(i) = 0 THEN instances
                      ELSE [instances EXCEPT ![Found(i)] = [instances[Found(i)] EXCEPT !.item = item]]
  BY DEF ItemChanges, Given
<1>3. items' \in Arrays /\ Len(items') = Len(items) /\ DOMAIN items' = DOMAIN items
  <2>1. PICK n \in 0 .. MaxLength : items \in [1 .. n -> Items]
    BY <1>1 DEF RepeatTypes, Arrays
  <2>2. items' \in [1 .. n -> Items]
    BY <1>2, <2>1
  <2>3. items' \in Arrays
    BY <2>1, <2>2 DEF Arrays
  <2>4. /\ Len(items) \in Nat /\ DOMAIN items = 1 .. Len(items)
        /\ Len(items') \in Nat /\ DOMAIN items' = 1 .. Len(items')
    BY <1>1, <2>3, ArrayFacts DEF RepeatConstants, RepeatTypes
  <2>5. Len(items') = Len(items)
    BY <2>1, <2>2, <2>4
  <2>6. QED
    BY <2>3, <2>4, <2>5
<1>4. LimitedAreShown' /\ ReplacedComes'
  BY <1>1, <1>2, <1>3 DEF LimitedAreShown, ReplacedComes
<1>5. CASE i \in DOMAIN instOf
  <2> DEFINE at == instOf[i]
  <2>1. at \in DOMAIN instances /\ instances[at].itemsIndex = i
        /\ at \in 1 .. Len(instances) /\ Len(instances) \in Nat
    BY <1>1, <1>5 DEF IndicesLink, RepeatTypes
  <2>2. Found(i) = at /\ at # 0
    BY <1>5, <2>1 DEF Found
  <2> HIDE DEF at
  <2>3. instances' = [instances EXCEPT ![at] = [instances[at] EXCEPT !.item = item]]
    BY <1>2, <2>2
  <2>4. instances[at] \in [item : Items, index : Nat, itemsIndex : 1 .. MaxLength]
    <3>1. instances \in Seq([item : Items, index : Nat, itemsIndex : 1 .. MaxLength])
      BY <1>1 DEF RepeatTypes
    <3>2. \A S : instances \in Seq(S) => \A k \in 1 .. Len(instances) : instances[k] \in S
      OBVIOUS
    <3>3. at \in 1 .. Len(instances)
      BY <2>1
    <3>4. QED
      BY <3>1, <3>2, <3>3
  <2>5. /\ [instances[at] EXCEPT !.item = item] \in [item : Items, index : Nat, itemsIndex : 1 .. MaxLength]
        /\ [instances[at] EXCEPT !.item = item].item = item
        /\ [instances[at] EXCEPT !.item = item].itemsIndex = i
        /\ [instances[at] EXCEPT !.item = item].index = instances[at].index
    BY <2>1, <2>4
  <2>6. /\ instances' \in Seq([item : Items, index : Nat, itemsIndex : 1 .. MaxLength])
        /\ DOMAIN instances' = DOMAIN instances
        /\ instances'[at].item = item
        /\ \A k \in DOMAIN instances : /\ instances'[k].itemsIndex = instances[k].itemsIndex
                                        /\ instances'[k].index = instances[k].index
        /\ \A k \in DOMAIN instances : k # at => instances'[k] = instances[k]
    BY <1>1, <2>1, <2>3, <2>5 DEF RepeatTypes
  <2>7. IndicesLink'
    <3>1. \A k \in DOMAIN instances' :
             /\ instances'[k].itemsIndex \in DOMAIN instOf'
             /\ instOf'[instances'[k].itemsIndex] = k
      BY <1>1, <1>2, <2>6 DEF IndicesLink
    <3>2. \A j \in DOMAIN instOf' :
             instOf'[j] \in DOMAIN instances' /\ instances'[instOf'[j]].itemsIndex = j
      BY <1>1, <1>2, <2>6 DEF IndicesLink
    <3>3. QED
      BY <3>1, <3>2 DEF IndicesLink
  <2>8. \A k \in DOMAIN instances : k # at => instances[k].itemsIndex # i
    BY <1>1 DEF IndicesLink, at
  <2>9. ItemsAgree'
    <3> SUFFICES ASSUME render # "render", ~replaced, NEW k \in DOMAIN instances
                 PROVE  /\ instances'[k].itemsIndex \in DOMAIN items'
                        /\ instances'[k].item = items'[instances'[k].itemsIndex]
      BY <1>2, <2>6 DEF ItemsAgree
    <3>1. /\ instances[k].itemsIndex \in DOMAIN items
          /\ instances[k].item = items[instances[k].itemsIndex]
      BY <1>1 DEF ItemsAgree
    <3>2. CASE k = at
      BY <1>2, <1>3, <2>1, <2>6, <3>1, <3>2
    <3>3. CASE k # at
      BY <1>2, <1>3, <2>6, <2>8, <3>1, <3>3
    <3>4. QED
      BY <3>2, <3>3
  <2>10. RepeatTypes'
    BY <1>1, <1>2, <1>3, <2>6 DEF RepeatTypes
  <2>11. QED
    BY <1>4, <2>7, <2>9, <2>10 DEF RepeatInv
<1>6. CASE i \notin DOMAIN instOf
  <2>1. instances' = instances
    BY <1>2, <1>6 DEF Found
  <2>2. \A k \in DOMAIN instances : instances[k].itemsIndex # i
    BY <1>1, <1>6 DEF IndicesLink
  <2>3. ItemsAgree'
    BY <1>1, <1>2, <1>3, <2>1, <2>2 DEF ItemsAgree
  <2>4. IndicesLink' /\ RepeatTypes'
    BY <1>1, <1>2, <1>3, <2>1 DEF IndicesLink, RepeatTypes
  <2>5. QED
    BY <1>4, <2>3, <2>4 DEF RepeatInv
<1>7. QED
  BY <1>5, <1>6

LEMMA RepeatPreserves ==
  ASSUME RepeatConstants, RepeatInv, [RepeatNext]_repeatVars
  PROVE  RepeatInv'
<1>1. RepeatTypes /\ IndicesLink /\ ItemsAgree /\ LimitedAreShown /\ ReplacedComes
      /\ MaxLength \in Nat /\ InitialCount \in Nat /\ NoRender \notin {"render", "chunk"}
  BY DEF RepeatInv, RepeatConstants
<1>2. CASE (\E array \in Arrays : ItemsChange(array)) \/ FilterChanges \/ SortChanges \/ RenderChunk
  <2>1. /\ UNCHANGED <<instances, instOf, rendered, notifying, replaced>> /\ render' = "render"
        /\ items' \in Arrays /\ filter' \in BOOLEAN /\ sort' \in BOOLEAN
        /\ limit' \in Nat /\ chunks' \in Nat
    <3>1. CASE \E array \in Arrays : ItemsChange(array)
      BY <1>1, <3>1 DEF ItemsChange, RepeatTypes
    <3>2. CASE FilterChanges \/ SortChanges
      BY <1>1, <3>2 DEF FilterChanges, SortChanges, RepeatTypes
    <3>3. CASE RenderChunk
      <4>1. PICK count \in 1 .. MaxLength :
                 limit' = IF limit + count > MaxLength THEN MaxLength ELSE limit + count
        BY <3>3 DEF RenderChunk, Infinity
      <4>2. limit' \in Nat
        BY <1>1, <4>1 DEF RepeatTypes
      <4>3. chunks' \in Nat /\ render' = "render"
            /\ UNCHANGED <<items, filter, sort, instances, instOf, rendered, notifying, replaced>>
        BY <1>1, <3>3 DEF RenderChunk, RepeatTypes
      <4>4. QED
        BY <1>1, <4>2, <4>3 DEF RepeatTypes
    <3>4. QED
      BY <1>2, <3>1, <3>2, <3>3
  <2>2. RepeatTypes' /\ IndicesLink'
    BY <1>1, <2>1 DEF RepeatTypes, IndicesLink
  <2>3. ItemsAgree' /\ LimitedAreShown' /\ ReplacedComes'
    BY <1>1, <2>1 DEF ItemsAgree, LimitedAreShown, ReplacedComes
  <2>4. QED
    BY <2>2, <2>3 DEF RepeatInv
<1>3. ASSUME NEW i \in 1 .. MaxLength, NEW item \in Items, ItemChanges(i, item)
      PROVE  RepeatInv'
  BY <1>3, ItemChangesPreserves
<1>4. CASE RenderItems
  BY <1>4, RenderItemsPreserves
<1>5. CASE RequestChunk
  <2>1. /\ render = "chunk" /\ render' = NoRender /\ chunks' = chunks + 1
        /\ UNCHANGED <<items, filter, sort, instances, instOf, limit, rendered, notifying, replaced>>
    BY <1>5 DEF RequestChunk
  <2>2. chunks' \in Nat /\ chunks' > 0
    BY <1>1, <2>1 DEF RepeatTypes
  <2>3. Limited' = Limited
    BY <2>1 DEF Limited, Selected, Shown, Place, Before
  <2>4. RepeatTypes' /\ IndicesLink' /\ ItemsAgree'
    BY <1>1, <2>1, <2>2 DEF RepeatTypes, IndicesLink, ItemsAgree
  <2>5. LimitedAreShown' /\ ReplacedComes'
    BY <1>1, <2>1, <2>2, <2>3 DEF LimitedAreShown, ReplacedComes
  <2>6. QED
    BY <2>4, <2>5 DEF RepeatInv
<1>6. CASE TryRenderChunk
  <2>1. /\ notifying > 0 /\ notifying' = notifying - 1
        /\ IF limit < Len(items)
           THEN render' = "chunk" /\ replaced' = (replaced \/ render = "render")
           ELSE UNCHANGED <<render, replaced>>
        /\ UNCHANGED <<items, filter, sort, instances, instOf, limit, chunks, rendered>>
    BY <1>6 DEF TryRenderChunk
  <2>2. Limited' = Limited
    BY <2>1 DEF Limited, Selected, Shown, Place, Before
  <2>3. /\ notifying' \in Nat /\ replaced' \in BOOLEAN
        /\ render' \in {"render", "chunk", NoRender}
        /\ render' # "render" /\ ~replaced' => render # "render" /\ ~replaced
        /\ replaced' => render' = "chunk" \/ (replaced /\ render' = render)
    <3>1. notifying \in Nat /\ replaced \in BOOLEAN /\ render \in {"render", "chunk", NoRender}
      BY <1>1 DEF RepeatTypes
    <3>2. notifying' \in Nat
      BY <2>1, <3>1
    <3>3. CASE limit < Len(items)
      BY <2>1, <3>1, <3>2, <3>3
    <3>4. CASE ~(limit < Len(items))
      BY <2>1, <3>1, <3>2, <3>4
    <3>5. QED
      BY <3>3, <3>4
  <2>4. RepeatTypes' /\ IndicesLink' /\ ItemsAgree'
    BY <1>1, <2>1, <2>3 DEF RepeatTypes, IndicesLink, ItemsAgree
  <2>5. render' = NoRender => ~(limit < Len(items))
    BY <1>1, <2>1
  <2>6. Len(items) \in Nat /\ limit \in Nat
    BY <1>1, ArrayFacts DEF RepeatTypes
  <2>7. LimitedAreShown'
    BY <1>1, <2>1, <2>2, <2>3, <2>5, <2>6 DEF LimitedAreShown
  <2>8. ReplacedComes'
    BY <1>1, <2>1, <2>3 DEF ReplacedComes
  <2>9. QED
    BY <2>4, <2>7, <2>8 DEF RepeatInv
<1>7. CASE UNCHANGED repeatVars
  <2>1. UNCHANGED <<items, filter, sort, instances, instOf, limit, render, chunks, rendered,
                    notifying, replaced>>
    BY <1>7 DEF repeatVars
  <2>2. Limited' = Limited
    BY <2>1 DEF Limited, Selected, Shown, Place, Before
  <2>3. QED
    BY <1>1, <2>1, <2>2
    DEF RepeatInv, RepeatTypes, IndicesLink, ItemsAgree, LimitedAreShown, ReplacedComes
<1>8. QED
  BY <1>2, <1>3, <1>4, <1>5, <1>6, <1>7 DEF RepeatNext

LEMMA RepeatStarts ==
  ASSUME RepeatConstants, RepeatInit
  PROVE  RepeatInv
<1>1. /\ items = <<>> /\ instances = <<>> /\ instOf = <<>> /\ filter = FALSE /\ sort = FALSE
      /\ rendered = TRUE /\ render = NoRender /\ chunks = 0 /\ limit \in Nat
      /\ notifying = 0 /\ replaced = FALSE
  BY DEF RepeatInit, RepeatConstants, Infinity
<1>2. items \in Arrays
  <2>1. items \in [1 .. 0 -> Items] /\ 0 \in 0 .. MaxLength
    BY <1>1 DEF RepeatConstants
  <2>2. QED
    BY <2>1 DEF Arrays
<1>3. Len(items) = 0 /\ DOMAIN instances = {} /\ DOMAIN instOf = {}
  BY <1>1
<1>4. DOMAIN Limited = {}
  <2>1. Limited \in Seq(Shown) /\ DOMAIN items = {}
    BY <1>1, <1>2, LimitedAreSelected
  <2>2. Shown = {}
    BY <2>1 DEF Shown
  <2>3. QED
    BY <2>1, <2>2
<1>5. instances \in Seq([item : Items, index : Nat, itemsIndex : 1 .. MaxLength])
  BY <1>1
<1>6. RepeatTypes
  BY <1>1, <1>2, <1>3, <1>5 DEF RepeatTypes
<1>7. IndicesLink /\ ItemsAgree
  BY <1>3 DEF IndicesLink, ItemsAgree
<1>8. LimitedAreShown /\ ReplacedComes
  BY <1>1, <1>3, <1>4 DEF LimitedAreShown, ReplacedComes
<1>9. QED
  BY <1>6, <1>7, <1>8 DEF RepeatInv

(* When nothing is debounced, no listener is being told and no frame is to  *)
(* come all are shown.                                                      *)
LEMMA RepeatShows ==
  ASSUME RepeatConstants, RepeatInv
  PROVE  RepeatTypeOK /\ InstancesAgree /\ ReplacedComes /\ AllShown
<1>1. /\ RepeatTypes /\ IndicesLink /\ ItemsAgree /\ LimitedAreShown /\ ReplacedComes
      /\ NoRender # "render"
  BY DEF RepeatInv, RepeatConstants
<1>2. InstancesAgree
  BY <1>1 DEF IndicesLink, ItemsAgree, InstancesAgree
<1>3. ASSUME render = NoRender, chunks = 0, notifying = 0, rendered
      PROVE  [k \in DOMAIN instances |-> instances[k].itemsIndex] = Selected
  <2>1. items \in Arrays /\ limit \in Nat /\ limit >= Len(items) /\ ~replaced
    BY <1>1, <1>3 DEF RepeatTypes, LimitedAreShown, ReplacedComes
  <2>2. Limited = Selected
    BY <2>1, LimitedAreSelected
  <2>3. /\ DOMAIN instances = DOMAIN Selected
        /\ \A k \in DOMAIN instances : instances[k].itemsIndex = Selected[k]
    BY <1>1, <1>3, <2>1, <2>2 DEF LimitedAreShown
  <2>4. Selected = [k \in DOMAIN Selected |-> Selected[k]]
    BY DEF Selected
  <2>5. QED
    BY <2>3, <2>4
<1>4. RepeatTypeOK
  <2>1. ASSUME NEW k \in DOMAIN instances
        PROVE  instances[k] \in [item : Items, index : {k}, itemsIndex : 1 .. MaxLength]
    <3>1. instances[k] \in [item : Items, index : Nat, itemsIndex : 1 .. MaxLength]
      <4>1. \A S : instances \in Seq(S) => \A i \in DOMAIN instances : instances[i] \in S
        OBVIOUS
      <4>2. QED
        BY <1>1, <4>1 DEF RepeatTypes
    <3>2. instances[k].index = k
      BY <1>1 DEF RepeatTypes
    <3>3. QED
      BY <3>1, <3>2
  <2>2. QED
    BY <1>1, <2>1 DEF RepeatTypes, RepeatTypeOK
<1>5. QED
  BY <1>1, <1>2, <1>3, <1>4 DEF AllShown

(* cloud-dashboard.js:17302-17310,17356-17378,17416,17450-17497,17571-17579: *)
(* when no render waits, and none that a listener asked for was replaced,   *)
(* each instance has the item of its index; what was replaced is made up    *)
(* for; and when nothing is to come all items the filter passes are shown,  *)
(* in order: for any length of the array and of the chunks, and any number  *)
(* of renders within renders' listeners.                                    *)
THEOREM RepeatShowsAll ==
  ASSUME RepeatConstants
  PROVE  RepeatSpec => [](RepeatTypeOK /\ InstancesAgree /\ ReplacedComes /\ AllShown)
<1>1. RepeatInit => RepeatInv
  BY RepeatStarts
<1>2. RepeatInv /\ [RepeatNext]_repeatVars => RepeatInv'
  BY RepeatPreserves
<1>3. RepeatInv => RepeatTypeOK /\ InstancesAgree /\ ReplacedComes /\ AllShown
  BY RepeatShows
<1>4. QED
  BY <1>1, <1>2, <1>3, PTL DEF RepeatSpec

-----------------------------------------------------------------------------
(* A property that is reflected to an attribute.                            *)
AttributesConstants ==
    /\ Types \subseteq {"Number", "Boolean", "Object", "Array", "String"}
    /\ Absent \notin {"", "0", "1", "NaN", "{}"}

Words == Written \cup {Absent, "", "0", "1", "NaN", "{}"}

AnyValue ==
    [type : {"undefined", "null", "number", "boolean", "object", "string"},
     of : Words \cup {"true", "false"}, made : Nat]

AnyFlush ==
    [at : {"clients", "reflect", "heard", "told", "serialized", "observe"}, with : AnyValue]

(* The values that a property of the type has: each is written as it is     *)
(* read.                                                                    *)
OfType(v, t) ==
    \/ v \in {Undef, Null}
    \/ v.type = "number" /\ v.of \in {"0", "1"} /\ t \in {"Number", "Object", "Array"}
    \/ v.type = "number" /\ v.of = "NaN" /\ t = "Number"
    \/ v.type = "boolean" /\ v.of \in {"true", "false"} /\ t = "Boolean"
    \/ v.type = "object" /\ v.of = "{}" /\ t \in {"Object", "Array"}
    \/ v.type = "string" /\ v.of \in Words \ {Absent} /\ t = "String"

AttributeTypes ==
    /\ type \in Types /\ hosted \in Words /\ attribute \in Words
    /\ phase \in {"plain", "built", "ready"}
    /\ own \subseteq AnyValue /\ \A v \in own : OfType(v, type)
    /\ value \in AnyValue /\ OfType(value, type)
    /\ serializing \in BOOLEAN
    /\ stack \in Seq(AnyFlush)
    /\ writes \in Nat

(* Only a flush that can be interrupted has others within it.               *)
Interrupted ==
    \A i \in DOMAIN stack : i > 1 => stack[i].at \in {"clients", "told", "observe"}

(* An attribute that the element serializes is told only to itself.         *)
SerializesInTurn ==
    /\ phase # "ready" => stack = <<>>
    /\ Turn \in {"page", "observe"} => ~serializing
    /\ Turn = "heard" => serializing

(* What a text is read as.                                                  *)
Reading(text, t) ==
    CASE t = "Number" -> <<"number", Number(text).of>>
      [] t = "Boolean" -> <<"boolean", IF text = Absent THEN "false" ELSE "true">>
      [] t = "String" -> IF text = Absent THEN <<"null", "">> ELSE <<"string", text>>
      [] t \in {"Object", "Array"} ->
            IF text = "{}" THEN <<"object", "{}">>
            ELSE IF text \in {"0", "1"} THEN <<"number", text>>
            ELSE IF text = Absent \/ t = "Array" THEN <<"null", "">>
            ELSE <<"undefined", "">>

ReadsAs(text, v, t) == Reading(text, t) = <<v.type, v.of>> \/ (v = Null /\ text = Absent)

ToReflect == \E i \in DOMAIN stack : stack[i].at \in {"clients", "reflect"}

Reflects == phase = "ready" /\ value # Undef => ReadsAs(attribute, value, type) \/ ToReflect

AttributesInv == AttributeTypes /\ Interrupted /\ SerializesInTurn /\ Reflects

LEMMA NothingIsOfType ==
  ASSUME NEW t
  PROVE  Null \in AnyValue /\ OfType(Null, t) /\ Undef \in AnyValue /\ OfType(Undef, t)
BY DEF Null, Undef, Value, AnyValue, Words, OfType

LEMMA Deserialized ==
  ASSUME AttributesConstants, AttributeTypes, NEW text \in Words
  PROVE  DeserializeValue(text, type) \in AnyValue /\ OfType(DeserializeValue(text, type), type)
<1>1. type \in {"Number", "Boolean", "Object", "Array", "String"} /\ writes \in Nat
  BY DEF AttributesConstants, AttributeTypes
<1>2. PICK d : d = DeserializeValue(text, type)
  OBVIOUS
<1>3. Null \in AnyValue /\ OfType(Null, type) /\ Undef \in AnyValue /\ OfType(Undef, type)
  BY NothingIsOfType
<1>4. Number(text) \in AnyValue /\ Number(text).type = "number" /\ Number(text).of \in {"0", "1", "NaN"}
      /\ (text \in {"0", "1"} => Number(text).of \in {"0", "1"})
  BY DEF Number, Value, AnyValue, Words
<1>5. CASE type = "Number"
  BY <1>4, <1>5 DEF DeserializeValue, OfType
<1>6. CASE type = "Boolean"
  <2>1. d = Value("boolean", IF text = Absent THEN "false" ELSE "true", 0)
    BY <1>2, <1>6 DEF DeserializeValue
  <2>2. d \in AnyValue /\ d.type = "boolean" /\ d.of \in {"true", "false"}
    BY <2>1 DEF Value, AnyValue, Words
  <2>3. QED
    BY <1>2, <1>6, <2>2 DEF OfType
<1>7. CASE type = "String"
  <2>1. CASE text = Absent
    BY <1>3, <1>7, <2>1 DEF DeserializeValue
  <2>2. CASE text # Absent
    <3>1. d = Value("string", text, 0)
      BY <1>2, <1>7, <2>2 DEF DeserializeValue
    <3>2. d \in AnyValue /\ d.type = "string" /\ d.of = text
      BY <3>1 DEF Value, AnyValue
    <3>3. QED
      BY <1>2, <1>7, <2>2, <3>2 DEF OfType
  <2>3. QED
    BY <2>1, <2>2
<1>8. CASE type \in {"Object", "Array"}
  <2>1. d = Parsed(text, Undef) \/ d = Parsed(text, Null)
    BY <1>2, <1>8 DEF DeserializeValue
  <2>2. ASSUME NEW failed
        PROVE  \/ Parsed(text, failed) = Value("object", "{}", writes)
               \/ Parsed(text, failed) = Number(text) /\ text \in {"0", "1"}
               \/ Parsed(text, failed) = Null
               \/ Parsed(text, failed) = failed
    <3>1. CASE text = "{}"
      BY <3>1 DEF Parsed, AttributesConstants
    <3>2. CASE text \in {"0", "1"}
      BY <3>2 DEF Parsed, AttributesConstants
    <3>3. CASE text \notin {"{}", "0", "1"} /\ text = Absent
      BY <3>3 DEF Parsed
    <3>4. CASE text \notin {"{}", "0", "1"} /\ text # Absent
      BY <3>4 DEF Parsed
    <3>5. QED
      BY <3>1, <3>2, <3>3, <3>4
  <2>3. CASE d = Value("object", "{}", writes)
    <3>1. d \in AnyValue /\ d.type = "object" /\ d.of = "{}"
      BY <1>1, <2>3 DEF Value, AnyValue, Words
    <3>2. QED
      BY <1>2, <1>8, <3>1 DEF OfType
  <2>4. CASE d = Number(text) /\ text \in {"0", "1"}
    BY <1>2, <1>4, <1>8, <2>4 DEF OfType
  <2>5. CASE d = Null
    BY <1>2, <1>3, <2>5
  <2>6. CASE d = Undef
    BY <1>2, <1>3, <2>6
  <2>7. QED
    BY <2>1, <2>2, <2>3, <2>4, <2>5, <2>6
<1>9. QED
  BY <1>1, <1>5, <1>6, <1>7, <1>8

LEMMA ReadingIsRead ==
  ASSUME AttributesConstants, AttributeTypes, NEW text \in Words
  PROVE  Reading(text, type) = <<DeserializeValue(text, type).type, DeserializeValue(text, type).of>>
<1>1. type \in {"Number", "Boolean", "Object", "Array", "String"}
  BY DEF AttributesConstants, AttributeTypes
<1>2. PICK d : d = DeserializeValue(text, type)
  OBVIOUS
<1>3. CASE type \in {"Number", "Boolean", "String"}
  BY <1>3 DEF Reading, DeserializeValue, Number, Value, Null
<1>4. CASE type \in {"Object", "Array"}
  <2>1. CASE text = "{}"
    BY <1>4, <2>1 DEF AttributesConstants, Reading, DeserializeValue, Parsed, Value
  <2>2. CASE text \in {"0", "1"}
    BY <1>4, <2>2 DEF AttributesConstants, Reading, DeserializeValue, Parsed, Number, Value
  <2>3. CASE text \notin {"{}", "0", "1"} /\ text = Absent
    BY <1>4, <2>3 DEF Reading, DeserializeValue, Parsed, Null, Value
  <2>4. CASE text \notin {"{}", "0", "1"} /\ text # Absent
    BY <1>4, <2>4 DEF Reading, DeserializeValue, Parsed, Null, Undef, Value
  <2>5. QED
    BY <2>1, <2>2, <2>3, <2>4
<1>5. QED
  BY <1>1, <1>3, <1>4

LEMMA WrittenAsRead ==
  ASSUME AttributesConstants, AttributeTypes, NEW v \in AnyValue, OfType(v, type), v # Undef
  PROVE  SerializeValue(v) \in Words /\ ReadsAs(SerializeValue(v), v, type)
<1>1. type \in {"Number", "Boolean", "Object", "Array", "String"} /\ writes \in Nat
  BY DEF AttributesConstants, AttributeTypes
<1>2. Absent \notin {"", "0", "1", "NaN", "{}"}
  BY DEF AttributesConstants
<1>3. CASE v = Null
  BY <1>3 DEF Null, Value, SerializeValue, ReadsAs, Words
<1>4. CASE v # Null
  <2>1. v.type = "number" /\ v.of \in {"0", "1"} => type \in {"Number", "Object", "Array"}
    BY <1>4 DEF OfType, Undef, Null, Value
  <2> DEFINE d == DeserializeValue(SerializeValue(v), type)
  <2>2. SUFFICES SerializeValue(v) \in Words /\ d.type = v.type /\ d.of = v.of
    BY ReadingIsRead DEF ReadsAs
  <2> HIDE DEF d
  <2>3. CASE v.type = "boolean" /\ v.of \in {"true", "false"} /\ type = "Boolean"
    <3>1. SerializeValue(v) = IF v.of = "true" THEN "" ELSE Absent
      BY <2>3 DEF SerializeValue
    <3>2. d = Value("boolean", IF SerializeValue(v) = Absent THEN "false" ELSE "true", 0)
      BY <2>3 DEF DeserializeValue, d
    <3>3. QED
      BY <1>2, <2>3, <3>1, <3>2 DEF Value, Words
  <2>4. CASE v.type = "string" /\ v.of \in Words \ {Absent} /\ type = "String"
    <3>1. SerializeValue(v) = v.of
      BY <2>4 DEF SerializeValue
    <3>2. d = Value("string", v.of, 0)
      BY <2>4, <3>1 DEF DeserializeValue, d
    <3>3. QED
      BY <2>4, <3>1, <3>2 DEF Value
  <2>5. CASE v.type = "number" /\ v.of \in {"0", "1", "NaN"} /\ type = "Number"
    <3>1. SerializeValue(v) = v.of
      BY <2>5 DEF SerializeValue
    <3>2. d = Number(v.of)
      BY <2>5, <3>1 DEF DeserializeValue, d
    <3>3. QED
      BY <1>2, <2>5, <3>1, <3>2 DEF Number, Value, Words
  <2>6. CASE v.type = "number" /\ v.of \in {"0", "1"} /\ type \in {"Object", "Array"}
    <3>1. SerializeValue(v) = v.of
      BY <2>6 DEF SerializeValue
    <3>2. d = Number(v.of)
      BY <1>2, <2>6, <3>1 DEF DeserializeValue, Parsed, d
    <3>3. QED
      BY <1>2, <2>6, <3>1, <3>2 DEF Number, Value, Words
  <2>7. CASE v.type = "object" /\ v.of = "{}" /\ type \in {"Object", "Array"}
    <3>1. SerializeValue(v) = v.of
      BY <2>7 DEF SerializeValue
    <3>2. d = Value("object", "{}", writes)
      BY <1>2, <2>7, <3>1 DEF DeserializeValue, Parsed, d
    <3>3. QED
      BY <1>2, <2>7, <3>1, <3>2 DEF Value, Words
  <2>8. QED
    BY <1>4, <2>3, <2>4, <2>5, <2>6, <2>7 DEF OfType
<1>5. QED
  BY <1>3, <1>4

LEMMA FlushPushed ==
  ASSUME NEW s \in Seq(AnyFlush), NEW f \in AnyFlush
  PROVE  /\ <<f>> \o s \in Seq(AnyFlush) /\ <<f>> \o s # <<>>
         /\ DOMAIN (<<f>> \o s) = 1 .. (Len(s) + 1) /\ (<<f>> \o s)[1] = f
         /\ \A i \in DOMAIN (<<f>> \o s) : i # 1 => i - 1 \in DOMAIN s /\ (<<f>> \o s)[i] = s[i - 1]
OBVIOUS

LEMMA TopMoved ==
  ASSUME AttributeTypes, Turn # "page",
         NEW step \in {"clients", "reflect", "heard", "told", "serialized", "observe"},
         stack' = To(step)
  PROVE  /\ stack' \in Seq(AnyFlush) /\ DOMAIN stack' = DOMAIN stack /\ 1 \in DOMAIN stack
         /\ stack # <<>> /\ stack' # <<>> /\ stack'[1].at = step /\ Turn = stack[1].at /\ Turn' = step
         /\ \A i \in DOMAIN stack : i # 1 => stack'[i] = stack[i]
<1>1. stack \in Seq(AnyFlush) /\ stack # <<>> /\ Turn = stack[1].at
  BY DEF Turn, AttributeTypes
<1>2. 1 \in DOMAIN stack /\ stack[1] \in AnyFlush
  BY <1>1
<1>3. PICK f : f = [stack[1] EXCEPT !.at = step]
  OBVIOUS
<1>4. f \in AnyFlush /\ f.at = step
  BY <1>2, <1>3 DEF AnyFlush
<1>5. stack' = [stack EXCEPT ![1] = f]
  BY <1>3 DEF To
<1>6. stack' \in Seq(AnyFlush) /\ DOMAIN stack' = DOMAIN stack /\ stack' # <<>>
      /\ stack'[1] = f /\ \A i \in DOMAIN stack : i # 1 => stack'[i] = stack[i]
  BY <1>1, <1>2, <1>4, <1>5
<1>7. Turn' = step
  BY <1>4, <1>6 DEF Turn
<1>8. QED
  BY <1>1, <1>2, <1>4, <1>6, <1>7

LEMMA SettableIsOfType ==
  ASSUME AttributesConstants, AttributeTypes, NEW v \in Settable
  PROVE  v \in AnyValue /\ OfType(v, type)
<1>1. CASE v = Null \/ v = Undef
  BY <1>1, NothingIsOfType
<1>2. CASE \E text \in Written \cup {Absent} : v = DeserializeValue(text, type)
  BY <1>2, Deserialized DEF Words
<1>3. QED
  BY <1>1, <1>2 DEF Settable

(* What is set starts a flush that will reflect it, unless nothing changed. *)
LEMMA ValueSet ==
  ASSUME AttributesConstants, AttributesInv, MaySet, phase # "plain", NEW v \in AnyValue, OfType(v, type),
         SetValue(v), attribute' \in Words, attribute' = attribute \/ v = DeserializeValue(attribute', type),
         writes' \in Nat, UNCHANGED <<type, hosted, phase, own, serializing>>
  PROVE  AttributesInv'
<1> USE DEF AttributesInv
<1>1. /\ stack \in Seq(AnyFlush) /\ value \in AnyValue /\ OfType(value, type) /\ own \subseteq AnyValue
      /\ value' = v /\ AttributeTypes
  BY DEF AttributeTypes, SetValue
<1>2. CASE v = value \/ phase # "ready"
  <2>1. stack' = stack /\ Turn' = Turn
    BY <1>2 DEF SetValue, Turn
  <2>2. AttributeTypes'
    BY <1>1, <2>1 DEF AttributeTypes
  <2>3. Interrupted' /\ SerializesInTurn'
    BY <2>1 DEF Interrupted, SerializesInTurn
  <2>4. Reflects'
    <3> SUFFICES ASSUME phase = "ready", v # Undef
                 PROVE  ReadsAs(attribute', v, type) \/ ToReflect
      BY <1>1, <2>1 DEF Reflects, ToReflect
    <3>1. v = value
      BY <1>2
    <3>2. CASE attribute' = attribute
      BY <1>1, <3>1, <3>2 DEF Reflects
    <3>3. CASE v = DeserializeValue(attribute', type)
      BY <3>3, ReadingIsRead DEF ReadsAs
    <3>4. QED
      BY <3>2, <3>3
  <2>5. QED
    BY <2>2, <2>3, <2>4
<1>3. CASE v # value /\ phase = "ready"
  <2>1. stack' = <<FlushOf(v)>> \o stack
    BY <1>3 DEF SetValue
  <2>2. FlushOf(v) \in AnyFlush /\ FlushOf(v).at = "clients"
    BY DEF FlushOf, AnyFlush
  <2>3. /\ stack' \in Seq(AnyFlush) /\ stack' # <<>> /\ DOMAIN stack' = 1 .. (Len(stack) + 1)
        /\ stack'[1].at = "clients"
        /\ \A i \in DOMAIN stack' : i # 1 => i - 1 \in DOMAIN stack /\ stack'[i] = stack[i - 1]
    BY <1>1, <2>1, <2>2, FlushPushed
  <2>4. AttributeTypes'
    BY <1>1, <2>3 DEF AttributeTypes
  <2>5. Interrupted'
    <3> SUFFICES ASSUME NEW i \in DOMAIN stack', i > 1
                 PROVE  stack'[i].at \in {"clients", "told", "observe"}
      BY DEF Interrupted
    <3>1. i - 1 \in DOMAIN stack /\ stack'[i] = stack[i - 1] /\ i \in Nat
      BY <1>1, <2>3
    <3>2. CASE i - 1 = 1
      <4>1. stack # <<>> /\ stack'[i] = stack[1]
        BY <1>1, <3>1, <3>2
      <4>2. stack[1] \in AnyFlush /\ stack[1].at \in {"page", "clients", "told", "observe"}
        BY <1>1, <4>1 DEF MaySet, Turn
      <4>3. stack[1].at # "page"
        BY <4>2 DEF AnyFlush
      <4>4. QED
        BY <4>1, <4>2, <4>3
    <3>3. CASE i - 1 > 1
      BY <3>1, <3>3 DEF Interrupted
    <3>4. QED
      BY <1>1, <3>1, <3>2, <3>3
  <2>6. Turn' = "clients"
    BY <2>3 DEF Turn
  <2>7. SerializesInTurn'
    BY <1>3, <2>6 DEF SerializesInTurn
  <2>8. ToReflect'
    BY <1>1, <2>3 DEF ToReflect
  <2>9. QED
    BY <2>4, <2>5, <2>7, <2>8 DEF Reflects
<1>4. QED
  BY <1>2, <1>3

(* A flush that goes on within its turn.                                    *)
LEMMA GoesOn ==
  ASSUME AttributesConstants, AttributesInv, phase = "ready",
         NEW step \in {"clients", "reflect", "heard", "told", "serialized", "observe"}, stack' = To(step),
         Turn # "page", attribute' \in Words, serializing' \in BOOLEAN,
         step = "observe" => ~serializing', step = "heard" => serializing',
         UNCHANGED <<type, hosted, phase, own, value, writes>>,
         value # Undef => ReadsAs(attribute', value, type) \/ step = "reflect"
                          \/ (attribute' = attribute /\ Turn \notin {"clients", "reflect"})
  PROVE  AttributesInv'
<1> USE DEF AttributesInv
<1>1. /\ stack' \in Seq(AnyFlush) /\ DOMAIN stack' = DOMAIN stack /\ 1 \in DOMAIN stack
      /\ stack # <<>> /\ stack' # <<>> /\ stack'[1].at = step /\ Turn = stack[1].at /\ Turn' = step
      /\ \A i \in DOMAIN stack : i # 1 => stack'[i] = stack[i]
  BY TopMoved
<1>2. AttributeTypes'
  BY <1>1 DEF AttributeTypes
<1>3. Interrupted'
  BY <1>1 DEF Interrupted
<1>4. SerializesInTurn'
  BY <1>1 DEF SerializesInTurn
<1>5. Reflects'
  <2> SUFFICES ASSUME value # Undef
               PROVE  ReadsAs(attribute', value, type) \/ ToReflect'
    BY DEF Reflects
  <2>1. CASE step = "reflect"
    BY <1>1, <2>1 DEF ToReflect
  <2>2. CASE ReadsAs(attribute', value, type)
    BY <2>2
  <2>3. CASE attribute' = attribute /\ Turn \notin {"clients", "reflect"}
    <3>1. CASE ReadsAs(attribute, value, type)
      BY <2>3, <3>1
    <3>2. CASE ToReflect
      BY <1>1, <2>3, <3>2 DEF ToReflect
    <3>3. QED
      BY <3>1, <3>2 DEF Reflects
  <2>4. QED
    BY <2>1, <2>2, <2>3
<1>6. QED
  BY <1>2, <1>3, <1>4, <1>5

LEMMA AttributesStart ==
  ASSUME AttributesConstants, AttributesInit
  PROVE  AttributesInv
<1>1. AttributeTypes
  <2>1. stack = <<>> /\ stack \in Seq(AnyFlush)
    BY DEF AttributesInit
  <2>2. value = Undef /\ value \in AnyValue /\ OfType(value, type)
    BY NothingIsOfType DEF AttributesInit
  <2>3. QED
    BY <2>1, <2>2 DEF AttributesInit, AttributeTypes, Words
<1>2. Interrupted /\ SerializesInTurn /\ Reflects
  BY DEF AttributesInit, Interrupted, SerializesInTurn, Reflects, Turn
<1>3. QED
  BY <1>1, <1>2 DEF AttributesInv

LEMMA AttributesStep ==
  ASSUME AttributesConstants, AttributesInv, [AttributesNext]_attributeVars
  PROVE  AttributesInv'
<1> USE DEF AttributesInv
<1>1. CASE UNCHANGED attributeVars
  BY <1>1 DEF attributeVars, AttributeTypes, Interrupted, SerializesInTurn, Reflects, ToReflect, Turn
<1>2. ASSUME NEW v \in Settable, SetProperty(v) PROVE AttributesInv'
  <2>1. /\ v \in AnyValue /\ OfType(v, type) /\ MaySet /\ writes' \in Nat /\ attribute' \in Words
        /\ attribute' = attribute /\ UNCHANGED <<type, hosted, phase, serializing>>
    BY <1>2, SettableIsOfType DEF SetProperty, Write, AttributeTypes
  <2>2. CASE phase = "plain"
    <3>1. own' = {v} /\ UNCHANGED <<value, stack>>
      BY <1>2, <2>2 DEF SetProperty
    <3>2. AttributeTypes'
      BY <2>1, <3>1 DEF AttributeTypes
    <3>3. Interrupted' /\ SerializesInTurn' /\ Reflects'
      BY <2>1, <2>2, <3>1 DEF Interrupted, SerializesInTurn, Reflects, Turn
    <3>4. QED
      BY <3>2, <3>3
  <2>3. CASE phase # "plain"
    <3>1. SetValue(v) /\ own' = own
      BY <1>2, <2>3 DEF SetProperty
    <3>2. QED
      BY <2>1, <2>3, <3>1, ValueSet
  <2>4. QED
    BY <2>2, <2>3
<1>3. ASSUME NEW v \in Settable, Build(v) PROVE AttributesInv'
  <2>1. /\ phase = "plain" /\ phase' = "built" /\ UNCHANGED <<type, hosted, own, attribute, serializing, stack, writes>>
        /\ value' \in AnyValue /\ OfType(value', type)
    BY <1>3, SettableIsOfType, Deserialized DEF Build, AttributeTypes
  <2>2. AttributeTypes'
    BY <2>1 DEF AttributeTypes
  <2>3. Interrupted' /\ SerializesInTurn' /\ Reflects'
    BY <2>1 DEF Interrupted, SerializesInTurn, Reflects, Turn
  <2>4. QED
    BY <2>2, <2>3
<1>4. ASSUME NEW text \in Written \cup {Absent}, SetAttribute(text) PROVE AttributesInv'
  <2>1. /\ text \in Words /\ Turn \in {"page", "observe"} /\ writes' \in Nat /\ attribute' = text
        /\ ~serializing /\ UNCHANGED <<type, hosted, phase, own, serializing>>
    <3>1. text \in Words /\ Turn \in {"page", "observe"} /\ ~serializing
      BY <1>4 DEF SetAttribute, SerializesInTurn, Words
    <3>2. writes' \in Nat /\ UNCHANGED <<type, hosted, phase, own, serializing>>
      BY <1>4 DEF SetAttribute, Write, AttributeTypes
    <3>3. attribute' = text
      BY <1>4 DEF SetAttribute, AttributeChangedCallback
    <3>4. QED
      BY <3>1, <3>2, <3>3
  <2>2. CASE phase = "plain" \/ text = attribute
    <3>1. UNCHANGED <<value, stack>> /\ (phase = "plain" \/ attribute' = attribute)
      BY <1>4, <2>1, <2>2 DEF SetAttribute, AttributeChangedCallback
    <3>2. AttributeTypes'
      BY <2>1, <3>1 DEF AttributeTypes
    <3>3. Interrupted' /\ SerializesInTurn' /\ Reflects'
      BY <2>1, <3>1 DEF Interrupted, SerializesInTurn, Reflects, ToReflect, Turn
    <3>4. QED
      BY <3>2, <3>3
  <2>3. CASE phase # "plain" /\ text # attribute
    <3>1. PICK v : v = DeserializeValue(text, type)
      OBVIOUS
    <3>2. v \in AnyValue /\ OfType(v, type) /\ v = DeserializeValue(attribute', type)
      BY <2>1, <3>1, Deserialized
    <3>3. SetValue(v) /\ MaySet
      BY <1>4, <2>1, <2>3, <3>1 DEF SetAttribute, AttributeChangedCallback, AttributeToProperty, MaySet
    <3>4. QED
      BY <2>1, <2>3, <3>2, <3>3, ValueSet
  <2>4. QED
    BY <2>2, <2>3
<1>5. CASE Ready
  <2>1. /\ phase = "built" /\ phase' = "ready" /\ stack = <<>> /\ EnsureAttribute \in Words
        /\ UNCHANGED <<type, hosted, own, serializing, writes>> /\ attribute' = EnsureAttribute
        /\ ~serializing
    BY <1>5 DEF Ready, SerializesInTurn, EnsureAttribute, AttributeTypes, Turn
  <2>2. PICK before : before = IF own = {} THEN value ELSE CHOOSE v \in own : TRUE
    OBVIOUS
  <2>3. before \in AnyValue /\ OfType(before, type)
    <3>1. CASE own = {}
      BY <2>2, <3>1 DEF AttributeTypes
    <3>2. CASE own # {}
      <4>1. before \in own
        BY <2>2, <3>2
      <4>2. QED
        BY <4>1 DEF AttributeTypes
    <3>3. QED
      BY <3>1, <3>2
  <2>4. PICK after : after = IF EnsureAttribute = attribute THEN before ELSE DeserializeValue(hosted, type)
    OBVIOUS
  <2>5. after \in AnyValue /\ OfType(after, type)
    BY <2>3, <2>4, Deserialized DEF AttributeTypes
  <2>6. value' = after /\ stack' = IF after = Undef THEN <<>> ELSE <<FlushOf(after)>>
    BY <1>5, <2>2, <2>4 DEF Ready
  <2>7. FlushOf(after) \in AnyFlush /\ FlushOf(after).at = "clients"
    BY <2>5 DEF FlushOf, AnyFlush
  <2>8. CASE after = Undef
    <3>1. stack' = <<>> /\ value' = Undef
      BY <2>6, <2>8
    <3>2. AttributeTypes' /\ Interrupted' /\ SerializesInTurn' /\ Reflects'
      BY <2>1, <2>5, <2>6, <3>1 DEF AttributeTypes, Interrupted, SerializesInTurn, Reflects, Turn, Undef
    <3>3. QED
      BY <3>2
  <2>9. CASE after # Undef
    <3>1. stack' = <<FlushOf(after)>>
      BY <2>6, <2>9
    <3>2. stack' \in Seq(AnyFlush) /\ stack' # <<>> /\ DOMAIN stack' = {1} /\ stack'[1].at = "clients"
      BY <2>7, <3>1
    <3>3. AttributeTypes'
      BY <2>1, <2>5, <2>6, <3>2 DEF AttributeTypes
    <3>4. Interrupted' /\ SerializesInTurn' /\ ToReflect'
      BY <2>1, <3>2 DEF Interrupted, SerializesInTurn, ToReflect, Turn
    <3>5. QED
      BY <3>3, <3>4 DEF Reflects
  <2>10. QED
    BY <2>8, <2>9
<1>6. Turn # "page" => phase = "ready"
  BY DEF SerializesInTurn, Turn
<1>7. CASE ClientsDone
  BY <1>6, <1>7, GoesOn DEF ClientsDone, AttributeTypes
<1>8. CASE PropertyToAttribute
  <2>1. /\ Turn = "reflect" /\ serializing' /\ serializing' \in BOOLEAN /\ attribute' = SerializeValue(value)
        /\ UNCHANGED <<type, hosted, phase, own, value, writes>>
    BY <1>8 DEF PropertyToAttribute, ReflectedValue
  <2>2. PICK step \in {"serialized", "heard"} : stack' = To(step)
    BY <1>8 DEF PropertyToAttribute
  <2>3. value # Undef => SerializeValue(value) \in Words /\ ReadsAs(SerializeValue(value), value, type)
    BY WrittenAsRead DEF AttributeTypes
  <2>4. value = Undef => SerializeValue(value) = Absent
    <3>1. Undef.type = "undefined"
      BY DEF Undef, Value
    <3>2. QED
      BY <3>1 DEF SerializeValue
  <2>5. attribute' \in Words /\ (value # Undef => ReadsAs(attribute', value, type))
    BY <2>1, <2>3, <2>4 DEF Words
  <2>6. QED
    BY <1>6, <2>1, <2>2, <2>5, GoesOn
<1>9. CASE Heard
  <2>1. serializing /\ Turn = "heard" /\ value' = value
    BY <1>9 DEF Heard, SerializesInTurn
  <2>2. QED
    BY <1>6, <1>9, <2>1, GoesOn DEF Heard, AttributeTypes
<1>10. CASE Serialized
  BY <1>6, <1>10, GoesOn DEF Serialized, AttributeTypes
<1>11. CASE Return
  <2>1. /\ Turn = "observe" /\ stack' = Tail(stack) /\ ~serializing
        /\ UNCHANGED <<type, hosted, phase, own, attribute, value, serializing, writes>>
    BY <1>11 DEF Return, SerializesInTurn
  <2>2. stack \in Seq(AnyFlush) /\ stack # <<>> /\ stack[1].at = "observe"
    BY <2>1 DEF Turn, AttributeTypes
  <2>3. /\ stack' \in Seq(AnyFlush) /\ Len(stack) \in Nat \ {0} /\ DOMAIN stack = 1 .. Len(stack)
        /\ DOMAIN stack' = 1 .. Len(stack) - 1
        /\ \A i \in DOMAIN stack' : i + 1 \in DOMAIN stack /\ stack'[i] = stack[i + 1]
    BY <2>1, <2>2
  <2>4. AttributeTypes'
    BY <2>1, <2>3 DEF AttributeTypes
  <2>5. Interrupted'
    BY <2>3 DEF Interrupted
  <2>6. stack' = <<>> \/ stack'[1].at \in {"clients", "told", "observe"}
    BY <2>3 DEF Interrupted
  <2>7. SerializesInTurn'
    BY <1>6, <2>1, <2>6 DEF SerializesInTurn, Turn
  <2>8. ToReflect => ToReflect'
    <3> SUFFICES ASSUME NEW i \in DOMAIN stack, stack[i].at \in {"clients", "reflect"} PROVE ToReflect'
      BY DEF ToReflect
    <3>1. i # 1 /\ i - 1 \in DOMAIN stack'
      BY <2>2, <2>3
    <3>2. stack'[i - 1] = stack[i]
      BY <2>3, <3>1
    <3>3. QED
      BY <3>1, <3>2 DEF ToReflect
  <2>9. Reflects'
    BY <2>1, <2>8 DEF Reflects
  <2>10. QED
    BY <2>4, <2>5, <2>7, <2>9
<1>12. QED
  BY <1>1, <1>2, <1>3, <1>4, <1>5, <1>7, <1>8, <1>9, <1>10, <1>11 DEF AttributesNext

(* cloud-dashboard.js:8078-8099, 9269-9275: in the end the attribute reads  *)
(* as the property, and writing it changes no property, for any texts and   *)
(* any nesting of the flushes.                                              *)
THEOREM AttributesAgree ==
  ASSUME AttributesConstants
  PROVE  AttributesSpec => []AttributeReads /\ [][ReflectionIsSilent]_attributeVars
<1>1. AttributesInit => AttributesInv
  BY AttributesStart
<1>2. AttributesInv /\ [AttributesNext]_attributeVars => AttributesInv'
  BY AttributesStep
<1>3. AttributesInv => AttributeReads
  <2> SUFFICES ASSUME AttributesInv, phase = "ready", stack = <<>>, value # Undef
               PROVE  Alike(DeserializeValue(attribute, type), value) \/ (value = Null /\ attribute = Absent)
    BY DEF AttributeReads
  <2>1. ReadsAs(attribute, value, type) /\ attribute \in Words
    BY DEF AttributesInv, Reflects, ToReflect, AttributeTypes
  <2>2. QED
    BY <2>1, ReadingIsRead DEF AttributesInv, ReadsAs, Alike
<1>4. AttributesInv /\ [AttributesNext]_attributeVars => [ReflectionIsSilent]_attributeVars
  <2> SUFFICES ASSUME AttributesInv, AttributesNext, serializing', writes' = writes
               PROVE  value' = value
    BY DEF ReflectionIsSilent
  <2>1. writes \in Nat /\ (Turn = "heard" => serializing) /\ (stack = <<>> => ~serializing)
    BY DEF AttributesInv, AttributeTypes, SerializesInTurn, Turn
  <2>2. \A v : ~SetProperty(v) /\ ~SetAttribute(v)
    <3>1. ~Write
      BY <2>1 DEF Write
    <3>2. QED
      BY <3>1 DEF SetProperty, SetAttribute
  <2>3. ASSUME NEW v, Build(v) \/ Ready PROVE FALSE
    <3>1. phase # "ready" /\ serializing' = serializing
      BY <2>3 DEF Build, Ready
    <3>2. QED
      BY <2>1, <3>1 DEF AttributesInv, SerializesInTurn
  <2>4. CASE ClientsDone \/ PropertyToAttribute \/ Heard \/ Serialized \/ Return
    BY <2>1, <2>4 DEF ClientsDone, PropertyToAttribute, Heard, Serialized, Return
  <2>5. QED
    BY <2>2, <2>3, <2>4 DEF AttributesNext
<1>5. QED
  BY <1>1, <1>2, <1>3, <1>4, PTL DEF AttributesSpec

-----------------------------------------------------------------------------
(* Durations.  What is whole of a number, towards zero and away from it.    *)

LEMMA TruncOf ==
  /\ \A a \in Int : Trunc(a, 24) \in Int /\ Rem(a, 24) \in Int /\ a = 24 * Trunc(a, 24) + Rem(a, 24)
  /\ \A a \in Int : Trunc(a, 12) \in Int /\ Rem(a, 12) \in Int /\ a = 12 * Trunc(a, 12) + Rem(a, 12)
  /\ \A a \in Nat : Trunc(a, 24) >= 0 /\ Rem(a, 24) \in 0 .. 23
  /\ \A a \in Nat : Trunc(a, 12) >= 0 /\ Rem(a, 12) \in 0 .. 11
  /\ \A a \in Nat : Trunc(-a, 24) = -Trunc(a, 24) /\ Rem(-a, 24) = -Rem(a, 24)
  /\ \A a \in Nat : Trunc(-a, 12) = -Trunc(a, 12) /\ Rem(-a, 12) = -Rem(a, 12)
BY DEF Trunc, Rem

(* The months of so many days, and how many days these months take.         *)
MonthsOf(days) == Trunc(days * PerDay, PerMonth)
DaysOf(months) == AwayFromZero(months * PerMonth, PerDay)

LEMMA MonthsOfDays ==
  ASSUME NEW n \in Nat
  PROVE  /\ MonthsOf(n) \in Nat /\ DaysOf(MonthsOf(n)) \in Nat
         /\ PerMonth * MonthsOf(n) <= PerDay * n /\ PerDay * n < PerMonth * MonthsOf(n) + PerMonth
         /\ n - DaysOf(MonthsOf(n)) \in 0 .. 30
         /\ n <= 30 => MonthsOf(n) = 0 /\ DaysOf(MonthsOf(n)) = 0
         /\ MonthsOf(-n) = -MonthsOf(n) /\ DaysOf(-MonthsOf(n)) = -DaysOf(MonthsOf(n))
<1>1. PICK m : m = (n * 4800) \div 146097
  OBVIOUS
<1>2. m \in Nat /\ 146097 * m <= 4800 * n /\ 4800 * n < 146097 * m + 146097
  BY <1>1
<1>3. MonthsOf(n) = m /\ MonthsOf(-n) = -m
  BY <1>1 DEF MonthsOf, Trunc, PerDay, PerMonth
<1>4. PICK c : c = (m * 146097 + 4799) \div 4800
  OBVIOUS
<1>5. c \in Nat /\ 4800 * c <= 146097 * m + 4799 /\ 146097 * m + 4799 < 4800 * c + 4800
  BY <1>2, <1>4
<1>6. DaysOf(m) = c /\ DaysOf(-m) = -c
  BY <1>2, <1>4 DEF DaysOf, AwayFromZero, PerDay, PerMonth
<1>7. n - c \in 0 .. 30
  BY <1>2, <1>5
<1>8. n <= 30 => m = 0 /\ c = 0
  BY <1>2, <1>5
<1>9. QED
  BY <1>2, <1>3, <1>5, <1>6, <1>7, <1>8 DEF PerDay, PerMonth

(* What a duration of so many months, days and hours shows.                 *)
Parted(months, days, hours) ==
    [years |-> Trunc(months + MonthsOf(days), 12), months |-> Rem(months + MonthsOf(days), 12),
     days |-> days - DaysOf(MonthsOf(days)), hours |-> Rem(hours, 24)]

IsDuration(d) == d \in [months : Int, days : Int, hours : Int]

LEMMA BubbleIsParted ==
  ASSUME NEW d, IsDuration(d), NotMixed(d)
  PROVE  Bubble(d) = Parted(d.months, d.days + Trunc(d.hours, 24), d.hours)
BY DEF Bubble, Parted, MonthsOf, DaysOf, IsDuration

(* Of a duration of two signs the hours are shown that it has in all.       *)
LEMMA BubbleOfMixed ==
  ASSUME NEW d, IsDuration(d), ~NotMixed(d)
  PROVE  \E hours \in Int : Bubble(d) = Parted(0, Trunc(hours, 24), hours)
<1>1. PICK hours : hours = d.hours + 24 * AwayFromZero(d.months * PerMonth + d.days * PerDay, PerDay)
  OBVIOUS
<1>2. \A a \in Int : AwayFromZero(a, PerDay) \in Int
  BY DEF AwayFromZero, PerDay
<1>3. d.months * PerMonth + d.days * PerDay \in Int
  BY DEF IsDuration, PerMonth, PerDay
<1>4. hours \in Int
  BY <1>1, <1>2, <1>3 DEF IsDuration
<1>5. Trunc(hours, 24) \in Int
  BY <1>4, TruncOf
<1>6. 0 + Trunc(hours, 24) = Trunc(hours, 24) /\ \A m \in Int : 0 + m = m
  BY <1>5
<1>7. Bubble(d) = Parted(0, Trunc(hours, 24), hours)
  BY <1>1, <1>6 DEF Bubble, Parted, MonthsOf, DaysOf
<1>8. QED
  BY <1>4, <1>7

(* The parts that are shown, of none below zero and of none above.          *)
ArePartsOf(y, m, r, h, months, days, hours) ==
    /\ 12 * y + m = months + MonthsOf(days) /\ r = days - DaysOf(MonthsOf(days)) /\ h = Rem(hours, 24)
    /\ Parted(months, days, hours) = [years |-> y, months |-> m, days |-> r, hours |-> h]
    /\ Parted(-months, -days, -hours) = [years |-> -y, months |-> -m, days |-> -r, hours |-> -h]

LEMMA PartedAre ==
  ASSUME NEW months \in Nat, NEW days \in Nat, NEW hours \in Nat
  PROVE  \E y \in Nat, m \in 0 .. 11, r \in 0 .. 30, h \in 0 .. 23 :
           ArePartsOf(y, m, r, h, months, days, hours)
<1>1. PICK n, c : n = MonthsOf(days) /\ c = DaysOf(n)
  OBVIOUS
<1>2. n \in Nat /\ c \in Nat /\ days - c \in 0 .. 30 /\ MonthsOf(-days) = -n /\ DaysOf(-n) = -c
  BY <1>1, MonthsOfDays
<1>3. PICK t : t = months + n
  OBVIOUS
<1>4. t \in Nat /\ -months + -n = -t /\ -days - (-c) = -(days - c)
  BY <1>2, <1>3
<1>5. /\ Trunc(t, 12) \in Nat /\ Rem(t, 12) \in 0 .. 11 /\ 12 * Trunc(t, 12) + Rem(t, 12) = t
      /\ Trunc(-t, 12) = -Trunc(t, 12) /\ Rem(-t, 12) = -Rem(t, 12)
  <2>1. t \in Nat /\ t \in Int
    BY <1>4
  <2>2. Trunc(t, 12) \in Int /\ t = 12 * Trunc(t, 12) + Rem(t, 12)
    BY <2>1, TruncOf
  <2>3. Trunc(t, 12) >= 0 /\ Rem(t, 12) \in 0 .. 11
    BY <2>1, TruncOf
  <2>4. Trunc(-t, 12) = -Trunc(t, 12) /\ Rem(-t, 12) = -Rem(t, 12)
    BY <2>1, TruncOf
  <2>5. QED
    BY <2>2, <2>3, <2>4
<1>6. Rem(hours, 24) \in 0 .. 23 /\ Rem(-hours, 24) = -Rem(hours, 24)
  BY TruncOf
<1>7. Parted(months, days, hours)
      = [years |-> Trunc(t, 12), months |-> Rem(t, 12), days |-> days - c, hours |-> Rem(hours, 24)]
  BY <1>1, <1>3 DEF Parted
<1>8. Parted(-months, -days, -hours)
      = [years |-> -Trunc(t, 12), months |-> -Rem(t, 12), days |-> -(days - c), hours |-> -Rem(hours, 24)]
  BY <1>2, <1>4, <1>5, <1>6 DEF Parted
<1>9. PICK y, m, r, h : y = Trunc(t, 12) /\ m = Rem(t, 12) /\ r = days - c /\ h = Rem(hours, 24)
  OBVIOUS
<1>10. y \in Nat /\ m \in 0 .. 11 /\ r \in 0 .. 30 /\ h \in 0 .. 23
  BY <1>2, <1>5, <1>6, <1>9
<1>11. 12 * y + m = months + MonthsOf(days) /\ r = days - DaysOf(MonthsOf(days)) /\ h = Rem(hours, 24)
  BY <1>1, <1>3, <1>5, <1>9
<1>12. /\ Parted(months, days, hours) = [years |-> y, months |-> m, days |-> r, hours |-> h]
       /\ Parted(-months, -days, -hours) = [years |-> -y, months |-> -m, days |-> -r, hours |-> -h]
  BY <1>7, <1>8, <1>9
<1>13. QED
  BY <1>10, <1>11, <1>12 DEF ArePartsOf

(* What shows all the parts it has is shown as it is.                       *)
LEMMA PartsStay ==
  ASSUME NEW y \in Nat, NEW m \in 0 .. 11, NEW r \in 0 .. 30, NEW h \in 0 .. 23
  PROVE  Parted(m + 12 * y, r + Trunc(h, 24), h) = [years |-> y, months |-> m, days |-> r, hours |-> h]
<1>1. Trunc(h, 24) = 0 /\ Rem(h, 24) = h
  BY DEF Trunc, Rem
<1>2. r \in Nat /\ r + 0 = r /\ r - 0 = r
  OBVIOUS
<1>3. MonthsOf(r) = 0 /\ DaysOf(0) = 0
  BY <1>2, MonthsOfDays
<1>4. PICK t : t = m + 12 * y
  OBVIOUS
<1>5. t + 0 = t /\ Trunc(t, 12) = y /\ Rem(t, 12) = m
  BY <1>4 DEF Trunc, Rem
<1>6. QED
  BY <1>1, <1>2, <1>3, <1>4, <1>5 DEF Parted

(* Parts that are proper as they are shown.                                 *)
ProperParts(shown) ==
    /\ NotMixed(Duration(shown))
    /\ shown.hours \in -23 .. 23 /\ shown.days \in -30 .. 30 /\ shown.months \in -11 .. 11
    /\ Bubble(Duration(shown)) = shown

LEMMA PartedAreProper ==
  ASSUME NEW months \in Nat, NEW days \in Nat, NEW hours \in Nat
  PROVE  ProperParts(Parted(months, days, hours)) /\ ProperParts(Parted(-months, -days, -hours))
<1>1. PICK y \in Nat, m \in 0 .. 11, r \in 0 .. 30, h \in 0 .. 23 : ArePartsOf(y, m, r, h, months, days, hours)
  BY PartedAre
<1>2. /\ y \in Nat /\ m \in 0 .. 11 /\ r \in 0 .. 30 /\ h \in 0 .. 23
      /\ Parted(months, days, hours) = [years |-> y, months |-> m, days |-> r, hours |-> h]
      /\ Parted(-months, -days, -hours) = [years |-> -y, months |-> -m, days |-> -r, hours |-> -h]
  BY <1>1 DEF ArePartsOf
<1>3. PICK t : t = m + 12 * y /\ t \in Nat /\ -m + 12 * (-y) = -t
  BY <1>2
<1>4. Duration([years |-> y, months |-> m, days |-> r, hours |-> h]) = [months |-> t, days |-> r, hours |-> h]
  BY <1>3 DEF Duration
<1>5. Duration([years |-> -y, months |-> -m, days |-> -r, hours |-> -h]) = [months |-> -t, days |-> -r, hours |-> -h]
  BY <1>3 DEF Duration
<1>6. /\ IsDuration([months |-> t, days |-> r, hours |-> h]) /\ NotMixed([months |-> t, days |-> r, hours |-> h])
      /\ IsDuration([months |-> -t, days |-> -r, hours |-> -h]) /\ NotMixed([months |-> -t, days |-> -r, hours |-> -h])
  BY <1>2, <1>3 DEF IsDuration, NotMixed
<1>7. Parted(t, r + Trunc(h, 24), h) = [years |-> y, months |-> m, days |-> r, hours |-> h]
  BY <1>2, <1>3, PartsStay
<1>8. Trunc(h, 24) = 0 /\ Trunc(-h, 24) = 0 /\ r \in Nat /\ h \in Nat
  BY <1>2 DEF Trunc
<1>9. Parted(-t, -r + Trunc(-h, 24), -h) = [years |-> -y, months |-> -m, days |-> -r, hours |-> -h]
  <2>1. Parted(t, r, h) = [years |-> y, months |-> m, days |-> r, hours |-> h]
    BY <1>2, <1>7, <1>8
  <2>2. -r + Trunc(-h, 24) = -r
    BY <1>2, <1>8
  <2>3. t \in Nat /\ r \in Nat /\ h \in Nat
    BY <1>3, <1>8
  <2>4. PICK yy \in Nat, mm \in 0 .. 11, rr \in 0 .. 30, hh \in 0 .. 23 : ArePartsOf(yy, mm, rr, hh, t, r, h)
    BY <2>3, PartedAre
  <2>5. /\ Parted(t, r, h) = [years |-> yy, months |-> mm, days |-> rr, hours |-> hh]
        /\ Parted(-t, -r, -h) = [years |-> -yy, months |-> -mm, days |-> -rr, hours |-> -hh]
    BY <2>4 DEF ArePartsOf
  <2>6. yy = y /\ mm = m /\ rr = r /\ hh = h
    BY <2>1, <2>5
  <2>7. QED
    BY <2>2, <2>5, <2>6
<1>10. /\ Bubble([months |-> t, days |-> r, hours |-> h]) = [years |-> y, months |-> m, days |-> r, hours |-> h]
       /\ Bubble([months |-> -t, days |-> -r, hours |-> -h]) = [years |-> -y, months |-> -m, days |-> -r, hours |-> -h]
  BY <1>6, <1>7, <1>9, BubbleIsParted
<1>11. /\ -h \in -23 .. 23 /\ -r \in -30 .. 30 /\ -m \in -11 .. 11
       /\ h \in -23 .. 23 /\ r \in -30 .. 30 /\ m \in -11 .. 11
  BY <1>2
<1>12. QED
  BY <1>2, <1>4, <1>5, <1>6, <1>10, <1>11 DEF ProperParts

LEMMA BubbleIsProper ==
  ASSUME NEW d, IsDuration(d)
  PROVE  ProperParts(Bubble(d))
<1>1. ASSUME NEW M \in Int, NEW n \in Int, NEW H \in Int,
             (M >= 0 /\ n >= 0 /\ H >= 0) \/ (M <= 0 /\ n <= 0 /\ H <= 0)
      PROVE  ProperParts(Parted(M, n, H))
  <2>1. CASE M >= 0 /\ n >= 0 /\ H >= 0
    BY <2>1, PartedAreProper
  <2>2. CASE M <= 0 /\ n <= 0 /\ H <= 0
    <3>1. -M \in Nat /\ -n \in Nat /\ -H \in Nat /\ -(-M) = M /\ -(-n) = n /\ -(-H) = H
      BY <2>2
    <3>2. ProperParts(Parted(-(-M), -(-n), -(-H)))
      BY <3>1, PartedAreProper
    <3>3. QED
      BY <3>1, <3>2
  <2>3. QED
    BY <1>1, <2>1, <2>2
<1>2. \A a \in Int : Trunc(a, 24) \in Int /\ (a >= 0 => Trunc(a, 24) >= 0) /\ (a <= 0 => Trunc(a, 24) <= 0)
  BY DEF Trunc
<1>3. CASE NotMixed(d)
  <2>1. d.months \in Int /\ d.days \in Int /\ d.hours \in Int
    BY DEF IsDuration
  <2>2. PICK n : n = d.days + Trunc(d.hours, 24)
    OBVIOUS
  <2>3. n \in Int /\ \/ d.months >= 0 /\ n >= 0 /\ d.hours >= 0
                     \/ d.months <= 0 /\ n <= 0 /\ d.hours <= 0
    BY <1>2, <1>3, <2>1, <2>2 DEF NotMixed
  <2>4. ProperParts(Parted(d.months, n, d.hours))
    BY <1>1, <2>1, <2>3
  <2>5. QED
    BY <1>3, <2>2, <2>4, BubbleIsParted
<1>4. CASE ~NotMixed(d)
  <2>1. PICK hours \in Int : Bubble(d) = Parted(0, Trunc(hours, 24), hours)
    BY <1>4, BubbleOfMixed
  <2>2. QED
    BY <1>1, <1>2, <2>1
<1>5. QED
  BY <1>3, <1>4

(* A duration that is none below zero, and one that is as long in each part. *)
IsLength(d) == d \in [months : Nat, days : Nat, hours : Nat]
NoLonger(d, e) == d.months <= e.months /\ d.days <= e.days /\ d.hours <= e.hours

LEMMA WholeGrows ==
  /\ \A a, b \in Int : a <= b => Trunc(a, 24) <= Trunc(b, 24) \/ (a < 0 /\ b < 0)
  /\ \A a, b \in Nat : a <= b => MonthsOf(a) <= MonthsOf(b)
<1>1. \A a, b \in Int : a <= b => Trunc(a, 24) <= Trunc(b, 24) \/ (a < 0 /\ b < 0)
  BY DEF Trunc
<1>2. \A a, b \in Nat : a <= b => MonthsOf(a) <= MonthsOf(b)
  BY SMT DEF MonthsOf, Trunc, PerDay, PerMonth
<1>3. QED
  BY <1>1, <1>2

LEMMA PartsGrow ==
  ASSUME NEW d, NEW e, IsLength(d), IsLength(e), NoLonger(d, e)
  PROVE  AtMost(Parts(Bubble(d)), Parts(Bubble(e)))
<1>1. PICK n, nn : n = d.days + Trunc(d.hours, 24) /\ nn = e.days + Trunc(e.hours, 24)
  OBVIOUS
<1>2. /\ d.months \in Nat /\ d.days \in Nat /\ d.hours \in Nat
      /\ e.months \in Nat /\ e.days \in Nat /\ e.hours \in Nat
      /\ IsDuration(d) /\ IsDuration(e) /\ NotMixed(d) /\ NotMixed(e)
  BY DEF IsLength, IsDuration, NotMixed
<1>3. /\ n \in Nat /\ nn \in Nat /\ n <= nn
      /\ n = nn => Rem(d.hours, 24) <= Rem(e.hours, 24)
  BY <1>1, <1>2 DEF NoLonger, Trunc, Rem
<1>4. Bubble(d) = Parted(d.months, n, d.hours) /\ Bubble(e) = Parted(e.months, nn, e.hours)
  BY <1>1, <1>2, BubbleIsParted
<1>5. PICK y \in Nat, m \in 0 .. 11, r \in 0 .. 30, h \in 0 .. 23 : ArePartsOf(y, m, r, h, d.months, n, d.hours)
  BY <1>2, <1>3, PartedAre
<1>6. PICK yy \in Nat, mm \in 0 .. 11, rr \in 0 .. 30, hh \in 0 .. 23 : ArePartsOf(yy, mm, rr, hh, e.months, nn, e.hours)
  BY <1>2, <1>3, PartedAre
<1>7. Parts(Bubble(d)) = <<y, m, r, h>> /\ Parts(Bubble(e)) = <<yy, mm, rr, hh>>
  BY <1>4, <1>5, <1>6 DEF ArePartsOf, Parts
<1>8. /\ MonthsOf(n) \in Nat /\ MonthsOf(nn) \in Nat /\ MonthsOf(n) <= MonthsOf(nn)
      /\ DaysOf(MonthsOf(n)) \in Nat /\ DaysOf(MonthsOf(nn)) \in Nat
  BY <1>3, WholeGrows, MonthsOfDays
<1>9. /\ 12 * y + m = d.months + MonthsOf(n) /\ 12 * yy + mm = e.months + MonthsOf(nn)
      /\ r = n - DaysOf(MonthsOf(n)) /\ rr = nn - DaysOf(MonthsOf(nn))
      /\ h = Rem(d.hours, 24) /\ hh = Rem(e.hours, 24)
  BY <1>5, <1>6 DEF ArePartsOf
<1>10. 12 * y + m <= 12 * yy + mm
  BY <1>2, <1>8, <1>9 DEF NoLonger
<1>11. 12 * y + m = 12 * yy + mm => MonthsOf(n) = MonthsOf(nn)
  BY <1>2, <1>8, <1>9 DEF NoLonger
<1>12. y < yy \/ (y = yy /\ m < mm) \/ (y = yy /\ m = mm /\ MonthsOf(n) = MonthsOf(nn))
  BY <1>10, <1>11
<1>13. MonthsOf(n) = MonthsOf(nn) => r < rr \/ (r = rr /\ h <= hh)
  <2>1. ASSUME MonthsOf(n) = MonthsOf(nn) PROVE rr - r = nn - n
    BY <1>3, <1>8, <1>9, <2>1
  <2>2. QED
    BY <1>3, <1>9, <2>1
<1>14. \/ y < yy
       \/ y = yy /\ m < mm
       \/ y = yy /\ m = mm /\ r < rr
       \/ y = yy /\ m = mm /\ r = rr /\ h < hh
       \/ y = yy /\ m = mm /\ r = rr /\ h = hh
  BY <1>12, <1>13
<1>15. AtMost(<<y, m, r, h>>, <<yy, mm, rr, hh>>)
  BY <1>14 DEF AtMost
<1>16. QED
  BY <1>7, <1>15

LEMMA ValueGrows ==
  ASSUME NEW d, NEW e, IsLength(d), IsLength(e), NoLonger(d, e), d # e
  PROVE  ValueOf(d) < ValueOf(e)
<1>1. /\ d.months \in Nat /\ d.days \in Nat /\ d.hours \in Nat
      /\ e.months \in Nat /\ e.days \in Nat /\ e.hours \in Nat
      /\ d.months <= e.months /\ d.days <= e.days /\ d.hours <= e.hours
      /\ d.months # e.months \/ d.days # e.days \/ d.hours # e.hours
  BY DEF IsLength, NoLonger
<1>2. PICK y, m, yy, mm : /\ y = Trunc(d.months, 12) /\ m = Rem(d.months, 12)
                          /\ yy = Trunc(e.months, 12) /\ mm = Rem(e.months, 12)
  OBVIOUS
<1>3. /\ y \in Nat /\ m \in 0 .. 11 /\ yy \in Nat /\ mm \in 0 .. 11
      /\ d.months = 12 * y + m /\ e.months = 12 * yy + mm
  <2>1. \A a \in Nat : Trunc(a, 12) \in Nat /\ Rem(a, 12) \in 0 .. 11 /\ a = 12 * Trunc(a, 12) + Rem(a, 12)
    BY DEF Trunc, Rem
  <2>2. /\ Trunc(d.months, 12) \in Nat /\ Rem(d.months, 12) \in 0 .. 11
        /\ d.months = 12 * Trunc(d.months, 12) + Rem(d.months, 12)
    BY <1>1, <2>1
  <2>3. /\ Trunc(e.months, 12) \in Nat /\ Rem(e.months, 12) \in 0 .. 11
        /\ e.months = 12 * Trunc(e.months, 12) + Rem(e.months, 12)
    BY <1>1, <2>1
  <2>4. QED
    BY <1>2, <2>2, <2>3
<1>4. /\ 365 * y + 30 * m <= 365 * yy + 30 * mm
      /\ d.months # e.months => 365 * y + 30 * m < 365 * yy + 30 * mm
  BY <1>1, <1>3
<1>5. /\ ValueOf(d) = d.hours + 24 * (d.days + 30 * m + 365 * y)
      /\ ValueOf(e) = e.hours + 24 * (e.days + 30 * mm + 365 * yy)
  BY <1>2 DEF ValueOf
<1>6. QED
  BY <1>1, <1>3, <1>4, <1>5

(* What is told of a length: the first unit that is not too small for it.   *)
AtLeastOne(n) == IF n <= 1 THEN 1 ELSE n

LEMMA RoundGrows ==
  /\ \A a, b \in Int : a <= b => Round(a, PerDay) <= Round(b, PerDay)
  /\ \A a, b \in Int : a <= b => Round(a, 24) <= Round(b, 24)
  /\ \A a, b \in Int : a <= b => Round(a, PerMonth * 24) <= Round(b, PerMonth * 24)
  /\ \A a, b \in Int : a <= b => Round(a, 12 * PerMonth * 24) <= Round(b, 12 * PerMonth * 24)
BY SMT DEF Round, PerDay, PerMonth

LEMMA RoundOf ==
  /\ \A a \in Nat : Round(a, PerDay) \in Nat /\ a <= PerDay * Round(a, PerDay) + PerDay
  /\ \A a \in Nat : Round(a, 24) \in Nat /\ (a < 22 => Round(a, 24) <= 1) /\ (Round(a, 24) < 26 => a <= 611)
  /\ \A a \in Nat : /\ Round(a, PerMonth * 24) \in Nat /\ Round(a, 12 * PerMonth * 24) \in Nat
                    /\ a <= PerDay * 635 => Round(a, PerMonth * 24) <= 1
BY SMT DEF Round, PerDay, PerMonth

LEMMA Told ==
  ASSUME NEW d, IsLength(d)
  PROVE  /\ AsHours(d) \in Nat /\ RoundedDays(d) \in Nat /\ RoundedMonths(d) \in Nat /\ RoundedYears(d) \in Nat
         /\ AsHours(d) < 22 => RelativeTime(d) = <<1, AtLeastOne(AsHours(d))>>
         /\ AsHours(d) >= 22 /\ RoundedDays(d) < 26 => RelativeTime(d) = <<2, AtLeastOne(RoundedDays(d))>>
         /\ AsHours(d) >= 22 /\ RoundedDays(d) >= 26 /\ RoundedMonths(d) < 11
            => RelativeTime(d) = <<3, AtLeastOne(RoundedMonths(d))>>
         /\ AsHours(d) >= 22 /\ RoundedDays(d) >= 26 /\ RoundedMonths(d) >= 11
            => RelativeTime(d) = <<4, AtLeastOne(RoundedYears(d))>>
<1>1. d.months \in Nat /\ d.days \in Nat /\ d.hours \in Nat /\ Absolute(d) = d
  BY DEF IsLength, Absolute
<1>2. PICK hours, days, months, years :
        hours = AsHours(d) /\ days = RoundedDays(d) /\ months = RoundedMonths(d) /\ years = RoundedYears(d)
  OBVIOUS
<1>3. PICK q, x : /\ q = Round(d.months * PerMonth, PerDay)
                  /\ x = d.months * PerMonth * 24 + (24 * d.days + d.hours) * PerDay
  OBVIOUS
<1>4. d.months * PerMonth \in Nat /\ q \in Nat /\ d.months * PerMonth <= PerDay * q + PerDay
  <2>1. d.months * PerMonth \in Nat
    BY <1>1, SMT DEF PerMonth
  <2>2. QED
    BY <1>3, <2>1, RoundOf
<1>5. x \in Nat /\ hours = 24 * (d.days + q) + d.hours /\ hours \in Nat /\ x <= PerDay * (hours + 24)
  BY <1>1, <1>2, <1>3, <1>4, SMT DEF AsHours, PerDay, PerMonth
<1>6. days = Round(hours, 24) /\ months = Round(x, PerMonth * 24) /\ years = Round(x, 12 * PerMonth * 24)
  BY <1>2, <1>3 DEF RoundedDays, RoundedMonths, RoundedYears
<1>7. days \in Nat /\ months \in Nat /\ years \in Nat /\ (hours < 22 => days <= 1) /\ (days < 26 => hours <= 611)
  BY <1>5, <1>6, RoundOf
<1>8. days < 26 => months <= 1
  <2>1. days < 26 => x <= PerDay * 635
    BY <1>5, <1>7, SMT DEF PerDay
  <2>2. QED
    BY <1>5, <1>6, <2>1, RoundOf, SMT
<1>10. CASE hours < 22
  BY <1>1, <1>2, <1>5, <1>7, <1>8, <1>10, SMT DEF AtLeastOne, RelativeTime, Thresholds
<1>11. CASE hours >= 22 /\ days < 26
  BY <1>1, <1>2, <1>5, <1>7, <1>8, <1>11, SMT DEF AtLeastOne, RelativeTime, Thresholds
<1>12. CASE hours >= 22 /\ days >= 26 /\ months < 11
  BY <1>1, <1>2, <1>5, <1>7, <1>8, <1>12, SMT DEF AtLeastOne, RelativeTime, Thresholds
<1>13. CASE hours >= 22 /\ days >= 26 /\ months >= 11
  BY <1>1, <1>2, <1>5, <1>7, <1>8, <1>13, SMT DEF AtLeastOne, RelativeTime, Thresholds
<1>14. QED
  BY <1>5, <1>7, <1>10, <1>11, <1>12, <1>13

LEMMA ToldGrows ==
  ASSUME NEW d, NEW e, IsLength(d), IsLength(e), NoLonger(d, e)
  PROVE  AtMost(RelativeTime(d), RelativeTime(e))
<1>1. /\ d.months \in Nat /\ d.days \in Nat /\ d.hours \in Nat
      /\ e.months \in Nat /\ e.days \in Nat /\ e.hours \in Nat
      /\ d.months <= e.months /\ d.days <= e.days /\ d.hours <= e.hours
  BY DEF IsLength, NoLonger
<1>2. PICK q, qq : q = Round(d.months * PerMonth, PerDay) /\ qq = Round(e.months * PerMonth, PerDay)
  OBVIOUS
<1>3. q \in Nat /\ qq \in Nat /\ q <= qq
  <2>1. d.months * PerMonth \in Nat /\ e.months * PerMonth \in Nat /\ d.months * PerMonth <= e.months * PerMonth
    BY <1>1, SMT DEF PerMonth
  <2>2. PICK p, pp : p = d.months * PerMonth /\ pp = e.months * PerMonth
    OBVIOUS
  <2>3. p \in Nat /\ pp \in Nat /\ p <= pp /\ p \in Int /\ pp \in Int
    BY <2>1, <2>2
  <2>4. Round(p, PerDay) \in Nat /\ Round(pp, PerDay) \in Nat
    BY <2>3, RoundOf
  <2>5. Round(p, PerDay) <= Round(pp, PerDay)
    BY <2>3, RoundGrows
  <2>6. QED
    BY <1>2, <2>2, <2>4, <2>5
<1>4. AsHours(d) <= AsHours(e)
  BY <1>1, <1>2, <1>3 DEF AsHours
<1>5. RoundedDays(d) <= RoundedDays(e)
  BY <1>4, Told, RoundGrows DEF RoundedDays
<1>6. PICK x, xx : /\ x = d.months * PerMonth * 24 + (24 * d.days + d.hours) * PerDay
                   /\ xx = e.months * PerMonth * 24 + (24 * e.days + e.hours) * PerDay
  OBVIOUS
<1>7. x \in Int /\ xx \in Int /\ x <= xx
  BY <1>1, <1>6, SMT DEF PerMonth, PerDay
<1>8. RoundedMonths(d) <= RoundedMonths(e) /\ RoundedYears(d) <= RoundedYears(e)
  BY <1>6, <1>7, RoundGrows DEF RoundedMonths, RoundedYears
<1>9. \A u, v \in 1 .. 4, k, j \in Nat : u < v \/ (u = v /\ k <= j) => AtMost(<<u, k>>, <<v, j>>)
  <2>1. SUFFICES ASSUME NEW u \in 1 .. 4, NEW v \in 1 .. 4, NEW k \in Nat, NEW j \in Nat,
                        u < v \/ (u = v /\ k < j) \/ (u = v /\ k = j)
                 PROVE  AtMost(<<u, k>>, <<v, j>>)
    OBVIOUS
  <2>2. CASE u < v
    <3>1. 1 \in DOMAIN <<u, k>> /\ <<u, k>>[1] = u /\ <<v, j>>[1] = v
      OBVIOUS
    <3>2. \A i \in 1 .. (1 - 1) : <<u, k>>[i] = <<v, j>>[i]
      OBVIOUS
    <3>3. QED
      BY <2>2, <3>1, <3>2 DEF AtMost
  <2>3. CASE u = v /\ k < j
    BY <2>3 DEF AtMost
  <2>4. CASE u = v /\ k = j
    BY <2>4 DEF AtMost
  <2>5. QED
    BY <2>1, <2>2, <2>3, <2>4
<1>10. \A k, j \in Nat : /\ AtLeastOne(k) \in Nat
                         /\ k <= j => AtLeastOne(k) <= AtLeastOne(j)
  BY DEF AtLeastOne
<1>11. \E u \in 1 .. 4, k \in Nat, v \in 1 .. 4, j \in Nat :
          /\ RelativeTime(d) = <<u, k>> /\ RelativeTime(e) = <<v, j>>
          /\ u < v \/ (u = v /\ k <= j)
  BY <1>4, <1>5, <1>8, <1>10, Told
<1>12. QED
  BY <1>9, <1>11

(* cloud-dashboard.js:6319-6364: the parts of a duration that are shown     *)
(* have one sign, none is as large as the next one and they show            *)
(* themselves, for any durations of whole months, days and hours and        *)
(* whatever is added to them or taken away.                                 *)
THEOREM DurationsAreProper ==
  ASSUME \A d \in Starts \cup Steps : IsDuration(d)
  PROVE  DurationsSpec => [](IsDuration(dur) /\ PartsAreProper)
<1>1. DurationsInit => IsDuration(dur)
  BY DEF DurationsInit
<1>2. IsDuration(dur) /\ [DurationsNext]_durVars => IsDuration(dur)'
  <2> SUFFICES ASSUME IsDuration(dur), [DurationsNext]_durVars PROVE IsDuration(dur')
    OBVIOUS
  <2>1. ASSUME NEW e \in Steps PROVE IsDuration(Plus(dur, e, 1)) /\ IsDuration(Plus(dur, e, -1))
    BY DEF IsDuration, Plus
  <2>2. QED
    BY <2>1 DEF DurationsNext, Add, Subtract, AddSubtract, durVars
<1>3. IsDuration(dur) => PartsAreProper
  BY BubbleIsProper DEF PartsAreProper, ProperParts
<1>4. QED
  BY <1>1, <1>2, <1>3, PTL DEF DurationsSpec

(* cloud-dashboard.js:6291-6309, 6319-6364, 6408-6418, 6477-6496: a length  *)
(* that something is added to is never shown, told or compared as less than *)
(* before, for any lengths.                                                 *)
THEOREM LongerIsMoreAlways ==
  ASSUME \A d \in Starts : IsDuration(d),
         \A e \in Steps : IsLength(e) /\ e # [months |-> 0, days |-> 0, hours |-> 0]
  PROVE  DurationsSpec => [][LongerIsMore]_durVars
<1>1. DurationsInit => IsDuration(dur)
  BY DEF DurationsInit
<1>2. IsDuration(dur) /\ [DurationsNext]_durVars => IsDuration(dur)'
  <2> SUFFICES ASSUME IsDuration(dur), [DurationsNext]_durVars PROVE IsDuration(dur')
    OBVIOUS
  <2>1. ASSUME NEW e \in Steps PROVE IsDuration(Plus(dur, e, 1)) /\ IsDuration(Plus(dur, e, -1))
    BY DEF IsDuration, IsLength, Plus
  <2>2. QED
    BY <2>1 DEF DurationsNext, Add, Subtract, AddSubtract, durVars
<1>3. IsDuration(dur) => LongerIsMore
  <2> SUFFICES ASSUME IsDuration(dur), dur.hours >= 0, dur.days >= 0, dur.months >= 0,
                      NEW e \in Steps, dur' = Plus(dur, e, 1)
               PROVE  /\ AtMost(Parts(Bubble(dur)), Parts(Bubble(dur')))
                      /\ AtMost(RelativeTime(dur), RelativeTime(dur'))
                      /\ ValueOf(dur) < ValueOf(dur')
    BY DEF LongerIsMore
  <2>1. IsLength(dur)
    BY DEF IsDuration, IsLength
  <2>2. /\ e.months \in Nat /\ e.days \in Nat /\ e.hours \in Nat
        /\ e.months # 0 \/ e.days # 0 \/ e.hours # 0
    BY DEF IsLength
  <2>3. /\ dur' = [months |-> dur.months + 1 * e.months, days |-> dur.days + 1 * e.days,
                   hours |-> dur.hours + 1 * e.hours]
        /\ dur.months \in Nat /\ dur.days \in Nat /\ dur.hours \in Nat
    BY <2>1 DEF Plus, IsLength
  <2>4. IsLength(dur') /\ NoLonger(dur, dur') /\ dur # dur'
    BY <2>2, <2>3 DEF IsLength, NoLonger
  <2>5. QED
    BY <2>1, <2>4, PartsGrow, ToldGrows, ValueGrows
<1>4. QED
  BY <1>1, <1>2, <1>3, PTL DEF DurationsSpec
=============================================================================
