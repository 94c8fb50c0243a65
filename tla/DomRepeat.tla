------------------------------ MODULE DomRepeat ------------------------------
(***************************************************************************)
(* The instances of a template for the items of an array: those the filter *)
(* passes, sorted, as many as the limit lets through.  Renders are         *)
(* debounced, and while the limit is below the number of items each render *)
(* asks for an animation frame that raises it.  Between a change of the    *)
(* array and the render that follows, instances and items may meet under   *)
(* the indices of the last render.  A render tells its listeners before it *)
(* asks for the next chunk, and what they ask for may be replaced by that. *)
(***************************************************************************)
EXTENDS Integers, Sequences, FiniteSets, Functions

CONSTANTS
    Items,        \* what the array holds, numbers that are also their order
    Passing,      \* the items a filter passes
    MaxLength,    \* bound: the length of the array
    MaxFrames,    \* bound: the frames asked for at a time
    MaxNotifying, \* bound: renders within what listeners of renders do
    InitialCount, \* initialCount, 0 if it is not set
    NoRender

VARIABLES
    items,
    filter, sort,  \* whether there is a function for it
    instances,     \* each with the item it has, its index and its item's index
    instOf,        \* __itemsIdxToInstIdx: where the item of an index was put
    limit,         \* __limit
    render,        \* what is debounced: "render", "chunk" (ask for a frame) or NoRender
    chunks,        \* the animation frames asked for
    rendered,      \* whether no single item was replaced since the last render
    notifying,     \* renders whose listeners are being told
    replaced       \* whether a render asked for since the last was replaced by a chunk

repeatVars ==
    <<items, filter, sort, instances, instOf, limit, render, chunks, rendered, notifying, replaced>>

Infinity == MaxLength

RepeatInit ==
    /\ items = <<>> /\ filter = FALSE /\ sort = FALSE
    /\ instances = <<>> /\ instOf = <<>>
    /\ limit = IF InitialCount = 0 THEN Infinity ELSE InitialCount
    /\ render = NoRender /\ chunks = 0
    /\ rendered = TRUE /\ notifying = 0 /\ replaced = FALSE

-----------------------------------------------------------------------------
(* The indices of the items to show ...                                     *)
Shown == {i \in DOMAIN items : filter => items[i] \in Passing}

Before(i, j) == IF sort /\ items[i] # items[j] THEN items[i] < items[j] ELSE i < j

(* ... in the order to show them: the k-th has k - 1 of them before it.     *)
Place(i) == Cardinality({j \in Shown : Before(j, i)}) + 1

Selected == [k \in 1 .. Cardinality(Shown) |-> CHOOSE i \in Shown : Place(i) = k]

Limited == SubSeq(Selected, 1, IF Len(Selected) < limit THEN Len(Selected) ELSE limit)

(* The array is set, or items are put in or taken out: rendered again, in   *)
(* chunks again if there is an initialCount.                                *)
ItemsChange(array) ==
    /\ array # items
    /\ items' = array
    /\ limit' = IF InitialCount = 0 THEN limit ELSE InitialCount
    /\ render' = "render"
    /\ UNCHANGED <<filter, sort, instances, instOf, chunks, rendered, notifying, replaced>>

FilterChanges ==
    /\ filter' = ~filter
    /\ render' = "render"
    /\ UNCHANGED <<items, sort, instances, instOf, limit, chunks, rendered, notifying, replaced>>

SortChanges ==
    /\ sort' = ~sort
    /\ render' = "render"
    /\ UNCHANGED <<items, filter, instances, instOf, limit, chunks, rendered, notifying, replaced>>

(* The instance that __handleItemPath finds for an index of the array.      *)
Found(i) == IF i \in DOMAIN instOf /\ instOf[i] <= Len(instances) THEN instOf[i] ELSE 0

Given(inst, item) == [inst EXCEPT !.item = item]

(* One item is replaced, by the page or by an instance (notifyInstanceProp, *)
(* which goes by the index it was rendered with): the instance of that      *)
(* index is given it at once, and nothing is filtered or sorted anew.       *)
ItemChanges(i, item) ==
    /\ i \in DOMAIN items /\ items[i] # item
    /\ items' = [items EXCEPT ![i] = item]
    /\ instances' = IF Found(i) = 0 THEN instances
                    ELSE [instances EXCEPT ![Found(i)] = Given(@, item)]
    /\ rendered' = FALSE
    /\ UNCHANGED <<filter, sort, instOf, limit, render, chunks, notifying, replaced>>

-----------------------------------------------------------------------------
(* __applyFullRefresh: the instances that are there are given the items,    *)
(* more are stamped, or taken from the pool, and what is left over goes.    *)
Refreshed ==
    [k \in DOMAIN Limited |->
        [item |-> items[Limited[k]], index |-> k, itemsIndex |-> Limited[k]]]

(* __render, up to dom-change, whose listeners are told at once: they may   *)
(* change what this element shows, and render again.                        *)
RenderItems ==
    /\ render = "render" /\ notifying < MaxNotifying
    /\ instances' = Refreshed
    /\ instOf' = [i \in Range(Limited) |-> CHOOSE k \in DOMAIN Limited : Limited[k] = i]
    /\ render' = NoRender
    /\ rendered' = TRUE /\ replaced' = FALSE
    /\ notifying' = notifying + 1
    /\ UNCHANGED <<items, filter, sort, limit, chunks>>

(* __tryRenderChunk, the end of __render.  The next chunk is asked for as   *)
(* long as the limit is below the number of items, though the filter may    *)
(* pass fewer; it takes the place of a render the listeners asked for.      *)
TryRenderChunk ==
    /\ notifying > 0
    /\ notifying' = notifying - 1
    /\ IF limit < Len(items)
       THEN render' = "chunk" /\ replaced' = (replaced \/ render = "render")
       ELSE UNCHANGED <<render, replaced>>
    /\ UNCHANGED <<items, filter, sort, instances, instOf, limit, chunks, rendered>>

RequestChunk ==
    /\ render = "chunk" /\ chunks < MaxFrames
    /\ render' = NoRender
    /\ chunks' = chunks + 1
    /\ UNCHANGED <<items, filter, sort, instances, instOf, limit, rendered, notifying, replaced>>

(* A mutant: it is rendered only if no render is debounced for more items.  *)
RenderChunk_Once ==
    /\ chunks > 0 /\ notifying = 0
    /\ chunks' = chunks - 1
    /\ limit' = limit + 1
    /\ UNCHANGED <<items, filter, sort, instances, instOf, render, rendered, notifying, replaced>>

(* A frame: the limit is raised by what the last one took time for, but at  *)
(* least by one.                                                            *)
RenderChunk ==
    /\ chunks > 0 /\ notifying = 0
    /\ chunks' = chunks - 1
    /\ \E count \in 1 .. MaxLength :
           limit' = IF limit + count > Infinity THEN Infinity ELSE limit + count
    /\ render' = "render"
    /\ UNCHANGED <<items, filter, sort, instances, instOf, rendered, notifying, replaced>>

Arrays == UNION {[1 .. n -> Items] : n \in 0 .. MaxLength}

RepeatNext ==
    \/ \E array \in Arrays : ItemsChange(array)
    \/ FilterChanges \/ SortChanges
    \/ \E i \in 1 .. MaxLength, item \in Items : ItemChanges(i, item)
    \/ RenderItems \/ TryRenderChunk \/ RequestChunk \/ RenderChunk

RepeatSpec == RepeatInit /\ [][RepeatNext]_repeatVars

-----------------------------------------------------------------------------
(* cloud-dashboard.js:17219-17234: the state has its type.                  *)
RepeatTypeOK ==
    /\ items \in Arrays
    /\ filter \in BOOLEAN /\ sort \in BOOLEAN /\ rendered \in BOOLEAN
    /\ \A k \in DOMAIN instances :
           instances[k] \in [item : Items, index : {k}, itemsIndex : 1 .. MaxLength]
    /\ limit \in Nat /\ chunks \in Nat /\ notifying \in Nat /\ replaced \in BOOLEAN
    /\ render \in {"render", "chunk", NoRender}

(* cloud-dashboard.js:17302-17310,17460-17497,17571-17579: when no render   *)
(* waits, and none that was asked for was replaced, each instance has the   *)
(* item of its index, through changes of one item, of the array, the filter *)
(* and the order, in any order, also by listeners.                          *)
InstancesAgree ==
    render # "render" /\ ~replaced =>
        \A k \in DOMAIN instances :
            /\ instances[k].itemsIndex \in DOMAIN items
            /\ instances[k].item = items[instances[k].itemsIndex]
            /\ instOf[instances[k].itemsIndex] = k

(* cloud-dashboard.js:17356-17378,17416,17450-17457: a render that the next *)
(* chunk took the place of is made up for: the chunk, or its frame, is to   *)
(* come, and renders.                                                       *)
ReplacedComes == replaced => render # NoRender \/ chunks > 0

(* cloud-dashboard.js:17356-17378,17457-17479: when nothing is debounced,   *)
(* no listener is being told and no frame is to come, all items the filter  *)
(* passes are shown, in order.  An item that was replaced since is not      *)
(* filtered or sorted.                                                      *)
AllShown ==
    render = NoRender /\ chunks = 0 /\ notifying = 0 /\ rendered =>
        [k \in DOMAIN instances |-> instances[k].itemsIndex] = Selected
=============================================================================
