---------------------------- MODULE ArraySelector ----------------------------
(***************************************************************************)
(* Which items of an array are selected: a map from the selected items to  *)
(* their indices, in the order they were selected, the value it gives to   *)
(* the page, and the links between the paths of both.  The array changes   *)
(* under it: it is replaced, spliced, or one item of it is set.            *)
(***************************************************************************)
EXTENDS ArraySplice

CONSTANTS
    Pool,     \* what the array holds, nothing twice
    NoItem,
    MaxItems  \* bound: the length of the array

VARIABLES
    multi, toggle,
    array,     \* items
    selection, \* __selectedMap: the items and their indices, from 0
    selected,  \* what the page is given: an array, or one item or NoItem
    links      \* __dataLinkedPaths: where an index of items is in selected

selectorVars == <<multi, toggle, array, selection, selected, links>>

ItemArrays ==
    UNION {{s \in [1 .. n -> Pool] : \A i, j \in 1 .. n : s[i] = s[j] => i = j} :
               n \in 0 .. MaxItems}

SelectorInit ==
    /\ multi \in BOOLEAN /\ toggle \in BOOLEAN
    /\ array \in ItemArrays
    /\ selection = <<>> /\ links = <<>>
    /\ selected = IF multi THEN <<>> ELSE NoItem

-----------------------------------------------------------------------------
Keys(map) == [k \in DOMAIN map |-> map[k].item]

IsSelected(item) == item \in Range(Keys(selection))

(* The items of a map that are not gone, in its order.                      *)
Remaining(map) ==
    LET upto[n \in 0 .. Len(map)] ==
            IF n = 0 THEN <<>>
            ELSE IF map[n].idx >= 0 THEN Append(upto[n - 1], map[n])
            ELSE upto[n - 1]
    IN  upto[Len(map)]

(* __updateLinks: by the places the items have in selected, or will have    *)
(* when those that are gone are taken out; a single item is linked the      *)
(* other way round, so that its index leads nowhere.                        *)
LinksOf(map) ==
    IF ~multi THEN <<>>
    ELSE LET there == Remaining(map)
         IN  [i \in {there[k].idx : k \in DOMAIN there} |->
                 CHOOSE k \in DOMAIN there : there[k].idx = i]

(* What the page is given for a map without items that are gone.            *)
Chosen(map) ==
    IF multi THEN Keys(map) ELSE IF map = <<>> THEN NoItem ELSE map[1].item

(* A mutant: the index a removed item had is moved on as that of others.    *)
Shifted_Gone(map, s) ==
    [k \in DOMAIN map |-> IF map[k].idx < s.index THEN map[k]
        ELSE [map[k] EXCEPT !.idx = @ + s.addedCount - Len(s.removed)]]

(* One splice of __applySplices: indices behind it move, those in it are    *)
(* gone, and then those of the items that come with it are set.             *)
Shifted(map, s) ==
    [k \in DOMAIN map |->
        CASE map[k].idx < s.index -> map[k]
          [] map[k].idx >= s.index + Len(s.removed) ->
                [map[k] EXCEPT !.idx = @ + s.addedCount - Len(s.removed)]
          [] OTHER -> [map[k] EXCEPT !.idx = -1]]

Spliced(map, s, items) ==
    [k \in DOMAIN map |->
        LET places == {i \in s.index .. s.index + s.addedCount - 1 : items[i + 1] = map[k].item}
        IN  IF places = {} THEN Shifted(map, s)[k]
            ELSE [map[k] EXCEPT !.idx = CHOOSE i \in places : TRUE]]

AllSpliced(splices, items) ==
    LET after[n \in 0 .. Len(splices)] ==
            IF n = 0 THEN selection ELSE Spliced(after[n - 1], splices[n], items)
    IN  after[Len(splices)]

ApplySplices(splices, items) ==
    LET map == AllSpliced(splices, items)
        kept == Remaining(map)
    IN  /\ selection' = kept
        /\ links' = LinksOf(map)
        /\ selected' = IF kept = map THEN selected ELSE Chosen(kept)

(* items is set to another array.                                           *)
SetArray(items) ==
    /\ items # array
    /\ array' = items
    /\ ApplySplices(CalculateSplices(items, array), items)
    /\ UNCHANGED <<multi, toggle>>

(* items is spliced through the element: one splice, as it was made.        *)
SpliceArray(index, count, added) ==
    LET items == SubSeq(array, 1, index) \o added \o SubSeq(array, index + count + 1, Len(array))
    IN  /\ index + count <= Len(array) /\ count + Len(added) > 0
        /\ items \in ItemArrays
        /\ array' = items
        /\ ApplySplices(<<NewSplice(index, SubSeq(array, index + 1, index + count), Len(added))>>, items)
        /\ UNCHANGED <<multi, toggle>>

(* multi changes with the array: the selection is cleared first.            *)
SetMulti ==
    /\ multi' = ~multi
    /\ selection' = <<>> /\ links' = <<>>
    /\ selected' = IF multi' THEN <<>> ELSE NoItem
    /\ UNCHANGED <<array, toggle>>

-----------------------------------------------------------------------------
Without(seq, k) == SubSeq(seq, 1, k - 1) \o SubSeq(seq, k + 1, Len(seq))

(* deselect: its place in selected is looked up in the links.               *)
Deselect(item) ==
    \E k \in DOMAIN selection :
        /\ selection[k].item = item
        /\ selection' = Without(selection, k)
        /\ selected' = IF multi THEN Without(selected, links[selection[k].idx]) ELSE NoItem
        /\ links' = LinksOf(Without(selection, k))

DeselectItem(item) ==
    Deselect(item) /\ UNCHANGED <<multi, toggle, array>>

(* selectIndex: one more, or another one; toggled if it was selected.       *)
SelectIndex(idx) ==
    /\ idx < Len(array)
    /\ \/ /\ ~IsSelected(array[idx + 1])
          /\ selection' = (IF multi THEN selection ELSE <<>>) \o <<[item |-> array[idx + 1], idx |-> idx]>>
          /\ links' = LinksOf(selection')
          /\ selected' = IF multi THEN Append(selected, array[idx + 1]) ELSE array[idx + 1]
       \/ /\ IsSelected(array[idx + 1]) /\ toggle
          /\ Deselect(array[idx + 1])
    /\ UNCHANGED <<multi, toggle, array>>

(* One item is set: the one that was there is deselected, if its index is   *)
(* linked.                                                                  *)
SetItem(idx, item) ==
    /\ idx < Len(array) /\ item \notin Range(array)
    /\ array' = [array EXCEPT ![idx + 1] = item]
    /\ IF idx \in DOMAIN links THEN Deselect(selection[links[idx]].item)
       ELSE UNCHANGED <<selection, selected, links>>
    /\ UNCHANGED <<multi, toggle>>

SelectorNext ==
    \/ \E items \in ItemArrays : SetArray(items)
    \/ \E index, count \in 0 .. MaxItems, added \in {<<>>} \cup {<<p>> : p \in Pool} :
           SpliceArray(index, count, added)
    \/ SetMulti
    \/ \E item \in Pool : DeselectItem(item)
    \/ \E idx \in 0 .. MaxItems - 1 : SelectIndex(idx) \/ \E item \in Pool : SetItem(idx, item)

SelectorSpec == SelectorInit /\ [][SelectorNext]_selectorVars

-----------------------------------------------------------------------------
(* cloud-dashboard.js:18105-18108,18198-18208: what the page is given are   *)
(* the items of the map, in its order, one at most if only one is allowed.  *)
SelectedAgrees ==
    /\ selected = Chosen(selection)
    /\ ~multi => Len(selection) <= 1

(* cloud-dashboard.js:18036-18075,18131-18148: whatever happens to the      *)
(* array, a selected item is found at its index, and the links lead from    *)
(* there to its place in selected.  With single selection an item that is   *)
(* set in place of the selected one leaves that selected.                   *)
IndicesAgree ==
    multi =>
        /\ \A k \in DOMAIN selection :
               /\ selection[k].idx + 1 \in DOMAIN array
               /\ array[selection[k].idx + 1] = selection[k].item
        /\ links = LinksOf(selection)
=============================================================================
