------------------------------- MODULE Paths -------------------------------
(***************************************************************************)
(* Paths into an element's data: those that name the same data are linked, *)
(* and what is told of one is told of the other; the methods that change   *)
(* an array tell, besides its length, what was replaced where.  Observers  *)
(* such as lists keep their own view of an array by these records.         *)
(***************************************************************************)
EXTENDS Integers, Sequences, SequencesExt, Functions

CONSTANTS
    Ends,       \* paths that are linked: sequences of names
    Below,      \* how a path goes on from them: sequences, one of them empty
    Things,     \* the values of paths, the items of the array
    MaxTelling, \* how many paths one call of notifyPath may come to
    MaxItems,   \* bound: the length of the array
    MaxStrays   \* bound: the splices that start outside of the array

VARIABLES
    links,     \* __dataLinkedPaths
    pathCalls, \* the calls of _setPendingPropertyOrPath to be made, the next first
    temp,      \* __dataTemp: the paths told in this flush, and their values
    array,     \* the array
    mirror,    \* what an observer makes of the splices it is told
    strays     \* how many splices started outside of the array

pathVars == <<links, pathCalls, temp, array, mirror, strays>>

Nothing == [path \in {} |-> <<>>]

PathInit ==
    /\ links = Nothing /\ pathCalls = <<>> /\ temp = Nothing
    /\ \E n \in 0 .. MaxItems : array \in [1 .. n -> Things]
    /\ mirror = array /\ strays = 0

-----------------------------------------------------------------------------
(* Path.isAncestor, with the path itself, and Path.translate.               *)
IsDescendant(base, path) == IsStrictPrefix(base, path)
Translate(base, newBase, path) == newBase \o SubSeq(path, Len(base) + 1, Len(path))

AtRest == pathCalls = <<>> /\ temp = Nothing

LinkPaths(to, from) ==
    /\ AtRest /\ to # from
    /\ links' = [path \in DOMAIN links \cup {to} |-> IF path = to THEN from ELSE links[path]]
    /\ UNCHANGED <<pathCalls, temp, array, mirror, strays>>

UnlinkPaths(to) ==
    /\ AtRest /\ to \in DOMAIN links
    /\ links' = Restrict(links, DOMAIN links \ {to})
    /\ UNCHANGED <<pathCalls, temp, array, mirror, strays>>

(* notifyPath: what follows is done before it returns.                      *)
NotifyPath(path, value) ==
    /\ AtRest
    /\ pathCalls' = <<[path |-> path, value |-> value]>>
    /\ UNCHANGED <<links, temp, array, mirror, strays>>

(* computeLinkedPaths: the links with an end that the path goes on from;    *)
(* each leads to the other end, from which it goes on alike.                *)
LinksOn(path) == {to \in DOMAIN links : IsDescendant(to, path) \/ IsDescendant(links[to], path)}

LinkedTo(path, to) ==
    IF IsDescendant(to, path) THEN Translate(to, links[to], path)
    ELSE Translate(links[to], to, path)

FromLinks(call) ==
    LET ends == SetToSeq(LinksOn(call.path))
    IN  [n \in 1 .. Len(ends) |-> LinkedTo(call.path, ends[n])]

With(call) ==
    [path \in DOMAIN temp \cup {call.path} |->
        IF path = call.path THEN call.value ELSE temp[path]]

Calls(paths, value) == [n \in 1 .. Len(paths) |-> [path |-> paths[n], value |-> value]]

(* _setPendingPropertyOrPath: a path whose value was told already in this   *)
(* flush is left, which is what ends the recursion.                         *)
SetPendingPath ==
    LET call == Head(pathCalls) IN
    /\ pathCalls # <<>>
    /\ IF call.path \in DOMAIN temp /\ temp[call.path] = call.value
       THEN pathCalls' = Tail(pathCalls) /\ UNCHANGED temp
       ELSE /\ temp' = With(call)
            /\ pathCalls' = Calls(FromLinks(call), call.value) \o Tail(pathCalls)
    /\ UNCHANGED <<links, array, mirror, strays>>

(* The flush, when all paths are there: each is told.                       *)
FlushPaths ==
    /\ pathCalls = <<>> /\ temp # Nothing
    /\ temp' = Nothing
    /\ UNCHANGED <<links, pathCalls, array, mirror, strays>>

-----------------------------------------------------------------------------
(* What there is of a sequence from one place to another.                   *)
Piece(seq, from, to) ==
    SubSeq(seq, IF from < 1 THEN 1 ELSE from, IF to > Len(seq) THEN Len(seq) ELSE to)

(* What an observer of the array's splices does: what is before the index   *)
(* stays, and so does what is after the items removed.                      *)
Applied(seq, index, removed, added) ==
    Piece(seq, 1, index) \o added \o Piece(seq, index + Len(removed) + 1, Len(seq))

(* notifySplice: the record of what was removed and added, and where; the   *)
(* observer finds what was added in the array, where the record says.       *)
NotifySplice(new, index, added, removed) ==
    /\ array' = new
    /\ mirror' = Applied(mirror, index, removed, Piece(new, index + 1, index + added))
    /\ UNCHANGED <<links, pathCalls, temp>>

Push(item) ==
    /\ Len(array) < MaxItems
    /\ NotifySplice(Append(array, item), Len(array), 1, <<>>)
    /\ UNCHANGED strays

Pop ==
    /\ array # <<>>
    /\ NotifySplice(Front(array), Len(array) - 1, 0, <<Last(array)>>)
    /\ UNCHANGED strays

Shift ==
    /\ array # <<>>
    /\ NotifySplice(Tail(array), 0, 0, <<Head(array)>>)
    /\ UNCHANGED strays

Unshift(item) ==
    /\ Len(array) < MaxItems
    /\ NotifySplice(<<item>> \o array, 0, 1, <<>>)
    /\ UNCHANGED strays

(* Array.prototype.splice of the language: where it starts, and how many it *)
(* removes.                                                                 *)
Start(start) == IF start < 0 THEN (IF start + Len(array) < 0 THEN 0 ELSE start + Len(array))
                ELSE IF start > Len(array) THEN Len(array) ELSE start
Count(start, count) == IF count > Len(array) - Start(start) THEN Len(array) - Start(start) ELSE count

(* Whether a start is in the array, counted from its beginning or end.      *)
InArray(start) == start \in -Len(array) .. Len(array)

(* splice: a start from the end is counted from the beginning first.  Below *)
(* the beginning that is again one from the end, and it is what is told;    *)
(* so is a start beyond the end, where the language takes the end.          *)
Splice(start, count, items) ==
    LET index   == IF start < 0 THEN Len(array) + start ELSE start
        removed == SubSeq(array, Start(index) + 1, Start(index) + Count(index, count))
    IN  /\ items # <<>> \/ removed # <<>>
        /\ Len(array) + Len(items) - Len(removed) <= MaxItems
        /\ \/ InArray(start) /\ UNCHANGED strays
           \/ ~InArray(start) /\ strays < MaxStrays /\ strays' = strays + 1
        /\ NotifySplice(Applied(array, Start(index), removed, items), index, Len(items), removed)

-----------------------------------------------------------------------------
Items == UNION {[1 .. n -> Things] : n \in 0 .. 2}

(* The methods that change the array, called when no path is being told.    *)
ArrayChanges ==
    \/ \E item \in Things : Push(item) \/ Unshift(item)
    \/ Pop \/ Shift
    \/ \E start \in -(MaxItems + 1) .. MaxItems + 1, count \in 0 .. MaxItems, items \in Items :
          Splice(start, count, items)

PathNext ==
    \/ \E to, from \in Ends : LinkPaths(to, from) \/ UnlinkPaths(to)
    \/ \E end \in Ends, below \in Below, value \in Things : NotifyPath(end \o below, value)
    \/ SetPendingPath \/ FlushPaths
    \/ AtRest /\ ArrayChanges

PathSpec == PathInit /\ [][PathNext]_pathVars

-----------------------------------------------------------------------------
(* The paths that name the same data: by any number of links, from one end  *)
(* to the other.                                                            *)
LinkedEnds(a, b) ==
    \/ a \in DOMAIN links /\ links[a] = b
    \/ b \in DOMAIN links /\ links[b] = a

Same(a, b) ==
    \A S \in SUBSET Ends :
        a \in S /\ (\A x \in S, y \in Ends : LinkedEnds(x, y) => y \in S) => b \in S

(* cloud-dashboard.js:9337-9352,10251-10255: a value told of a path below a *)
(* linked one is told, in the same flush, of every path that names it.      *)
LinkedTold ==
    temp # Nothing /\ temp' = Nothing =>
        \A a, b \in Ends, below \in Below :
            Same(a, b) /\ below # <<>> /\ a \o below \in DOMAIN temp =>
                b \o below \in DOMAIN temp /\ temp[b \o below] = temp[a \o below]

(* cloud-dashboard.js:10232-10255: links may form rings; what is told of    *)
(* one path comes to an end all the same.                                   *)
TellingEnds == Len(pathCalls) <= MaxTelling /\ DOMAIN temp \subseteq {a \o b : a \in Ends, b \in Below}

(* cloud-dashboard.js:10712-10829: whoever follows the splices that are     *)
(* told has the array, as long as none started outside of it: what is told  *)
(* of one that did is not where it was made.                                *)
Mirrored == strays = 0 => mirror = array
=============================================================================
