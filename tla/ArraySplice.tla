----------------------------- MODULE ArraySplice -----------------------------
(***************************************************************************)
(* The splices that turn one array into another: what the ends share is    *)
(* left out, the rest is compared by the length of the edits that lead     *)
(* from each part of one to each part of the other.  Indices count from 0, *)
(* as in the code; elements are taken at index + 1.                        *)
(***************************************************************************)
EXTENDS Integers, Sequences, SequencesExt, FiniteSetsExt

NewSplice(index, removed, addedCount) ==
    [index |-> index, removed |-> removed, addedCount |-> addedCount]

(* How long a part, up to a length, is shared by the starts of two arrays.  *)
SharedPrefix(current, old, length) ==
    Max({n \in 0 .. length : SubSeq(current, 1, n) = SubSeq(old, 1, n)})

SharedSuffix(current, old, length) ==
    SharedPrefix(Reverse(current), Reverse(old), length)

(* The places between the elements of two arrays.                           *)
Grid(old, current) == (0 .. Len(old)) \X (0 .. Len(current))

(* The number of edits, without any that replace an element, from the first *)
(* i elements of the old array to the first j of the current one, by the    *)
(* numbers from one less of either.                                         *)
DistanceAt(distance, at, current, old) ==
    LET i == at[1]
        j == at[2]
    IN  IF i = 0 \/ j = 0 THEN i + j
        ELSE IF current[j] = old[i] THEN distance[<<i - 1, j - 1>>]
        ELSE Min({distance[<<i - 1, j>>], distance[<<i, j - 1>>]}) + 1

EditDistances(current, old) ==
    LET distance[at \in Grid(old, current)] == DistanceAt(distance, at, current, old) IN distance

(* A way through the distances from the end to the start: where the step to *)
(* both elements before is no longer than the others it is taken, and       *)
(* replaces an element unless nothing is to be done.                        *)
OperationsAt(ops, at, distance) ==
    LET i == at[1]
        j == at[2]
        northWest == distance[<<i - 1, j - 1>>]
        west      == distance[<<i - 1, j>>]
        north     == distance[<<i, j - 1>>]
    IN  CASE i = 0 /\ j = 0 -> <<>>
          [] i = 0 /\ j > 0 -> Append(ops[<<i, j - 1>>], "add")
          [] j = 0 /\ i > 0 -> Append(ops[<<i - 1, j>>], "delete")
          [] OTHER ->
                IF northWest <= Min({west, north})
                THEN Append(ops[<<i - 1, j - 1>>],
                            IF northWest = distance[at] THEN "leave" ELSE "update")
                ELSE IF west <= north THEN Append(ops[<<i - 1, j>>], "delete")
                ELSE Append(ops[<<i, j - 1>>], "add")

SpliceOperations(current, old) ==
    LET distance == EditDistances(current, old)
        ops[at \in Grid(old, current)] == OperationsAt(ops, at, distance)
    IN  ops[<<Len(old), Len(current)>>]

(* The splices of a list of operations; those without one that leaves an    *)
(* element between them make one splice.                                    *)
Scanned(start) ==
    [splices |-> <<>>, open |-> FALSE, splice |-> NewSplice(0, <<>>, 0),
     index |-> start, oldIndex |-> start]

Closed(s) == IF s.open THEN Append(s.splices, s.splice) ELSE s.splices
Opened(s) == IF s.open THEN s.splice ELSE NewSplice(s.index, <<>>, 0)

Operated(s, op, old) ==
    LET adds == IF op \in {"update", "add"} THEN 1 ELSE 0
        removes == IF op \in {"update", "delete"} THEN 1 ELSE 0
    IN  IF op = "leave"
        THEN [s EXCEPT !.splices = Closed(s), !.open = FALSE, !.index = @ + 1, !.oldIndex = @ + 1]
        ELSE [s EXCEPT !.open = TRUE,
                       !.splice = NewSplice(Opened(s).index,
                           Opened(s).removed \o SubSeq(old, s.oldIndex + 1, s.oldIndex + removes),
                           Opened(s).addedCount + adds),
                       !.index = @ + adds, !.oldIndex = @ + removes]

Scan(ops, old, start) ==
    LET after[n \in 0 .. Len(ops)] ==
            IF n = 0 THEN Scanned(start) ELSE Operated(after[n - 1], ops[n], old)
    IN  after[Len(ops)]

SplicesOf(ops, old, start) == Closed(Scan(ops, old, start))

(* A mutant: the ends may share what the starts share.                      *)
SharedLengths_Overlap(current, old) ==
    LET shortest == Min({Len(current), Len(old)})
    IN  [prefix |-> SharedPrefix(current, old, shortest),
         suffix |-> SharedSuffix(current, old, shortest)]

SharedLengths(current, old) ==
    LET shortest == Min({Len(current), Len(old)})
        prefix == SharedPrefix(current, old, shortest)
    IN  [prefix |-> prefix,
         suffix |-> SharedSuffix(current, old, shortest - prefix)]

CalculateSplices(current, old) ==
    LET shared  == SharedLengths(current, old)
        start   == shared.prefix
        middle  == SubSeq(current, start + 1, Len(current) - shared.suffix)
        oldMiddle == SubSeq(old, start + 1, Len(old) - shared.suffix)
    IN  IF middle = <<>> /\ oldMiddle = <<>> THEN <<>>
        ELSE IF middle = <<>> \/ oldMiddle = <<>>
        THEN <<NewSplice(start, oldMiddle, Len(middle))>>
        ELSE SplicesOf(SpliceOperations(middle, oldMiddle), old, start)

-----------------------------------------------------------------------------
(* A splice takes its removed elements out and puts the current ones of its *)
(* places in; the arrays while the splices are made one after another.      *)
Applied(array, s, current) ==
    SubSeq(array, 1, s.index)
    \o SubSeq(current, s.index + 1, s.index + s.addedCount)
    \o SubSeq(array, s.index + Len(s.removed) + 1, Len(array))

Arrays(splices, current, old) ==
    LET array[n \in 0 .. Len(splices)] ==
            IF n = 0 THEN old ELSE Applied(array[n - 1], splices[n], current)
    IN  array

AllSplices(splices, current, old) == Arrays(splices, current, old)[Len(splices)]

(* The elements a splice removes are those it finds at its index.           *)
Matches(splices, current, old) ==
    \A n \in DOMAIN splices :
        LET s == splices[n] IN
        SubSeq(Arrays(splices, current, old)[n - 1], s.index + 1, s.index + Len(s.removed)) = s.removed

(* How many elements are removed and added.                                 *)
Edits(splices) ==
    LET edits[n \in 0 .. Len(splices)] ==
            IF n = 0 THEN 0
            ELSE edits[n - 1] + Len(splices[n].removed) + splices[n].addedCount
    IN  edits[Len(splices)]

(* What need not be removed or added: so many elements of one array are, in *)
(* the same order, in the other.                                            *)
Increasing(k, n) ==
    {places \in [1 .. k -> 1 .. n] : \A i, j \in 1 .. k : i < j => places[i] < places[j]}

Common(a, b, k) ==
    \E f \in Increasing(k, Len(a)), g \in Increasing(k, Len(b)) : \A n \in 1 .. k : a[f[n]] = b[g[n]]

LongestCommon(a, b) == Max({k \in 0 .. Len(a) : Common(a, b, k)})
=============================================================================
