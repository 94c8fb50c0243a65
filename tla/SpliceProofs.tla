---------------------------- MODULE SpliceProofs ----------------------------
(***************************************************************************)
(* The splices between two arrays are right for arrays of any length, of   *)
(* anything.  What the code calculates in loops is recursive: the tables   *)
(* of the distances and of the ways back, the scan of the operations, the  *)
(* splices made one after another.  That each recursion defines what it    *)
(* should follows from the well-foundedness of the numbers, applied to     *)
(* sets; then the distances are those of the longest common part, and      *)
(* every prefix of a way leads, in as many edits as its cell says, from    *)
(* the old array to one that is current up to there.  Who follows them,    *)
(* the observer of nodes and the array selector, has what is there.        *)
(***************************************************************************)
EXTENDS FlattenedNodes, ArraySelector, WellFoundedInduction, SequenceTheorems, TLAPS

-----------------------------------------------------------------------------
(* Induction over the natural numbers, stated of a set: a least number      *)
(* outside it would have a successor of a member before it.                 *)
LEMMA SetInduction ==
  ASSUME NEW S, 0 \in S, \A n \in Nat : n \in S => n + 1 \in S
  PROVE  Nat \subseteq S
<1> DEFINE T == Nat \ S
           R == OpToRel(<, Nat)
<1>1. SUFFICES ASSUME T # {} PROVE FALSE
  OBVIOUS
<1>2. IsWellFoundedOn(R, Nat)
  BY NatLessThanWellFounded
<1>3. \A y, x \in Nat : y < x => <<y, x>> \in R
  BY DEF OpToRel
<1>4. T \subseteq Nat
  OBVIOUS
<1> HIDE DEF R, T
<1>5. PICK x \in T : \A y \in T : ~(<<y, x>> \in R)
  BY <1>1, <1>2, <1>4, WFMin
<1>6. x \in Nat /\ x # 0 /\ x \notin S
  BY DEF T
<1>7. x - 1 \in Nat /\ x - 1 < x
  BY <1>6
<1>8. x - 1 \in S
  BY <1>3, <1>5, <1>6, <1>7 DEF T
<1>9. QED
  BY <1>6, <1>7, <1>8

(* What holds of an element if it holds of all smaller ones holds of all.   *)
LEMMA SizeInduction ==
  ASSUME NEW C, NEW size \in [C -> Nat], NEW P,
         \A c \in C : (\A d \in C : size[d] < size[c] => d \in P) => c \in P
  PROVE  C \subseteq P
<1> DEFINE S == {k \in Nat : \A c \in C : size[c] < k => c \in P}
<1>1. 0 \in S
  OBVIOUS
<1>2. ASSUME NEW n \in Nat, n \in S PROVE n + 1 \in S
  <2>1. ASSUME NEW c \in C, size[c] < n + 1 PROVE c \in P
    <3>1. \A d \in C : size[d] < size[c] => d \in P
      BY <1>2, <2>1
    <3>2. QED
      BY <3>1
  <2>2. QED
    BY <2>1
<1>3. Nat \subseteq S
  <2> HIDE DEF S
  <2> QED
    BY <1>1, <1>2, SetInduction
<1>4. ASSUME NEW c \in C PROVE c \in P
  BY <1>3, size[c] + 1 \in Nat
<1>5. QED
  BY <1>4

(* A recursive definition by smaller elements defines a function.           *)
BySmaller(C, size, max, V, F) ==
    /\ size \in [C -> Nat] /\ max \in Nat /\ V # {}
    /\ \A c \in C : size[c] < max
    /\ F \in [C \X [C -> V] -> V]
    /\ \A c \in C : \A g, h \in [C -> V] :
          (\A d \in C : size[d] < size[c] => g[d] = h[d]) => F[<<c, g>>] = F[<<c, h>>]

(* By induction over the sizes that the function is defined up to.          *)
LEMMA RecursionExists ==
  ASSUME NEW C, NEW size, NEW max, NEW V, NEW F, BySmaller(C, size, max, V, F)
  PROVE  \E f \in [C -> V] : \A c \in C : f[c] = F[<<c, f>>]
<1> USE DEF BySmaller
<1> DEFINE Upto(k) == \E f \in [C -> V] : \A c \in C : size[c] < k => f[c] = F[<<c, f>>]
           S == {k \in Nat : Upto(k)}
<1>1. 0 \in S
  <2>1. PICK v \in V : TRUE
    OBVIOUS
  <2>2. PICK f : f = [c \in C |-> v]
    OBVIOUS
  <2>3. f \in [C -> V] /\ \A c \in C : ~(size[c] < 0)
    BY <2>2
  <2>4. Upto(0)
    BY <2>3
  <2>5. QED
    BY <2>4
<1>2. ASSUME NEW n \in Nat, n \in S PROVE n + 1 \in S
  <2>1. PICK g \in [C -> V] : \A c \in C : size[c] < n => g[c] = F[<<c, g>>]
    BY <1>2
  <2>2. PICK h : h = [c \in C |-> IF size[c] < n THEN g[c] ELSE F[<<c, g>>]]
    OBVIOUS
  <2>3. h \in [C -> V]
    BY <2>2
  <2>4. ASSUME NEW c \in C, size[c] < n + 1 PROVE h[c] = F[<<c, h>>]
    <3>1. \A d \in C : size[d] < size[c] => g[d] = h[d]
      BY <2>2, <2>4
    <3>2. F[<<c, g>>] = F[<<c, h>>]
      BY <2>3, <3>1
    <3>3. h[c] = F[<<c, g>>]
      BY <2>1, <2>2
    <3>4. QED
      BY <3>2, <3>3
  <2>5. QED
    BY <2>3, <2>4
<1>3. Nat \subseteq S
  <2> HIDE DEF S
  <2> QED
    BY <1>1, <1>2, SetInduction
<1>4. Upto(max)
  BY <1>3
<1>5. QED
  BY <1>4

(* The greatest of numbers that are bounded.                                *)
LEMMA MaxOfBounded ==
  ASSUME NEW N \in Nat, NEW S \in SUBSET (0 .. N), S # {}
  PROVE  /\ Max(S) \in S /\ Max(S) \in 0 .. N
         /\ \A y \in S : y <= Max(S)
<1> DEFINE R == OpToRel(<, Nat)
           T == {N - y : y \in S}
<1>1. IsWellFoundedOn(R, Nat)
  BY NatLessThanWellFounded
<1>2. \A y, x \in Nat : y < x => <<y, x>> \in R
  BY DEF OpToRel
<1>3. T \subseteq Nat /\ T # {}
  <2>1. \A y \in S : y \in Int /\ 0 <= y /\ y <= N
    OBVIOUS
  <2>2. \A y \in S : N - y \in Nat
    BY <2>1
  <2>3. QED
    BY <2>2
<1>4. \A y \in S : N - y \in T
  OBVIOUS
<1>5. \A x \in T : \E m \in S : x = N - m
  OBVIOUS
<1> HIDE DEF R, T
<1>6. PICK x \in T : \A y \in T : ~(<<y, x>> \in R)
  BY <1>1, <1>3, WFMin
<1>7. PICK m \in S : x = N - m
  BY <1>5
<1>8. \A y \in S : ~(N - y < x)
  BY <1>2, <1>3, <1>4, <1>6
<1>9. \A y \in S : m >= y
  BY <1>7, <1>8
<1>10. Max(S) \in S /\ \A y \in S : Max(S) >= y
  BY <1>9 DEF Max
<1>11. QED
  BY <1>10

(* The smaller of two numbers.                                              *)
LEMMA MinOfTwo ==
  ASSUME NEW x \in Int, NEW y \in Int
  PROVE  Min({x, y}) = IF x <= y THEN x ELSE y
<1>1. CASE x <= y
  <2>1. x \in {x, y} /\ \A z \in {x, y} : x <= z
    BY <1>1
  <2>2. QED
    BY <2>1 DEF Min
<1>2. CASE ~(x <= y)
  <2>1. y \in {x, y} /\ \A z \in {x, y} : y <= z
    BY <1>2
  <2>2. QED
    BY <2>1, <1>2 DEF Min
<1>3. QED
  BY <1>1, <1>2

-----------------------------------------------------------------------------
(* The cells of the grid by how far they are from its start.                *)
CellSize(old, current) == [c \in Grid(old, current) |-> c[1] + c[2]]

(* The cells that a cell is calculated from are in the grid, and smaller.   *)
LEMMA GridCells ==
  ASSUME NEW E, NEW current \in Seq(E), NEW old \in Seq(E)
  PROVE  LET C == Grid(old, current)
             size == CellSize(old, current)
         IN  /\ size \in [C -> Nat] /\ Len(old) + Len(current) + 1 \in Nat
             /\ Len(old) \in Nat /\ Len(current) \in Nat
             /\ \A c \in C : size[c] < Len(old) + Len(current) + 1
             /\ \A c \in C : \E i \in 0 .. Len(old), j \in 0 .. Len(current) : c = <<i, j>>
             /\ \A i \in 0 .. Len(old), j \in 0 .. Len(current) :
                    /\ <<i, j>> \in C /\ size[<<i, j>>] = i + j
                    /\ i > 0 => <<i - 1, j>> \in C /\ size[<<i - 1, j>>] < size[<<i, j>>]
                    /\ j > 0 => <<i, j - 1>> \in C /\ size[<<i, j - 1>>] < size[<<i, j>>]
                    /\ (i > 0 /\ j > 0) =>
                           <<i - 1, j - 1>> \in C /\ size[<<i - 1, j - 1>>] < size[<<i, j>>]
<1> PICK C, size : C = Grid(old, current) /\ size = CellSize(old, current)
  OBVIOUS
<1>1. Len(old) \in Nat /\ Len(current) \in Nat
  BY LenProperties
<1>2. \A i \in 0 .. Len(old), j \in 0 .. Len(current) : <<i, j>> \in C /\ size[<<i, j>>] = i + j
  BY DEF Grid, CellSize
<1>3. \A c \in C : \E i \in 0 .. Len(old), j \in 0 .. Len(current) : c = <<i, j>>
  BY DEF Grid
<1>4. \A c \in C : size[c] \in Nat /\ size[c] < Len(old) + Len(current) + 1
  BY <1>1, <1>2, <1>3
<1>5. size \in [C -> Nat]
  BY <1>4 DEF CellSize
<1>6. ASSUME NEW i \in 0 .. Len(old), NEW j \in 0 .. Len(current)
      PROVE  /\ i > 0 => <<i - 1, j>> \in C /\ size[<<i - 1, j>>] < size[<<i, j>>]
             /\ j > 0 => <<i, j - 1>> \in C /\ size[<<i, j - 1>>] < size[<<i, j>>]
             /\ (i > 0 /\ j > 0) =>
                    <<i - 1, j - 1>> \in C /\ size[<<i - 1, j - 1>>] < size[<<i, j>>]
  <2>1. /\ i > 0 => i - 1 \in 0 .. Len(old)
        /\ j > 0 => j - 1 \in 0 .. Len(current)
    BY <1>1
  <2>2. size[<<i, j>>] = i + j
    BY <1>2
  <2>3. i > 0 => <<i - 1, j>> \in C /\ size[<<i - 1, j>>] = (i - 1) + j
    BY <1>2, <2>1
  <2>4. j > 0 => <<i, j - 1>> \in C /\ size[<<i, j - 1>>] = i + (j - 1)
    BY <1>2, <2>1
  <2>5. i > 0 /\ j > 0 => <<i - 1, j - 1>> \in C /\ size[<<i - 1, j - 1>>] = (i - 1) + (j - 1)
    BY <1>2, <2>1
  <2>6. (i - 1) + j < i + j /\ i + (j - 1) < i + j /\ (i - 1) + (j - 1) < i + j
    OBVIOUS
  <2>7. QED
    BY <2>2, <2>3, <2>4, <2>5, <2>6
<1>7. Len(old) + Len(current) + 1 \in Nat
  BY <1>1
<1>8. QED
  BY <1>1, <1>2, <1>3, <1>4, <1>5, <1>6, <1>7

(* cloud-dashboard.js:13797-13827: there is a table of distances, of        *)
(* numbers, whose cells all are what calcEditDistances makes of those       *)
(* before them.                                                             *)
LEMMA DistancesAre ==
  ASSUME NEW E, NEW current \in Seq(E), NEW old \in Seq(E)
  PROVE  LET d == EditDistances(current, old)
         IN  /\ d \in [Grid(old, current) -> Nat]
             /\ \A at \in Grid(old, current) : d[at] = DistanceAt(d, at, current, old)
<1> DEFINE C == Grid(old, current)
           size == CellSize(old, current)
           max == Len(old) + Len(current) + 1
           F == [p \in C \X [C -> Nat] |-> DistanceAt(p[2], p[1], current, old)]
<1>1. Len(old) \in Nat /\ Len(current) \in Nat
  BY GridCells
<1>2. \A c \in C : \E i \in 0 .. Len(old), j \in 0 .. Len(current) : c = <<i, j>>
  BY DEF Grid
<1>3. size \in [C -> Nat] /\ max \in Nat /\ \A c \in C : size[c] < max
  BY GridCells
<1>4. \A i \in 0 .. Len(old), j \in 0 .. Len(current) :
         /\ i > 0 => <<i - 1, j>> \in C /\ size[<<i - 1, j>>] < size[<<i, j>>]
         /\ j > 0 => <<i, j - 1>> \in C /\ size[<<i, j - 1>>] < size[<<i, j>>]
         /\ (i > 0 /\ j > 0) => <<i - 1, j - 1>> \in C /\ size[<<i - 1, j - 1>>] < size[<<i, j>>]
  BY GridCells
<1> HIDE DEF C, size, max
<1>5. ASSUME NEW c \in C, NEW g, NEW h,
             \A b \in C : size[b] < size[c] => g[b] = h[b] /\ g[b] \in Nat
      PROVE  /\ DistanceAt(g, c, current, old) \in Nat
             /\ DistanceAt(g, c, current, old) = DistanceAt(h, c, current, old)
  <2>1. PICK i \in 0 .. Len(old), j \in 0 .. Len(current) : c = <<i, j>>
    BY <1>2
  <2>2. CASE i = 0 \/ j = 0
    BY <2>1, <2>2 DEF DistanceAt
  <2>3. CASE i > 0 /\ j > 0
    <3>1. /\ <<i - 1, j>> \in C /\ <<i, j - 1>> \in C /\ <<i - 1, j - 1>> \in C
          /\ size[<<i - 1, j>>] < size[c] /\ size[<<i, j - 1>>] < size[c]
          /\ size[<<i - 1, j - 1>>] < size[c]
      BY <1>4, <2>1, <2>3
    <3>2. PICK w, n, x : w = <<i - 1, j>> /\ n = <<i, j - 1>> /\ x = <<i - 1, j - 1>>
      OBVIOUS
    <3>3. /\ g[w] \in Nat /\ g[n] \in Nat /\ g[x] \in Nat
          /\ g[w] = h[w] /\ g[n] = h[n] /\ g[x] = h[x]
      BY <1>5, <3>1, <3>2
    <3>4. Min({g[w], g[n]}) \in Nat
      <4>1. Min({g[w], g[n]}) = IF g[w] <= g[n] THEN g[w] ELSE g[n]
        BY <3>3, MinOfTwo
      <4>2. QED
        BY <3>3, <4>1
    <3>5. \A f : DistanceAt(f, c, current, old) =
                    IF current[j] = old[i] THEN f[x] ELSE Min({f[w], f[n]}) + 1
      BY <2>1, <2>3, <3>2 DEF DistanceAt
    <3>6. /\ DistanceAt(g, c, current, old) = IF current[j] = old[i] THEN g[x] ELSE Min({g[w], g[n]}) + 1
          /\ DistanceAt(h, c, current, old) = IF current[j] = old[i] THEN h[x] ELSE Min({h[w], h[n]}) + 1
      BY <3>5
    <3>7. Min({h[w], h[n]}) = Min({g[w], g[n]})
      BY <3>3
    <3>8. Min({g[w], g[n]}) + 1 \in Nat
      BY <3>4
    <3> HIDE DEF DistanceAt
    <3>9. QED
      BY <3>3, <3>6, <3>7, <3>8
  <2>4. QED
    BY <2>2, <2>3
<1>6. F \in [C \X [C -> Nat] -> Nat]
  <2>1. \A c \in C, g \in [C -> Nat] : DistanceAt(g, c, current, old) \in Nat
    <3>1. ASSUME NEW c \in C, NEW g \in [C -> Nat] PROVE DistanceAt(g, c, current, old) \in Nat
      <4>1. \A b \in C : size[b] < size[c] => g[b] = g[b] /\ g[b] \in Nat
        OBVIOUS
      <4>2. QED
        BY <1>5, <4>1
    <3>2. QED
      BY <3>1
  <2>2. QED
    BY <2>1
<1>7. \A c \in C, g \in [C -> Nat] : F[<<c, g>>] = DistanceAt(g, c, current, old)
  OBVIOUS
<1> HIDE DEF F
<1>8. \A c \in C : \A g, h \in [C -> Nat] :
          (\A b \in C : size[b] < size[c] => g[b] = h[b]) => F[<<c, g>>] = F[<<c, h>>]
  <2>1. ASSUME NEW c \in C, NEW g \in [C -> Nat], NEW h \in [C -> Nat],
               \A b \in C : size[b] < size[c] => g[b] = h[b]
        PROVE  F[<<c, g>>] = F[<<c, h>>]
    <3>1. \A b \in C : size[b] < size[c] => g[b] = h[b] /\ g[b] \in Nat
      BY <2>1
    <3>3. DistanceAt(g, c, current, old) = DistanceAt(h, c, current, old)
      BY <1>5, <3>1
    <3>2. QED
      BY <1>7, <3>3
  <2>2. QED
    BY <2>1
<1>9. PICK f \in [C -> Nat] : \A c \in C : f[c] = F[<<c, f>>]
  <2>1. PICK V : V = Nat
    OBVIOUS
  <2>2. V # {} /\ F \in [C \X [C -> V] -> V]
    BY <1>6, <2>1
  <2>3. \A c \in C : \A g, h \in [C -> V] :
          (\A b \in C : size[b] < size[c] => g[b] = h[b]) => F[<<c, g>>] = F[<<c, h>>]
    BY <1>8, <2>1
  <2>4. \E f \in [C -> V] : \A c \in C : f[c] = F[<<c, f>>]
    <3>1. BySmaller(C, size, max, V, F)
      BY <1>3, <2>2, <2>3 DEF BySmaller
    <3>2. QED
      BY <3>1, RecursionExists
  <2>5. QED
    BY <2>1, <2>4
<1>10. \A c \in C : f[c] = DistanceAt(f, c, current, old)
  BY <1>7, <1>9
<1> DEFINE Body(g) == [c \in C |-> DistanceAt(g, c, current, old)]
<1>11. f = Body(f)
  BY <1>9, <1>10
<1>12. EditDistances(current, old) = CHOOSE g : g = Body(g)
  BY DEF EditDistances, C
<1> HIDE DEF Body
<1>13. EditDistances(current, old) = Body(EditDistances(current, old))
  BY <1>11, <1>12
<1> PICK d : d = EditDistances(current, old)
  OBVIOUS
<1>14. d = [c \in C |-> DistanceAt(d, c, current, old)]
  BY <1>13 DEF Body
<1>15. \A c \in C : d[c] = DistanceAt(d, c, current, old)
  BY <1>14
<1> DEFINE P == {c \in C : d[c] \in Nat}
<1>16. ASSUME NEW c \in C, \A b \in C : size[b] < size[c] => b \in P
       PROVE  c \in P
  <2>1. \A b \in C : size[b] < size[c] => d[b] = d[b] /\ d[b] \in Nat
    BY <1>16
  <2>2. DistanceAt(d, c, current, old) \in Nat
    BY <1>5, <2>1
  <2>3. d[c] \in Nat
    BY <1>15, <2>2
  <2>4. QED
    BY <2>3
<1>17. C \subseteq P
  <2> HIDE DEF P
  <2>1. QED
    BY <1>3, <1>16, SizeInduction
<1>18. d \in [C -> Nat]
  BY <1>14, <1>17
<1>19. QED
  BY <1>15, <1>18 DEF C

(* The operations, EDIT_LEAVE and so on.                                    *)
OpNames == {"add", "delete", "leave", "update"}

(* cloud-dashboard.js:13832-13880: from every cell there is a way back to   *)
(* the start, a list of operations, and one of them is taken.               *)
LEMMA OperationsAre ==
  ASSUME NEW E, NEW current \in Seq(E), NEW old \in Seq(E)
  PROVE  LET d == EditDistances(current, old)
         IN  \E ops \in [Grid(old, current) -> Seq(OpNames)] :
                /\ \A at \in Grid(old, current) : ops[at] = OperationsAt(ops, at, d)
                /\ SpliceOperations(current, old) = ops[<<Len(old), Len(current)>>]
<1> PICK dist : dist = EditDistances(current, old)
  OBVIOUS
<1> DEFINE C == Grid(old, current)
           size == CellSize(old, current)
           max == Len(old) + Len(current) + 1
           V == Seq(OpNames)
           F == [p \in C \X [C -> V] |-> OperationsAt(p[2], p[1], dist)]
<1>1. Len(old) \in Nat /\ Len(current) \in Nat
  BY GridCells
<1>2. \A c \in C : \E i \in 0 .. Len(old), j \in 0 .. Len(current) : c = <<i, j>>
  BY DEF Grid
<1>3. size \in [C -> Nat] /\ max \in Nat /\ \A c \in C : size[c] < max
  BY GridCells
<1>4. \A i \in 0 .. Len(old), j \in 0 .. Len(current) :
         /\ i > 0 => <<i - 1, j>> \in C /\ size[<<i - 1, j>>] < size[<<i, j>>]
         /\ j > 0 => <<i, j - 1>> \in C /\ size[<<i, j - 1>>] < size[<<i, j>>]
         /\ (i > 0 /\ j > 0) => <<i - 1, j - 1>> \in C /\ size[<<i - 1, j - 1>>] < size[<<i, j>>]
  BY GridCells
<1> HIDE DEF C, size, max, V
<1>5. ASSUME NEW c \in C, NEW g, NEW h,
             \A b \in C : size[b] < size[c] => g[b] = h[b] /\ g[b] \in V
      PROVE  /\ OperationsAt(g, c, dist) \in V
             /\ OperationsAt(g, c, dist) = OperationsAt(h, c, dist)
  <2>1. PICK i \in 0 .. Len(old), j \in 0 .. Len(current) : c = <<i, j>>
    BY <1>2
  <2>2. PICK w, n, x : w = <<i - 1, j>> /\ n = <<i, j - 1>> /\ x = <<i - 1, j - 1>>
    OBVIOUS
  <2>3. /\ i > 0 => g[w] \in V /\ g[w] = h[w]
        /\ j > 0 => g[n] \in V /\ g[n] = h[n]
        /\ (i > 0 /\ j > 0) => g[x] \in V /\ g[x] = h[x]
    BY <1>4, <1>5, <2>1, <2>2
  <2>4. <<>> \in V /\ \A s \in V, o \in OpNames : Append(s, o) \in V
    BY DEF V
  <2>5. {"add", "delete", "leave", "update"} \subseteq OpNames
    BY DEF OpNames
  <2>6. CASE i = 0 /\ j = 0
    BY <2>1, <2>4, <2>6 DEF OperationsAt
  <2>7. CASE i = 0 /\ j > 0
    <3>1. \A f : OperationsAt(f, c, dist) = Append(f[n], "add")
      BY <2>1, <2>2, <2>7 DEF OperationsAt
    <3>2. QED
      BY <2>3, <2>4, <2>5, <2>7, <3>1
  <2>8. CASE i > 0 /\ j = 0
    <3>1. \A f : OperationsAt(f, c, dist) = Append(f[w], "delete")
      BY <2>1, <2>2, <2>8 DEF OperationsAt
    <3>2. QED
      BY <2>3, <2>4, <2>5, <2>8, <3>1
  <2>9. CASE i > 0 /\ j > 0
    <3>1. \A f : OperationsAt(f, c, dist) =
                    IF dist[x] <= Min({dist[w], dist[n]})
                    THEN Append(f[x], IF dist[x] = dist[c] THEN "leave" ELSE "update")
                    ELSE IF dist[w] <= dist[n] THEN Append(f[w], "delete") ELSE Append(f[n], "add")
      BY <2>1, <2>2, <2>9 DEF OperationsAt
    <3>2. QED
      BY <2>3, <2>4, <2>5, <2>9, <3>1
  <2>10. QED
    BY <2>6, <2>7, <2>8, <2>9
<1>6. F \in [C \X [C -> V] -> V]
  <2>1. \A c \in C, g \in [C -> V] : OperationsAt(g, c, dist) \in V
    <3>1. ASSUME NEW c \in C, NEW g \in [C -> V] PROVE OperationsAt(g, c, dist) \in V
      <4>1. \A b \in C : size[b] < size[c] => g[b] = g[b] /\ g[b] \in V
        OBVIOUS
      <4>2. QED
        BY <1>5, <4>1
    <3>2. QED
      BY <3>1
  <2>2. QED
    BY <2>1
<1>7. \A c \in C, g \in [C -> V] : F[<<c, g>>] = OperationsAt(g, c, dist)
  OBVIOUS
<1> HIDE DEF F
<1>8. \A c \in C : \A g, h \in [C -> V] :
          (\A b \in C : size[b] < size[c] => g[b] = h[b]) => F[<<c, g>>] = F[<<c, h>>]
  <2>1. ASSUME NEW c \in C, NEW g \in [C -> V], NEW h \in [C -> V],
               \A b \in C : size[b] < size[c] => g[b] = h[b]
        PROVE  F[<<c, g>>] = F[<<c, h>>]
    <3>1. \A b \in C : size[b] < size[c] => g[b] = h[b] /\ g[b] \in V
      BY <2>1
    <3>3. OperationsAt(g, c, dist) = OperationsAt(h, c, dist)
      BY <1>5, <3>1
    <3>2. QED
      BY <1>7, <3>3
  <2>2. QED
    BY <2>1
<1>9. PICK f \in [C -> V] : \A c \in C : f[c] = F[<<c, f>>]
  <2>1. <<>> \in V
    BY DEF V
  <2>2. BySmaller(C, size, max, V, F)
    BY <1>3, <1>6, <1>8, <2>1 DEF BySmaller
  <2>3. QED
    BY <2>2, RecursionExists
<1>10. \A c \in C : f[c] = OperationsAt(f, c, dist)
  BY <1>7, <1>9
<1> DEFINE Body(g) == [c \in C |-> OperationsAt(g, c, dist)]
<1>11. f = Body(f)
  BY <1>9, <1>10
<1> DEFINE ops == CHOOSE g : g = Body(g)
<1>12. SpliceOperations(current, old) = ops[<<Len(old), Len(current)>>]
  BY DEF SpliceOperations, C
<1> HIDE DEF Body
<1>13. ops = Body(ops)
  BY <1>11
<1> HIDE DEF ops
<1> PICK d : d = ops
  OBVIOUS
<1>14. d = [c \in C |-> OperationsAt(d, c, dist)]
  BY <1>13 DEF Body
<1>15. \A c \in C : d[c] = OperationsAt(d, c, dist)
  BY <1>14
<1> DEFINE P == {c \in C : d[c] \in V}
<1>16. ASSUME NEW c \in C, \A b \in C : size[b] < size[c] => b \in P
       PROVE  c \in P
  <2>1. \A b \in C : size[b] < size[c] => d[b] = d[b] /\ d[b] \in V
    BY <1>16
  <2>2. OperationsAt(d, c, dist) \in V
    BY <1>5, <2>1
  <2>3. d[c] \in V
    BY <1>15, <2>2
  <2>4. QED
    BY <2>3
<1>17. C \subseteq P
  <2> HIDE DEF P
  <2>1. QED
    BY <1>3, <1>16, SizeInduction
<1>18. d \in [C -> V]
  BY <1>14, <1>17
<1>19. SpliceOperations(current, old) = d[<<Len(old), Len(current)>>]
  BY <1>12
<1>20. QED
  BY <1>15, <1>18, <1>19 DEF C, V

-----------------------------------------------------------------------------
(* A cell of the distances, and those before it.                            *)
DistanceStep(d, i, j, current, old) ==
    /\ d[<<i, j>>] \in Nat
    /\ (i = 0 \/ j = 0) => d[<<i, j>>] = i + j
    /\ i > 0 => d[<<i - 1, j>>] \in Nat
    /\ j > 0 => d[<<i, j - 1>>] \in Nat
    /\ (i > 0 /\ j > 0) =>
         /\ d[<<i - 1, j - 1>>] \in Nat
         /\ current[j] = old[i] => d[<<i, j>>] = d[<<i - 1, j - 1>>]
         /\ current[j] # old[i] =>
               d[<<i, j>>] = (IF d[<<i - 1, j>>] <= d[<<i, j - 1>>]
                              THEN d[<<i - 1, j>>] ELSE d[<<i, j - 1>>]) + 1

(* Every cell is like that.                                                 *)
LEMMA DistanceSteps ==
  ASSUME NEW E, NEW current \in Seq(E), NEW old \in Seq(E),
         NEW i \in 0 .. Len(old), NEW j \in 0 .. Len(current)
  PROVE  DistanceStep(EditDistances(current, old), i, j, current, old)
<1> DEFINE C == Grid(old, current)
<1> PICK d : d = EditDistances(current, old)
  OBVIOUS
<1>1. d \in [C -> Nat] /\ \A at \in C : d[at] = DistanceAt(d, at, current, old)
  BY DistancesAre
<1>2. /\ <<i, j>> \in C
      /\ i > 0 => <<i - 1, j>> \in C
      /\ j > 0 => <<i, j - 1>> \in C
      /\ (i > 0 /\ j > 0) => <<i - 1, j - 1>> \in C
  BY GridCells
<1>3. d[<<i, j>>] = DistanceAt(d, <<i, j>>, current, old)
  BY <1>1, <1>2
<1> HIDE DEF C
<1>4. /\ d[<<i, j>>] \in Nat
      /\ i > 0 => d[<<i - 1, j>>] \in Nat
      /\ j > 0 => d[<<i, j - 1>>] \in Nat
      /\ (i > 0 /\ j > 0) => d[<<i - 1, j - 1>>] \in Nat
  BY <1>1, <1>2
<1>5. (i = 0 \/ j = 0) => d[<<i, j>>] = i + j
  BY <1>3 DEF DistanceAt
<1>6. ASSUME i > 0, j > 0
      PROVE  /\ current[j] = old[i] => d[<<i, j>>] = d[<<i - 1, j - 1>>]
             /\ current[j] # old[i] =>
                        d[<<i, j>>] = (IF d[<<i - 1, j>>] <= d[<<i, j - 1>>]
                                       THEN d[<<i - 1, j>>] ELSE d[<<i, j - 1>>]) + 1
  <2>1. d[<<i, j>>] = IF current[j] = old[i] THEN d[<<i - 1, j - 1>>]
                      ELSE Min({d[<<i - 1, j>>], d[<<i, j - 1>>]}) + 1
    BY <1>3, <1>6 DEF DistanceAt
  <2>2. Min({d[<<i - 1, j>>], d[<<i, j - 1>>]}) =
           IF d[<<i - 1, j>>] <= d[<<i, j - 1>>] THEN d[<<i - 1, j>>] ELSE d[<<i, j - 1>>]
    <3>1. PICK w, n : w = d[<<i - 1, j>>] /\ n = d[<<i, j - 1>>]
      OBVIOUS
    <3>2. w \in Int /\ n \in Int
      BY <1>4, <1>6, <3>1
    <3>3. QED
      BY <3>1, <3>2, MinOfTwo
  <2>3. QED
    BY <2>1, <2>2
<1>7. QED
  BY <1>4, <1>5, <1>6 DEF DistanceStep

(* The numbers of edits in neighbouring cells differ by one.                *)
Differ(x, y) == x = y + 1 \/ y = x + 1

(* One element more changes the number of edits by one, so a step that      *)
(* replaces an element is never longer than two that remove and add one.    *)
LEMMA NeighboursDiffer ==
  ASSUME NEW E, NEW current \in Seq(E), NEW old \in Seq(E)
  PROVE  LET d == EditDistances(current, old)
         IN  \A i \in 0 .. Len(old), j \in 0 .. Len(current) :
                /\ i > 0 => Differ(d[<<i, j>>], d[<<i - 1, j>>])
                /\ j > 0 => Differ(d[<<i, j>>], d[<<i, j - 1>>])
<1> PICK d : d = EditDistances(current, old)
  OBVIOUS
<1> DEFINE C == Grid(old, current)
           size == CellSize(old, current)
           Good(i, j) == /\ i > 0 => Differ(d[<<i, j>>], d[<<i - 1, j>>])
                         /\ j > 0 => Differ(d[<<i, j>>], d[<<i, j - 1>>])
           P == {c \in C : Good(c[1], c[2])}
<1>1. \A i \in 0 .. Len(old), j \in 0 .. Len(current) : DistanceStep(d, i, j, current, old)
  BY DistanceSteps
<1>2. ASSUME NEW c \in C, \A b \in C : size[b] < size[c] => b \in P
      PROVE  c \in P
  <2>1. PICK i \in 0 .. Len(old), j \in 0 .. Len(current) : c = <<i, j>>
    BY DEF Grid
  <2>2. Len(old) \in Nat /\ Len(current) \in Nat
    BY GridCells
  <2>3. CASE i = 0 \/ j = 0
    <3>1. d[<<i, j>>] = i + j
      BY <1>1, <2>3 DEF DistanceStep
    <3>2. i > 0 => d[<<i - 1, j>>] = i - 1 + j
      <4>1. i > 0 => i - 1 \in 0 .. Len(old)
        BY <2>2
      <4>2. i > 0 => DistanceStep(d, i - 1, j, current, old)
        BY <1>1, <4>1
      <4>3. QED
        BY <2>3, <4>2 DEF DistanceStep
    <3>3. j > 0 => d[<<i, j - 1>>] = i + (j - 1)
      <4>1. j > 0 => j - 1 \in 0 .. Len(current)
        BY <2>2
      <4>2. j > 0 => DistanceStep(d, i, j - 1, current, old)
        BY <1>1, <4>1
      <4>3. QED
        BY <2>3, <4>2 DEF DistanceStep
    <3>4. Good(i, j)
      <4>1. i \in Nat /\ j \in Nat
        BY <2>2
      <4>2. /\ i > 0 => d[<<i, j>>] = d[<<i - 1, j>>] + 1
            /\ j > 0 => d[<<i, j>>] = d[<<i, j - 1>>] + 1
        BY <3>1, <3>2, <3>3, <4>1
      <4>3. QED
        BY <4>2 DEF Differ
    <3>5. QED
      BY <2>1, <3>4
  <2>4. CASE i > 0 /\ j > 0
    <3>1. PICK w, n, x : w = <<i - 1, j>> /\ n = <<i, j - 1>> /\ x = <<i - 1, j - 1>>
      OBVIOUS
    <3>2. /\ w \in C /\ size[w] < size[c] /\ n \in C /\ size[n] < size[c]
      BY <2>1, <2>4, <3>1, GridCells
    <3>3. Good(i - 1, j) /\ Good(i, j - 1)
      <4>1. w \in P /\ n \in P
        BY <1>2, <3>2
      <4>2. w[1] = i - 1 /\ w[2] = j /\ n[1] = i /\ n[2] = j - 1
        BY <3>1
      <4>3. QED
        BY <4>1, <4>2
    <3>4. Differ(d[w], d[x]) /\ Differ(d[n], d[x])
      BY <2>4, <3>1, <3>3
    <3>5. /\ d[c] \in Nat /\ d[w] \in Nat /\ d[n] \in Nat /\ d[x] \in Nat
          /\ d[c] = d[x] \/ d[c] = (IF d[w] <= d[n] THEN d[w] ELSE d[n]) + 1
      
      <4>1. DistanceStep(d, i, j, current, old)
        BY <1>1
      <4>2. QED
        BY <2>1, <2>4, <3>1, <4>1 DEF DistanceStep
    <3>6. Differ(d[c], d[w]) /\ Differ(d[c], d[n])
      BY <3>4, <3>5 DEF Differ
    <3>7. Good(i, j)
      BY <2>1, <3>1, <3>6
    <3>8. QED
      BY <2>1, <3>7
  <2>5. QED
    BY <2>3, <2>4
<1>3. size \in [C -> Nat]
  BY GridCells
<1>4. C \subseteq P
  <2> HIDE DEF C, size, P
  <2>1. QED
    BY <1>2, <1>3, SizeInduction
<1>5. \A i \in 0 .. Len(old), j \in 0 .. Len(current) : <<i, j>> \in C
  BY GridCells
<1>6. \A i \in 0 .. Len(old), j \in 0 .. Len(current) : Good(i, j)
  BY <1>4, <1>5
<1>7. QED
  BY <1>6

(* A part of this length is in the first i elements of one and the first j  *)
(* of the other array.                                                      *)
Places(f, g, i, j, k, current, old) ==
    f \in Increasing(k, i) /\ g \in Increasing(k, j) /\ \A n \in 1 .. k : old[f[n]] = current[g[n]]

CommonTo(i, j, k, current, old) == \E f, g : Places(f, g, i, j, k, current, old)

(* Two arrays have a part of no elements in common.                         *)
LEMMA NothingIsCommon ==
  ASSUME NEW current, NEW old, NEW i \in Nat, NEW j \in Nat
  PROVE  CommonTo(i, j, 0, current, old)
<1> PICK f : f = [n \in 1 .. 0 |-> n]
  OBVIOUS
<1>1. 1 .. 0 = {}
  OBVIOUS
<1>2. f \in Increasing(0, i) /\ f \in Increasing(0, j)
  BY <1>1 DEF Increasing
<1>3. Places(f, f, i, j, 0, current, old)
  BY <1>1, <1>2 DEF Places
<1>4. QED
  BY <1>3 DEF CommonTo

(* Places in an array are places in a longer one.                           *)
LEMMA IncreasingIn ==
  ASSUME NEW n \in Nat, NEW m \in Nat, n <= m, NEW k \in Nat
  PROVE  Increasing(k, n) \subseteq Increasing(k, m)
<1>1. 1 .. n \subseteq 1 .. m
  OBVIOUS
<1>2. ASSUME NEW f \in [1 .. k -> 1 .. n] PROVE f \in [1 .. k -> 1 .. m]
  BY <1>1
<1>3. QED
  BY <1>2 DEF Increasing

(* Where the next elements are the same, there is one more in common.       *)
LEMMA MoreIsCommon ==
  ASSUME NEW current, NEW old, NEW i \in Nat, NEW j \in Nat, NEW k \in Nat,
         i > 0, j > 0, old[i] = current[j], CommonTo(i - 1, j - 1, k, current, old)
  PROVE  CommonTo(i, j, k + 1, current, old)
<1>1. PICK f, g : Places(f, g, i - 1, j - 1, k, current, old)
  BY DEF CommonTo
<1>2. PICK ff, gg : /\ ff = [n \in 1 .. k + 1 |-> IF n = k + 1 THEN i ELSE f[n]]
                    /\ gg = [n \in 1 .. k + 1 |-> IF n = k + 1 THEN j ELSE g[n]]
  OBVIOUS
<1>3. ASSUME NEW l \in Nat, l > 0, NEW h \in Increasing(k, l - 1),
             NEW hh, hh = [n \in 1 .. k + 1 |-> IF n = k + 1 THEN l ELSE h[n]]
      PROVE  hh \in Increasing(k + 1, l)
  <2>1. \A n \in 1 .. k : h[n] \in 1 .. l - 1
    BY <1>3 DEF Increasing
  <2>2. \A n \in 1 .. k + 1 : n # k + 1 => n \in 1 .. k
    OBVIOUS
  <2>3. \A n \in 1 .. k + 1 : hh[n] \in 1 .. l
    BY <1>3, <2>1, <2>2
  <2>4. hh \in [1 .. k + 1 -> 1 .. l]
    BY <1>3, <2>3
  <2>5. \A n, m \in 1 .. k : n < m => h[n] < h[m]
    BY <1>3 DEF Increasing
  <2>6. ASSUME NEW n \in 1 .. k + 1, NEW m \in 1 .. k + 1, n < m PROVE hh[n] < hh[m]
    <3>1. n \in 1 .. k /\ hh[n] = h[n]
      BY <1>3, <2>6
    <3>2. CASE m = k + 1
      BY <1>3, <2>1, <3>1, <3>2
    <3>3. CASE m # k + 1
      BY <1>3, <2>2, <2>5, <2>6, <3>1, <3>3
    <3>4. QED
      BY <3>2, <3>3
  <2>7. QED
    BY <2>4, <2>6 DEF Increasing
<1>4. ff \in Increasing(k + 1, i) /\ gg \in Increasing(k + 1, j)
  <2>1. f \in Increasing(k, i - 1) /\ g \in Increasing(k, j - 1)
    BY <1>1 DEF Places
  <2>2. QED
    BY <1>2, <1>3, <2>1
<1>5. ASSUME NEW n \in 1 .. k + 1 PROVE old[ff[n]] = current[gg[n]]
  <2>1. n # k + 1 => n \in 1 .. k
    OBVIOUS
  <2>2. n # k + 1 => old[f[n]] = current[g[n]]
    BY <1>1, <2>1 DEF Places
  <2>3. QED
    BY <1>2, <2>2
<1>6. Places(ff, gg, i, j, k + 1, current, old)
  BY <1>4, <1>5 DEF Places
<1>7. QED
  BY <1>6 DEF CommonTo

(* A common part is one of shorter arrays, or ends with the same element.   *)
LEMMA LessIsCommon ==
  ASSUME NEW current, NEW old, NEW i \in Nat, NEW j \in Nat, NEW k \in Nat,
         k > 0, CommonTo(i, j, k, current, old)
  PROVE  /\ i > 0 /\ j > 0
         /\ \/ CommonTo(i - 1, j, k, current, old)
            \/ CommonTo(i, j - 1, k, current, old)
            \/ old[i] = current[j] /\ CommonTo(i - 1, j - 1, k - 1, current, old)
<1>1. PICK f, g : Places(f, g, i, j, k, current, old)
  BY DEF CommonTo
<1>2. f \in Increasing(k, i) /\ g \in Increasing(k, j)
  BY <1>1 DEF Places
<1>3. k \in 1 .. k
  OBVIOUS
<1>4. f[k] \in 1 .. i /\ g[k] \in 1 .. j
  BY <1>2, <1>3 DEF Increasing
<1>5. ASSUME NEW l \in Nat, NEW h \in Increasing(k, l), h[k] # l
      PROVE  h \in Increasing(k, l - 1)
  <2>1. h \in [1 .. k -> 1 .. l] /\ \A n, m \in 1 .. k : n < m => h[n] < h[m]
    BY DEF Increasing
  <2>2. ASSUME NEW n \in 1 .. k PROVE h[n] \in 1 .. l - 1
    <3>1. h[n] \in 1 .. l /\ h[k] \in 1 .. l
      BY <1>3, <2>1
    <3>2. n < k => h[n] < h[k]
      BY <1>3, <2>1
    <3>3. n = k \/ n < k
      OBVIOUS
    <3>4. QED
      BY <1>5, <3>1, <3>2, <3>3
  <2>3. h \in [1 .. k -> 1 .. l - 1]
    BY <2>1, <2>2
  <2>4. QED
    BY <2>1, <2>3 DEF Increasing
<1>6. ASSUME NEW l \in Nat, NEW h \in Increasing(k, l), h[k] = l,
             NEW hh, hh = [n \in 1 .. k - 1 |-> h[n]]
      PROVE  hh \in Increasing(k - 1, l - 1)
  <2>1. h \in [1 .. k -> 1 .. l] /\ \A n, m \in 1 .. k : n < m => h[n] < h[m]
    BY DEF Increasing
  <2>2. ASSUME NEW n \in 1 .. k - 1 PROVE hh[n] \in 1 .. l - 1
    <3>1. n \in 1 .. k /\ n < k
      OBVIOUS
    <3>2. h[n] \in 1 .. l /\ h[n] < h[k]
      BY <1>3, <2>1, <3>1
    <3>3. QED
      BY <1>6, <3>2
  <2>3. hh \in [1 .. k - 1 -> 1 .. l - 1]
    BY <1>6, <2>2
  <2>4. 1 .. k - 1 \subseteq 1 .. k
    OBVIOUS
  <2>5. QED
    BY <1>6, <2>1, <2>3, <2>4 DEF Increasing
<1>7. CASE f[k] # i
  <2>1. f \in Increasing(k, i - 1)
    BY <1>2, <1>5, <1>7
  <2>2. Places(f, g, i - 1, j, k, current, old)
    BY <1>1, <2>1 DEF Places
  <2>3. QED
    BY <1>4, <2>2 DEF CommonTo
<1>8. CASE g[k] # j
  <2>1. g \in Increasing(k, j - 1)
    BY <1>2, <1>5, <1>8
  <2>2. Places(f, g, i, j - 1, k, current, old)
    BY <1>1, <2>1 DEF Places
  <2>3. QED
    BY <1>4, <2>2 DEF CommonTo
<1>9. CASE f[k] = i /\ g[k] = j
  <2>1. PICK ff, gg : ff = [n \in 1 .. k - 1 |-> f[n]] /\ gg = [n \in 1 .. k - 1 |-> g[n]]
    OBVIOUS
  <2>2. ff \in Increasing(k - 1, i - 1) /\ gg \in Increasing(k - 1, j - 1)
    BY <1>2, <1>6, <1>9, <2>1
  <2>3. \A n \in 1 .. k : old[f[n]] = current[g[n]]
    BY <1>1 DEF Places
  <2>4. \A n \in 1 .. k - 1 : n \in 1 .. k
    OBVIOUS
  <2>5. Places(ff, gg, i - 1, j - 1, k - 1, current, old)
    BY <2>1, <2>2, <2>3, <2>4 DEF Places
  <2>6. old[i] = current[j]
    BY <1>3, <1>9, <2>3
  <2>7. QED
    BY <1>4, <2>5, <2>6 DEF CommonTo
<1>10. QED
  BY <1>7, <1>8, <1>9

(* The number of edits is what the longest common part leaves.              *)
IsShortest(d, i, j, current, old) ==
    /\ \E k \in Nat : CommonTo(i, j, k, current, old) /\ d[<<i, j>>] = i + j - 2 * k
    /\ \A k \in Nat : CommonTo(i, j, k, current, old) => d[<<i, j>>] <= i + j - 2 * k

(* What is in common stays so in longer arrays.                             *)
LEMMA IncreasingCommon ==
  ASSUME NEW current, NEW old, NEW i \in Nat, NEW j \in Nat, NEW k \in Nat,
         NEW ii \in Nat, NEW jj \in Nat, i <= ii, j <= jj, CommonTo(i, j, k, current, old)
  PROVE  CommonTo(ii, jj, k, current, old)
<1>1. PICK f, g : Places(f, g, i, j, k, current, old)
  BY DEF CommonTo
<1>2. Places(f, g, ii, jj, k, current, old)
  BY <1>1, IncreasingIn DEF Places
<1>3. QED
  BY <1>2 DEF CommonTo

(* cloud-dashboard.js:13814-13824: every cell holds the least number of     *)
(* edits, since nothing that longer parts have in common is overlooked.     *)
LEMMA DistanceIsShortest ==
  ASSUME NEW E, NEW current \in Seq(E), NEW old \in Seq(E)
  PROVE  \A i \in 0 .. Len(old), j \in 0 .. Len(current) :
            IsShortest(EditDistances(current, old), i, j, current, old)
<1> PICK d : d = EditDistances(current, old)
  OBVIOUS
<1> DEFINE C == Grid(old, current)
           size == CellSize(old, current)
           Good(i, j) == IsShortest(d, i, j, current, old)
           P == {c \in C : Good(c[1], c[2])}
           Common2(i, j, k) == CommonTo(i, j, k, current, old)
<1>1. Len(old) \in Nat /\ Len(current) \in Nat
  BY GridCells
<1>2. \A i \in 0 .. Len(old), j \in 0 .. Len(current) : DistanceStep(d, i, j, current, old)
  BY DistanceSteps
<1>3. \A i \in 0 .. Len(old), j \in 0 .. Len(current) :
         /\ i > 0 => Differ(d[<<i, j>>], d[<<i - 1, j>>])
         /\ j > 0 => Differ(d[<<i, j>>], d[<<i, j - 1>>])
  BY NeighboursDiffer
<1>4. ASSUME NEW c \in C, \A b \in C : size[b] < size[c] => b \in P
      PROVE  c \in P
  <2>1. PICK i \in 0 .. Len(old), j \in 0 .. Len(current) : c = <<i, j>>
    BY DEF Grid
  <2>2. i \in Nat /\ j \in Nat
    BY <1>1
  <2>3. DistanceStep(d, i, j, current, old)
    BY <1>2
  <2>4. PICK e : e = d[<<i, j>>]
    OBVIOUS
  <2>5. e \in Nat
    BY <2>3, <2>4 DEF DistanceStep
  <2>6. ASSUME NEW b \in C, size[b] < size[c], NEW k \in Nat, NEW l \in Nat, b = <<k, l>>
        PROVE  Good(k, l)
    <3>1. b \in P
      BY <1>4, <2>6
    <3>2. b[1] = k /\ b[2] = l
      BY <2>6
    <3>3. QED
      BY <3>1, <3>2
  <2>7. /\ i > 0 => Good(i - 1, j)
        /\ j > 0 => Good(i, j - 1)
        /\ (i > 0 /\ j > 0) => Good(i - 1, j - 1)
    <3>1. /\ i > 0 => <<i - 1, j>> \in C /\ size[<<i - 1, j>>] < size[c] /\ i - 1 \in Nat
          /\ j > 0 => <<i, j - 1>> \in C /\ size[<<i, j - 1>>] < size[c] /\ j - 1 \in Nat
          /\ (i > 0 /\ j > 0) => <<i - 1, j - 1>> \in C /\ size[<<i - 1, j - 1>>] < size[c]
      <4>1. /\ i > 0 => <<i - 1, j>> \in C /\ size[<<i - 1, j>>] < size[<<i, j>>]
            /\ j > 0 => <<i, j - 1>> \in C /\ size[<<i, j - 1>>] < size[<<i, j>>]
            /\ (i > 0 /\ j > 0) => <<i - 1, j - 1>> \in C /\ size[<<i - 1, j - 1>>] < size[<<i, j>>]
        BY GridCells
      <4> HIDE DEF C, size
      <4>2. (i > 0 => i - 1 \in Nat) /\ (j > 0 => j - 1 \in Nat)
        BY <2>2
      <4>3. QED
        BY <2>1, <4>1, <4>2
    <3> HIDE DEF C, size, Good
    <3>2. QED
      BY <2>2, <2>6, <3>1
  <2>8. CASE i = 0 \/ j = 0
    <3>1. e = i + j
      BY <2>3, <2>4, <2>8 DEF DistanceStep
    <3>2. Common2(i, j, 0)
      BY <2>2, NothingIsCommon
    <3>3. ASSUME NEW k \in Nat, Common2(i, j, k) PROVE e <= i + j - 2 * k
      <4>1. k = 0
        <5>1. k > 0 => i > 0 /\ j > 0
          BY <2>2, <3>3, LessIsCommon
        <5>2. QED
          BY <2>2, <2>8, <5>1
      <4>2. QED
        BY <2>2, <3>1, <4>1
    <3>4. 0 \in Nat /\ e = i + j - 2 * 0
      BY <2>2, <3>1
    <3>5. Good(i, j)
      BY <2>4, <3>2, <3>3, <3>4 DEF IsShortest
    <3>6. QED
      BY <2>1, <3>5
  <2>9. CASE i > 0 /\ j > 0
    <3>1. PICK w, n, x : w = d[<<i - 1, j>>] /\ n = d[<<i, j - 1>>] /\ x = d[<<i - 1, j - 1>>]
      OBVIOUS
    <3>2. /\ w \in Nat /\ n \in Nat /\ x \in Nat
          /\ current[j] = old[i] => e = x
          /\ current[j] # old[i] => e = (IF w <= n THEN w ELSE n) + 1
      BY <2>3, <2>4, <2>9, <3>1 DEF DistanceStep
    <3>3. e <= w + 1 /\ e <= n + 1
      <4>1. Differ(e, w) /\ Differ(e, n)
        BY <1>3, <2>4, <2>9, <3>1
      <4>2. QED
        BY <2>5, <3>2, <4>1 DEF Differ
    <3>4. i - 1 \in Nat /\ j - 1 \in Nat
      BY <2>2, <2>9
    <3>5. \E k \in Nat : Common2(i, j, k) /\ e = i + j - 2 * k
      <4>1. CASE current[j] = old[i]
        <5>1. PICK k \in Nat : Common2(i - 1, j - 1, k) /\ x = (i - 1) + (j - 1) - 2 * k
          BY <2>7, <2>9, <3>1 DEF IsShortest
        <5>2. Common2(i, j, k + 1)
          BY <2>2, <2>9, <4>1, <5>1, MoreIsCommon
        <5>3. k + 1 \in Nat /\ e = i + j - 2 * (k + 1)
          BY <2>2, <3>2, <4>1, <5>1
        <5>4. QED
          BY <5>2, <5>3
      <4>2. CASE current[j] # old[i] /\ w <= n
        <5>1. PICK k \in Nat : Common2(i - 1, j, k) /\ w = (i - 1) + j - 2 * k
          BY <2>7, <2>9, <3>1 DEF IsShortest
        <5>2. Common2(i, j, k)
          <6>1. i - 1 <= i /\ j <= j
            BY <2>2
          <6>2. QED
            BY <2>2, <3>4, <5>1, <6>1, IncreasingCommon
        <5>3. e = i + j - 2 * k
          BY <2>2, <3>2, <4>2, <5>1
        <5>4. QED
          BY <5>2, <5>3
      <4>3. CASE current[j] # old[i] /\ ~(w <= n)
        <5>1. PICK k \in Nat : Common2(i, j - 1, k) /\ n = i + (j - 1) - 2 * k
          BY <2>7, <2>9, <3>1 DEF IsShortest
        <5>2. Common2(i, j, k)
          <6>1. j - 1 <= j /\ i <= i
            BY <2>2
          <6>2. QED
            BY <2>2, <3>4, <5>1, <6>1, IncreasingCommon
        <5>3. e = i + j - 2 * k
          BY <2>2, <3>2, <4>3, <5>1
        <5>4. QED
          BY <5>2, <5>3
      <4>4. QED
        BY <4>1, <4>2, <4>3
    <3>6. ASSUME NEW k \in Nat, Common2(i, j, k) PROVE e <= i + j - 2 * k
      <4>1. CASE Common2(i - 1, j, k)
        <5>1. w <= (i - 1) + j - 2 * k
          BY <2>7, <2>9, <3>1, <4>1 DEF IsShortest
        <5>2. QED
          BY <2>2, <2>5, <3>2, <3>3, <5>1
      <4>2. CASE Common2(i, j - 1, k)
        <5>1. n <= i + (j - 1) - 2 * k
          BY <2>7, <2>9, <3>1, <4>2 DEF IsShortest
        <5>2. QED
          BY <2>2, <2>5, <3>2, <3>3, <5>1
      <4>3. CASE k = 0
        <5>1. Common2(i - 1, j, k)
          BY <2>2, <3>4, <4>3, NothingIsCommon
        <5>2. QED
          BY <4>1, <5>1
      <4>4. CASE k > 0 /\ old[i] = current[j] /\ Common2(i - 1, j - 1, k - 1)
        <5>1. k - 1 \in Nat
          BY <4>4
        <5>2. x <= (i - 1) + (j - 1) - 2 * (k - 1)
          BY <2>7, <2>9, <3>1, <4>4, <5>1 DEF IsShortest
        <5>3. QED
          BY <2>2, <3>2, <4>4, <5>2
      <4>5. k > 0 => \/ Common2(i - 1, j, k) \/ Common2(i, j - 1, k)
                     \/ old[i] = current[j] /\ Common2(i - 1, j - 1, k - 1)
        BY <2>2, <3>6, LessIsCommon
      <4>6. k = 0 \/ k > 0
        OBVIOUS
      <4>7. QED
        BY <4>1, <4>2, <4>3, <4>4, <4>5, <4>6
    <3>7. Good(i, j)
      BY <2>4, <3>5, <3>6 DEF IsShortest
    <3>8. QED
      BY <2>1, <3>7
  <2>10. QED
    BY <2>2, <2>8, <2>9
<1>5. size \in [C -> Nat]
  BY GridCells
<1>6. C \subseteq P
  <2> HIDE DEF C, size, P
  <2>1. QED
    BY <1>4, <1>5, SizeInduction
<1>7. \A i \in 0 .. Len(old), j \in 0 .. Len(current) : <<i, j>> \in C
  BY GridCells
<1>8. \A i \in 0 .. Len(old), j \in 0 .. Len(current) : Good(i, j)
  BY <1>6, <1>7
<1>9. QED
  BY <1>8

-----------------------------------------------------------------------------
(* Induction up to a number.                                                *)
LEMMA BoundedInduction ==
  ASSUME NEW N \in Nat, NEW S, 0 \in S, \A n \in 0 .. N - 1 : n \in S => n + 1 \in S
  PROVE  0 .. N \subseteq S
<1> DEFINE T == {n \in Nat : n <= N => n \in S}
<1>1. 0 \in T
  OBVIOUS
<1>2. ASSUME NEW n \in Nat, n \in T PROVE n + 1 \in T
  <2>1. n + 1 <= N => n \in 0 .. N - 1 /\ n <= N
    OBVIOUS
  <2>2. QED
    BY <1>2, <2>1
<1>3. Nat \subseteq T
  <2> HIDE DEF T
  <2>1. QED
    BY <1>1, <1>2, SetInduction
<1>4. QED
  BY <1>3

(* Two tables that go on in the same way are the same.                      *)
GoOnAlike(a, b, N) ==
    /\ a[0] = b[0]
    /\ \A n \in 1 .. N : a[n - 1] = b[n - 1] => a[n] = b[n]

(* By induction over the rows.                                              *)
LEMMA TablesAgree ==
  ASSUME NEW N \in Nat, NEW a, NEW b, GoOnAlike(a, b, N)
  PROVE  \A n \in 0 .. N : a[n] = b[n]
<1> USE DEF GoOnAlike
<1> DEFINE S == {n \in 0 .. N : a[n] = b[n]}
<1>1. 0 \in S
  OBVIOUS
<1>2. ASSUME NEW n \in 0 .. N - 1, n \in S PROVE n + 1 \in S
  <2>1. n + 1 \in 1 .. N /\ (n + 1) - 1 = n /\ n + 1 \in 0 .. N
    OBVIOUS
  <2>2. a[n] = b[n]
    BY <1>2
  <2>3. QED
    BY <2>1, <2>2
<1>3. 0 .. N \subseteq S
  <2> HIDE DEF S
  <2>1. QED
    BY <1>1, <1>2, BoundedInduction
<1>4. QED
  BY <1>3

(* What the scan is after each operation; such a table exists.              *)
ScanTable(after, N, ops, old, start) ==
    [n \in 0 .. N |-> IF n = 0 THEN Scanned(start) ELSE Operated(after[n - 1], ops[n], old)]

LEMMA ScanTableExists ==
  ASSUME NEW N \in Nat, NEW ops, NEW old, NEW start
  PROVE  \E f : f = ScanTable(f, N, ops, old, start)
<1> DEFINE S == {n \in Nat : \E f : f = ScanTable(f, n, ops, old, start)}
<1>1. 0 \in S
  <2>1. PICK f : f = [n \in 0 .. 0 |-> Scanned(start)]
    OBVIOUS
  <2>2. \A n \in 0 .. 0 : n = 0
    OBVIOUS
  <2>3. f = ScanTable(f, 0, ops, old, start)
    BY <2>1, <2>2 DEF ScanTable
  <2>4. QED
    BY <2>3
<1>2. ASSUME NEW n \in Nat, n \in S PROVE n + 1 \in S
  <2>1. PICK f : f = ScanTable(f, n, ops, old, start)
    BY <1>2
  <2>2. PICK g : g = [k \in 0 .. n + 1 |-> IF k <= n THEN f[k] ELSE Operated(f[n], ops[n + 1], old)]
    OBVIOUS
  <2>3. ASSUME NEW k \in 0 .. n + 1
        PROVE  g[k] = IF k = 0 THEN Scanned(start) ELSE Operated(g[k - 1], ops[k], old)
    <3>1. CASE k <= n
      <4>1. g[k] = f[k] /\ k \in 0 .. n
        BY <2>2, <3>1
      <4>2. k # 0 => k - 1 \in 0 .. n + 1 /\ k - 1 <= n
        OBVIOUS
      <4>3. k # 0 => g[k - 1] = f[k - 1]
        BY <2>2, <4>2
      <4>4. f[k] = IF k = 0 THEN Scanned(start) ELSE Operated(f[k - 1], ops[k], old)
        BY <2>1, <4>1 DEF ScanTable
      <4>5. QED
        BY <4>1, <4>3, <4>4
    <3>2. CASE k = n + 1
      <4>1. g[k] = Operated(f[n], ops[n + 1], old) /\ g[n] = f[n]
        BY <2>2, <3>2
      <4>2. k # 0 /\ k - 1 = n
        BY <3>2
      <4>3. QED
        BY <3>2, <4>1, <4>2
    <3>3. QED
      BY <3>1, <3>2
  <2>4. g = ScanTable(g, n + 1, ops, old, start)
    BY <2>2, <2>3 DEF ScanTable
  <2>5. QED
    BY <2>4
<1>3. Nat \subseteq S
  <2> HIDE DEF S
  <2>1. QED
    BY <1>1, <1>2, SetInduction
<1>4. QED
  BY <1>3

(* The scan is its last row.                                                *)
LEMMA ScanIs ==
  ASSUME NEW ops, NEW old, NEW start, Len(ops) \in Nat
  PROVE  \E f : /\ f = ScanTable(f, Len(ops), ops, old, start)
                /\ Scan(ops, old, start) = f[Len(ops)]
<1> DEFINE Body(f) == ScanTable(f, Len(ops), ops, old, start)
           after == CHOOSE f : f = Body(f)
<1>1. Scan(ops, old, start) = after[Len(ops)]
  BY DEF Scan, ScanTable
<1>2. \E f : f = Body(f)
  BY ScanTableExists
<1>3. after = Body(after)
  <2> HIDE DEF Body
  <2>1. QED
    BY <1>2
<1>4. QED
  BY <1>1, <1>3

(* The scan goes on with the next operation where it is.                    *)
LEMMA ScanAppend ==
  ASSUME NEW E, NEW ops \in Seq(E), NEW o \in E, NEW old, NEW start
  PROVE  /\ Scan(<<>>, old, start) = Scanned(start)
         /\ Scan(Append(ops, o), old, start) = Operated(Scan(ops, old, start), o, old)
<1>1. Len(<<>>) = 0
  OBVIOUS
<1>2. PICK e : e = ScanTable(e, 0, <<>>, old, start) /\ Scan(<<>>, old, start) = e[0]
  BY <1>1, ScanIs
<1>3. Scan(<<>>, old, start) = Scanned(start)
  BY <1>2 DEF ScanTable
<1>4. PICK N, more : N = Len(ops) /\ more = Append(ops, o)
  OBVIOUS
<1>5. N \in Nat /\ Len(more) = N + 1 /\ (\A n \in 1 .. N : more[n] = ops[n]) /\ more[N + 1] = o
  BY <1>4
<1>6. PICK f : f = ScanTable(f, N, ops, old, start) /\ Scan(ops, old, start) = f[N]
  BY <1>4, <1>5, ScanIs
<1>7. PICK g : g = ScanTable(g, N + 1, more, old, start) /\ Scan(more, old, start) = g[N + 1]
  BY <1>5, ScanIs
<1>8. f[0] = g[0]
  BY <1>5, <1>6, <1>7 DEF ScanTable
<1>9. ASSUME NEW n \in 1 .. N, f[n - 1] = g[n - 1] PROVE f[n] = g[n]
  <2>1. n \in 0 .. N /\ n \in 0 .. N + 1 /\ n # 0
    BY <1>5
  <2>2. f[n] = Operated(f[n - 1], ops[n], old) /\ g[n] = Operated(g[n - 1], more[n], old)
    BY <1>6, <1>7, <2>1 DEF ScanTable
  <2>3. QED
    BY <1>5, <1>9, <2>2
<1>10. f[N] = g[N]
  <2>1. N \in 0 .. N
    BY <1>5
  <2>2. QED
    <3>1. GoOnAlike(f, g, N)
      BY <1>8, <1>9 DEF GoOnAlike
    <3>2. \A n \in 0 .. N : f[n] = g[n]
      BY <1>5, <3>1, TablesAgree
    <3>3. QED
      BY <2>1, <3>2
<1>11. g[N + 1] = Operated(g[N], more[N + 1], old)
  <2>1. N + 1 \in 0 .. N + 1 /\ N + 1 # 0 /\ (N + 1) - 1 = N
    BY <1>5
  <2>2. QED
    BY <1>7, <2>1 DEF ScanTable
<1>12. QED
  BY <1>3, <1>4, <1>5, <1>6, <1>7, <1>10, <1>11

(* The same of the arrays that the splices lead to one after another.       *)
ArraysTable(after, N, splices, current, old) ==
    [n \in 0 .. N |-> IF n = 0 THEN old ELSE Applied(after[n - 1], splices[n], current)]

LEMMA ArraysTableExists ==
  ASSUME NEW N \in Nat, NEW splices, NEW current, NEW old
  PROVE  \E f : f = ArraysTable(f, N, splices, current, old)
<1> DEFINE S == {n \in Nat : \E f : f = ArraysTable(f, n, splices, current, old)}
<1>1. 0 \in S
  <2>1. PICK f : f = [n \in 0 .. 0 |-> old]
    OBVIOUS
  <2>2. \A n \in 0 .. 0 : n = 0
    OBVIOUS
  <2>3. f = ArraysTable(f, 0, splices, current, old)
    BY <2>1, <2>2 DEF ArraysTable
  <2>4. QED
    BY <2>3
<1>2. ASSUME NEW n \in Nat, n \in S PROVE n + 1 \in S
  <2>1. PICK f : f = ArraysTable(f, n, splices, current, old)
    BY <1>2
  <2>2. PICK g : g = [k \in 0 .. n + 1 |-> IF k <= n THEN f[k] ELSE Applied(f[n], splices[n + 1], current)]
    OBVIOUS
  <2>3. ASSUME NEW k \in 0 .. n + 1
        PROVE  g[k] = IF k = 0 THEN old ELSE Applied(g[k - 1], splices[k], current)
    <3>1. CASE k <= n
      <4>1. g[k] = f[k] /\ k \in 0 .. n
        BY <2>2, <3>1
      <4>2. k # 0 => k - 1 \in 0 .. n + 1 /\ k - 1 <= n
        OBVIOUS
      <4>3. k # 0 => g[k - 1] = f[k - 1]
        BY <2>2, <4>2
      <4>4. f[k] = IF k = 0 THEN old ELSE Applied(f[k - 1], splices[k], current)
        BY <2>1, <4>1 DEF ArraysTable
      <4>5. QED
        BY <4>1, <4>3, <4>4
    <3>2. CASE k = n + 1
      <4>1. g[k] = Applied(f[n], splices[n + 1], current) /\ g[n] = f[n]
        BY <2>2, <3>2
      <4>2. k # 0 /\ k - 1 = n
        BY <3>2
      <4>3. QED
        BY <3>2, <4>1, <4>2
    <3>3. QED
      BY <3>1, <3>2
  <2>4. g = ArraysTable(g, n + 1, splices, current, old)
    BY <2>2, <2>3 DEF ArraysTable
  <2>5. QED
    BY <2>4
<1>3. Nat \subseteq S
  <2> HIDE DEF S
  <2>1. QED
    BY <1>1, <1>2, SetInduction
<1>4. QED
  BY <1>3

(* The arrays are this table.                                               *)
LEMMA ArraysAre ==
  ASSUME NEW splices, NEW current, NEW old, Len(splices) \in Nat
  PROVE  Arrays(splices, current, old) =
            ArraysTable(Arrays(splices, current, old), Len(splices), splices, current, old)
<1> DEFINE Body(f) == ArraysTable(f, Len(splices), splices, current, old)
           after == CHOOSE f : f = Body(f)
<1>1. Arrays(splices, current, old) = after
  BY DEF Arrays, ArraysTable
<1>2. \E f : f = Body(f)
  BY ArraysTableExists
<1>3. after = Body(after)
  <2> HIDE DEF Body
  <2>1. QED
    BY <1>2
<1>4. QED
  BY <1>1, <1>3

(* One splice more is applied to the array there is.                        *)
LEMMA ArraysAppend ==
  ASSUME NEW E, NEW splices \in Seq(E), NEW s \in E, NEW current, NEW old
  PROVE  LET a == Arrays(splices, current, old)
             b == Arrays(Append(splices, s), current, old)
         IN  /\ Arrays(<<>>, current, old)[0] = old
             /\ \A n \in 0 .. Len(splices) : b[n] = a[n]
             /\ b[Len(splices) + 1] = Applied(a[Len(splices)], s, current)
<1>1. Len(<<>>) = 0
  OBVIOUS
<1>2. PICK e : e = ArraysTable(e, 0, <<>>, current, old) /\ Arrays(<<>>, current, old) = e
  BY <1>1, ArraysAre
<1>3. Arrays(<<>>, current, old)[0] = old
  BY <1>2 DEF ArraysTable
<1>4. PICK N, more : N = Len(splices) /\ more = Append(splices, s)
  OBVIOUS
<1>5. N \in Nat /\ Len(more) = N + 1 /\ (\A n \in 1 .. N : more[n] = splices[n]) /\ more[N + 1] = s
  BY <1>4
<1>6. PICK f : f = ArraysTable(f, N, splices, current, old) /\ Arrays(splices, current, old) = f
  BY <1>4, <1>5, ArraysAre
<1>7. PICK g : g = ArraysTable(g, N + 1, more, current, old) /\ Arrays(more, current, old) = g
  BY <1>5, ArraysAre
<1>8. f[0] = g[0]
  BY <1>5, <1>6, <1>7 DEF ArraysTable
<1>9. ASSUME NEW n \in 1 .. N, f[n - 1] = g[n - 1] PROVE f[n] = g[n]
  <2>1. n \in 0 .. N /\ n \in 0 .. N + 1 /\ n # 0
    BY <1>5
  <2>2. f[n] = Applied(f[n - 1], splices[n], current) /\ g[n] = Applied(g[n - 1], more[n], current)
    BY <1>6, <1>7, <2>1 DEF ArraysTable
  <2>3. QED
    BY <1>5, <1>9, <2>2
<1>10. \A n \in 0 .. N : f[n] = g[n]
  <2>1. GoOnAlike(f, g, N)
    BY <1>8, <1>9 DEF GoOnAlike
  <2>2. QED
    BY <1>5, <2>1, TablesAgree
<1>11. g[N + 1] = Applied(g[N], more[N + 1], current)
  <2>1. N + 1 \in 0 .. N + 1 /\ N + 1 # 0 /\ (N + 1) - 1 = N
    BY <1>5
  <2>2. QED
    BY <1>7, <2>1 DEF ArraysTable
<1>12. N \in 0 .. N
  BY <1>5
<1>13. QED
  BY <1>3, <1>4, <1>5, <1>6, <1>7, <1>10, <1>11, <1>12

(* And of the number of edits.                                              *)
Edited(edits, s) == edits + Len(s.removed) + s.addedCount

EditsTable(after, N, splices) ==
    [n \in 0 .. N |-> IF n = 0 THEN 0 ELSE Edited(after[n - 1], splices[n])]

LEMMA EditsTableExists ==
  ASSUME NEW N \in Nat, NEW splices
  PROVE  \E f : f = EditsTable(f, N, splices)
<1> DEFINE S == {n \in Nat : \E f : f = EditsTable(f, n, splices)}
<1>1. 0 \in S
  <2>1. PICK f : f = [n \in 0 .. 0 |-> 0]
    OBVIOUS
  <2>2. \A n \in 0 .. 0 : n = 0
    OBVIOUS
  <2>3. f = EditsTable(f, 0, splices)
    BY <2>1, <2>2 DEF EditsTable
  <2>4. QED
    BY <2>3
<1>2. ASSUME NEW n \in Nat, n \in S PROVE n + 1 \in S
  <2>1. PICK f : f = EditsTable(f, n, splices)
    BY <1>2
  <2>2. PICK g : g = [k \in 0 .. n + 1 |-> IF k <= n THEN f[k] ELSE Edited(f[n], splices[n + 1])]
    OBVIOUS
  <2>3. ASSUME NEW k \in 0 .. n + 1
        PROVE  g[k] = IF k = 0 THEN 0 ELSE Edited(g[k - 1], splices[k])
    <3>1. CASE k <= n
      <4>1. g[k] = f[k] /\ k \in 0 .. n
        BY <2>2, <3>1
      <4>2. k # 0 => k - 1 \in 0 .. n + 1 /\ k - 1 <= n
        OBVIOUS
      <4>3. k # 0 => g[k - 1] = f[k - 1]
        BY <2>2, <4>2
      <4>4. f[k] = IF k = 0 THEN 0 ELSE Edited(f[k - 1], splices[k])
        BY <2>1, <4>1 DEF EditsTable
      <4>5. QED
        BY <4>1, <4>3, <4>4
    <3>2. CASE k = n + 1
      <4>1. g[k] = Edited(f[n], splices[n + 1]) /\ g[n] = f[n]
        BY <2>2, <3>2
      <4>2. k # 0 /\ k - 1 = n
        BY <3>2
      <4>3. QED
        BY <3>2, <4>1, <4>2
    <3>3. QED
      BY <3>1, <3>2
  <2>4. g = EditsTable(g, n + 1, splices)
    BY <2>2, <2>3 DEF EditsTable
  <2>5. QED
    BY <2>4
<1>3. Nat \subseteq S
  <2> HIDE DEF S
  <2>1. QED
    BY <1>1, <1>2, SetInduction
<1>4. QED
  BY <1>3

(* The edits of splices are its last row.                                   *)
LEMMA EditsAre ==
  ASSUME NEW splices, Len(splices) \in Nat
  PROVE  \E f : f = EditsTable(f, Len(splices), splices) /\ Edits(splices) = f[Len(splices)]
<1> DEFINE Body(f) == EditsTable(f, Len(splices), splices)
           after == CHOOSE f : f = Body(f)
<1>1. Edits(splices) = after[Len(splices)]
  BY DEF Edits, EditsTable, Edited
<1>2. \E f : f = Body(f)
  BY EditsTableExists
<1>3. after = Body(after)
  <2> HIDE DEF Body
  <2>1. QED
    BY <1>2
<1>4. QED
  BY <1>1, <1>3

(* One splice more removes and adds what it says.                           *)
LEMMA EditsAppend ==
  ASSUME NEW E, NEW splices \in Seq(E), NEW s \in E
  PROVE  /\ Edits(<<>>) = 0
         /\ Edits(Append(splices, s)) = Edits(splices) + Len(s.removed) + s.addedCount
<1>1. Len(<<>>) = 0
  OBVIOUS
<1>2. PICK e : e = EditsTable(e, 0, <<>>) /\ Edits(<<>>) = e[0]
  BY <1>1, EditsAre
<1>3. Edits(<<>>) = 0
  BY <1>2 DEF EditsTable
<1>4. PICK N, more : N = Len(splices) /\ more = Append(splices, s)
  OBVIOUS
<1>5. N \in Nat /\ Len(more) = N + 1 /\ (\A n \in 1 .. N : more[n] = splices[n]) /\ more[N + 1] = s
  BY <1>4
<1>6. PICK f : f = EditsTable(f, N, splices) /\ Edits(splices) = f[N]
  BY <1>4, <1>5, EditsAre
<1>7. PICK g : g = EditsTable(g, N + 1, more) /\ Edits(more) = g[N + 1]
  BY <1>5, EditsAre
<1>8. f[0] = g[0]
  BY <1>5, <1>6, <1>7 DEF EditsTable
<1>9. ASSUME NEW n \in 1 .. N, f[n - 1] = g[n - 1] PROVE f[n] = g[n]
  <2>1. n \in 0 .. N /\ n \in 0 .. N + 1 /\ n # 0
    BY <1>5
  <2>2. f[n] = Edited(f[n - 1], splices[n]) /\ g[n] = Edited(g[n - 1], more[n])
    BY <1>6, <1>7, <2>1 DEF EditsTable
  <2>3. QED
    BY <1>5, <1>9, <2>2
<1>10. \A n \in 0 .. N : f[n] = g[n]
  <2>1. GoOnAlike(f, g, N)
    BY <1>8, <1>9 DEF GoOnAlike
  <2>2. QED
    BY <1>5, <2>1, TablesAgree
<1>11. g[N + 1] = Edited(g[N], more[N + 1])
  <2>1. N + 1 \in 0 .. N + 1 /\ N + 1 # 0 /\ (N + 1) - 1 = N
    BY <1>5
  <2>2. QED
    BY <1>7, <2>1 DEF EditsTable
<1>12. N \in 0 .. N
  BY <1>5
<1>13. Edits(more) = Edited(Edits(splices), s)
  BY <1>5, <1>6, <1>7, <1>10, <1>11, <1>12
<1>14. QED
  BY <1>3, <1>4, <1>13 DEF Edited

-----------------------------------------------------------------------------
(* The start of the current array and the rest of the old one.              *)
Mixed(current, B, old, b) == SubSeq(current, 1, B) \o SubSeq(old, b + 1, Len(old))

(* The elements of an array after m, to n.                                  *)
IsPart(p, s, m, n, E) ==
    p \in Seq(E) /\ Len(p) = n - m /\ \A i \in 1 .. n - m : p[i] = s[m + i]

(* A subsequence is such a part.                                            *)
LEMMA PartIs ==
  ASSUME NEW E, NEW s \in Seq(E), NEW m \in Nat, NEW n \in Nat, m <= n, n <= Len(s)
  PROVE  IsPart(SubSeq(s, m + 1, n), s, m, n, E)
<1> USE DEF IsPart
<1>1. \A i \in m + 1 .. n : s[i] \in E
  OBVIOUS
<1>2. /\ SubSeq(s, m + 1, n) \in Seq(E)
      /\ Len(SubSeq(s, m + 1, n)) = IF m + 1 <= n THEN n - (m + 1) + 1 ELSE 0
      /\ \A i \in 1 .. n - (m + 1) + 1 : SubSeq(s, m + 1, n)[i] = s[m + 1 + i - 1]
  BY <1>1, SubSeqProperties
<1>3. n - (m + 1) + 1 = n - m /\ \A i \in 1 .. n - m : m + 1 + i - 1 = m + i
  OBVIOUS
<1>4. QED
  BY <1>2, <1>3

(* The same of the mixed array, by its elements.                            *)
IsMixed(M, current, B, old, b, E) ==
    /\ M \in Seq(E) /\ Len(M) = B + Len(old) - b
    /\ \A k \in 1 .. B + Len(old) - b : M[k] = IF k <= B THEN current[k] ELSE old[b + k - B]

(* The mixed array has these elements.                                      *)
LEMMA MixedIs ==
  ASSUME NEW E, NEW current \in Seq(E), NEW old \in Seq(E), NEW B \in Nat, NEW b \in Nat,
         B <= Len(current), b <= Len(old)
  PROVE  IsMixed(Mixed(current, B, old, b), current, B, old, b, E)
<1>1. Len(old) \in Nat /\ Len(current) \in Nat
  BY LenProperties
<1>2. PICK x, y : x = SubSeq(current, 1, B) /\ y = SubSeq(old, b + 1, Len(old))
  OBVIOUS
<1>3. 0 + 1 = 1 /\ B - 0 = B /\ \A i \in 1 .. B : 0 + i = i
  OBVIOUS
<1>4. x \in Seq(E) /\ Len(x) = B /\ \A i \in 1 .. B : x[i] = current[i]
  <2>1. 0 \in Nat /\ 0 <= B
    OBVIOUS
  <2>2. /\ SubSeq(current, 0 + 1, B) \in Seq(E) /\ Len(SubSeq(current, 0 + 1, B)) = B - 0
        /\ \A i \in 1 .. B - 0 : SubSeq(current, 0 + 1, B)[i] = current[0 + i]
    BY <2>1, PartIs DEF IsPart
  <2>3. QED
    BY <1>2, <1>3, <2>2
<1>5. y \in Seq(E) /\ Len(y) = Len(old) - b /\ \A i \in 1 .. Len(old) - b : y[i] = old[b + i]
  BY <1>1, <1>2, PartIs DEF IsPart
<1>6. PICK M : M = x \o y
  OBVIOUS
<1>7. /\ M \in Seq(E) /\ Len(M) = Len(x) + Len(y)
      /\ \A i \in 1 .. Len(x) + Len(y) : M[i] = IF i <= Len(x) THEN x[i] ELSE y[i - Len(x)]
  BY <1>4, <1>5, <1>6, ConcatProperties
<1>8. Len(M) = B + Len(old) - b
  BY <1>1, <1>4, <1>5, <1>7
<1>9. ASSUME NEW k \in 1 .. B + Len(old) - b
      PROVE  M[k] = IF k <= B THEN current[k] ELSE old[b + k - B]
  <2>1. M[k] = IF k <= B THEN x[k] ELSE y[k - B]
    BY <1>4, <1>5, <1>7, <1>8
  <2>2. k <= B => x[k] = current[k]
    BY <1>4
  <2>3. ~(k <= B) => k - B \in 1 .. Len(old) - b /\ b + (k - B) = b + k - B
    BY <1>1
  <2>4. ~(k <= B) => y[k - B] = old[b + k - B]
    BY <1>5, <2>3
  <2>5. QED
    BY <2>1, <2>2, <2>4
<1>10. M = Mixed(current, B, old, b)
  BY <1>2, <1>6 DEF Mixed
<1>11. QED
  BY <1>7, <1>8, <1>9, <1>10 DEF IsMixed

(* An element that both arrays have there may be of either.                 *)
LEMMA MixedMoves ==
  ASSUME NEW E, NEW current \in Seq(E), NEW old \in Seq(E), NEW B \in Nat, NEW b \in Nat,
         B < Len(current), b < Len(old), current[B + 1] = old[b + 1]
  PROVE  Mixed(current, B, old, b) = Mixed(current, B + 1, old, b + 1)
<1>1. Len(old) \in Nat /\ Len(current) \in Nat
  BY LenProperties
<1>2. PICK M, N : M = Mixed(current, B, old, b) /\ N = Mixed(current, B + 1, old, b + 1)
  OBVIOUS
<1>3. /\ M \in Seq(E) /\ Len(M) = B + Len(old) - b
      /\ \A k \in 1 .. B + Len(old) - b : M[k] = IF k <= B THEN current[k] ELSE old[b + k - B]
  <2>1. IsMixed(M, current, B, old, b, E)
    BY <1>1, <1>2, MixedIs
  <2>2. QED
    BY <2>1 DEF IsMixed
<1>4. /\ N \in Seq(E) /\ Len(N) = B + 1 + Len(old) - (b + 1)
      /\ \A k \in 1 .. B + 1 + Len(old) - (b + 1) :
            N[k] = IF k <= B + 1 THEN current[k] ELSE old[b + 1 + k - (B + 1)]
  <2>1. B + 1 \in Nat /\ b + 1 \in Nat /\ B + 1 <= Len(current) /\ b + 1 <= Len(old)
    BY <1>1
  <2>2. QED
    <3>1. IsMixed(N, current, B + 1, old, b + 1, E)
      BY <1>2, <2>1, MixedIs
    <3>2. QED
      BY <3>1 DEF IsMixed
<1>5. B + 1 + Len(old) - (b + 1) = B + Len(old) - b
  BY <1>1
<1>6. ASSUME NEW k \in 1 .. B + Len(old) - b PROVE M[k] = N[k]
  <2>1. k \in Nat /\ b + 1 + k - (B + 1) = b + k - B
    BY <1>1
  <2>2. k = B + 1 => b + k - B = b + 1
    OBVIOUS
  <2>3. M[k] = IF k <= B THEN current[k] ELSE old[b + k - B]
    BY <1>3
  <2>4. N[k] = IF k <= B + 1 THEN current[k] ELSE old[b + k - B]
    BY <1>4, <1>5, <2>1
  <2>5. CASE k <= B
    BY <2>3, <2>4, <2>5
  <2>6. CASE k = B + 1
    <3>1. ~(k <= B) /\ k <= B + 1
      BY <2>6
    <3>2. M[k] = old[b + 1] /\ N[k] = current[B + 1]
      BY <2>2, <2>3, <2>4, <2>6, <3>1
    <3>3. QED
      BY <3>2
  <2>7. CASE k > B + 1
    BY <2>3, <2>4, <2>7
  <2>8. QED
    BY <2>1, <2>5, <2>6, <2>7
<1>7. M = N
  BY <1>3, <1>4, <1>5, <1>6, SeqEqual
<1>8. QED
  BY <1>2, <1>7

(* A splice removes what it finds, and takes one array to another.          *)
Takes(M, s, N, current) ==
    /\ Applied(M, s, current) = N
    /\ SubSeq(M, s.index + 1, s.index + Len(s.removed)) = s.removed

(* The splice between two places takes the array that is current up to the  *)
(* first one to that which is current up to the second.                     *)
LEMMA AppliedMixed ==
  ASSUME NEW E, NEW current \in Seq(E), NEW old \in Seq(E),
         NEW B \in Nat, NEW b \in Nat, NEW B2 \in Nat, NEW b2 \in Nat,
         B <= B2, B2 <= Len(current), b <= b2, b2 <= Len(old)
  PROVE  Takes(Mixed(current, B, old, b), NewSplice(B, SubSeq(old, b + 1, b2), B2 - B),
               Mixed(current, B2, old, b2), current)
<1>1. Len(old) \in Nat /\ Len(current) \in Nat
  BY LenProperties
<1>2. PICK s, M, N : /\ s = NewSplice(B, SubSeq(old, b + 1, b2), B2 - B)
                     /\ M = Mixed(current, B, old, b) /\ N = Mixed(current, B2, old, b2)
  OBVIOUS
<1>3. PICK r, m : r = SubSeq(old, b + 1, b2) /\ m = Len(M)
  OBVIOUS
<1>4. r \in Seq(E) /\ Len(r) = b2 - b /\ \A i \in 1 .. b2 - b : r[i] = old[b + i]
  BY <1>1, <1>3, PartIs DEF IsPart
<1>5. s.index = B /\ s.removed = r /\ s.addedCount = B2 - B
  BY <1>2, <1>3 DEF NewSplice
<1>6. /\ M \in Seq(E) /\ m = B + Len(old) - b
      /\ \A k \in 1 .. m : M[k] = IF k <= B THEN current[k] ELSE old[b + k - B]
  <2>1. B <= Len(current) /\ b <= Len(old)
    BY <1>1
  <2>2. QED
    <3>1. IsMixed(M, current, B, old, b, E)
      BY <1>2, <2>1, MixedIs
    <3>2. QED
      BY <1>3, <3>1 DEF IsMixed
<1>7. /\ N \in Seq(E) /\ Len(N) = B2 + Len(old) - b2
      /\ \A k \in 1 .. B2 + Len(old) - b2 : N[k] = IF k <= B2 THEN current[k] ELSE old[b2 + k - B2]
  <2>1. IsMixed(N, current, B2, old, b2, E)
    BY <1>1, <1>2, MixedIs
  <2>2. QED
    BY <2>1 DEF IsMixed
<1>8. m \in Nat /\ B <= m /\ B + (b2 - b) <= m /\ b2 - b \in Nat /\ B2 - B \in Nat /\ B + (b2 - b) \in Nat
  BY <1>1, <1>6
<1>9. SubSeq(M, s.index + 1, s.index + Len(s.removed)) = s.removed
  <2>1. PICK y : y = SubSeq(M, B + 1, B + (b2 - b))
    OBVIOUS
  <2>2. /\ y \in Seq(E) /\ Len(y) = B + (b2 - b) - B
        /\ \A i \in 1 .. B + (b2 - b) - B : y[i] = M[B + i]
    <3>1. IsPart(y, M, B, B + (b2 - b), E)
      <4>1. PICK c : c = B + (b2 - b)
        OBVIOUS
      <4>2. c \in Nat /\ B <= c /\ c <= Len(M)
        BY <1>3, <1>8, <4>1
      <4>3. IsPart(SubSeq(M, B + 1, c), M, B, c, E)
        BY <1>6, <4>2, PartIs
      <4>4. QED
        BY <2>1, <4>1, <4>3
    <3>2. QED
      BY <3>1 DEF IsPart
  <2>3. B + (b2 - b) - B = b2 - b
    OBVIOUS
  <2>4. ASSUME NEW i \in 1 .. b2 - b PROVE y[i] = r[i]
    <3>1. B + i \in 1 .. m /\ ~(B + i <= B) /\ b + (B + i) - B = b + i
      BY <1>8
    <3>2. QED
      BY <1>4, <1>6, <2>2, <2>3, <3>1
  <2>5. y = r
    BY <1>4, <2>2, <2>3, <2>4, SeqEqual
  <2>6. QED
    BY <1>4, <1>5, <2>1, <2>5
<1>10. PICK x, y, z : /\ x = SubSeq(M, 1, B) /\ y = SubSeq(current, B + 1, B + (B2 - B))
                      /\ z = SubSeq(M, B + (b2 - b) + 1, m)
  OBVIOUS
<1>11. Applied(M, s, current) = (x \o y) \o z
  BY <1>3, <1>4, <1>5, <1>10 DEF Applied
<1>12. x \in Seq(E) /\ Len(x) = B /\ \A i \in 1 .. B : x[i] = M[i]
  <2>1. 0 \in Nat /\ 0 <= B
    OBVIOUS
  <2>2. /\ SubSeq(M, 0 + 1, B) \in Seq(E) /\ Len(SubSeq(M, 0 + 1, B)) = B - 0
        /\ \A i \in 1 .. B - 0 : SubSeq(M, 0 + 1, B)[i] = M[0 + i]
    <3>1. IsPart(SubSeq(M, 0 + 1, B), M, 0, B, E)
      BY <1>3, <1>6, <1>8, <2>1, PartIs
    <3>2. QED
      BY <3>1 DEF IsPart
  <2>3. 0 + 1 = 1 /\ B - 0 = B /\ \A i \in 1 .. B : 0 + i = i
    OBVIOUS
  <2>4. QED
    BY <1>10, <2>2, <2>3
<1>13. y \in Seq(E) /\ Len(y) = B2 - B /\ \A i \in 1 .. B2 - B : y[i] = current[B + i]
  <2>1. B + (B2 - B) = B2
    OBVIOUS
  <2>2. QED
    BY <1>1, <1>10, <2>1, PartIs DEF IsPart
<1>14. /\ z \in Seq(E) /\ Len(z) = m - (B + (b2 - b))
       /\ \A i \in 1 .. m - (B + (b2 - b)) : z[i] = M[B + (b2 - b) + i]
  <2>1. IsPart(z, M, B + (b2 - b), m, E)
    <3>1. PICK c : c = B + (b2 - b)
      OBVIOUS
    <3>2. c \in Nat /\ c <= m /\ m <= Len(M)
      BY <1>3, <1>8, <3>1
    <3>3. IsPart(SubSeq(M, c + 1, m), M, c, m, E)
      BY <1>6, <1>8, <3>2, PartIs
    <3>4. QED
      BY <1>10, <3>1, <3>3
  <2>2. QED
    BY <2>1 DEF IsPart
<1>15. PICK q : q = x \o y
  OBVIOUS
<1>16. /\ q \in Seq(E) /\ Len(q) = Len(x) + Len(y)
       /\ \A i \in 1 .. Len(x) + Len(y) : q[i] = IF i <= Len(x) THEN x[i] ELSE y[i - Len(x)]
  BY <1>12, <1>13, <1>15, ConcatProperties
<1>17. PICK t : t = q \o z
  OBVIOUS
<1>18. /\ t \in Seq(E) /\ Len(t) = Len(q) + Len(z)
       /\ \A i \in 1 .. Len(q) + Len(z) : t[i] = IF i <= Len(q) THEN q[i] ELSE z[i - Len(q)]
  <2>1. q \in Seq(E) /\ z \in Seq(E)
    BY <1>14, <1>16
  <2>2. QED
    BY <1>17, <2>1, ConcatProperties
<1>19. Len(q) = B2 /\ Len(z) = Len(old) - b2 /\ Len(t) = B2 + Len(old) - b2
       /\ Len(q) + Len(z) = B2 + Len(old) - b2
  <2>1. Len(q) = B2
    BY <1>12, <1>13, <1>16
  <2>2. Len(z) = Len(old) - b2
    BY <1>1, <1>6, <1>14
  <2>3. QED
    BY <1>1, <1>18, <2>1, <2>2
<1>20. ASSUME NEW k \in 1 .. B2 + Len(old) - b2 PROVE t[k] = N[k]
  <2>1. CASE k <= B
    <3>1. k \in 1 .. B /\ k <= B2 /\ k \in 1 .. m /\ k \in 1 .. B + (B2 - B)
      BY <1>8, <2>1
    <3>2. t[k] = q[k] /\ q[k] = x[k] /\ x[k] = M[k] /\ M[k] = current[k]
      BY <1>6, <1>12, <1>13, <1>16, <1>18, <1>19, <2>1, <3>1
    <3>3. QED
      BY <1>7, <3>1, <3>2
  <2>2. CASE ~(k <= B) /\ k <= B2
    <3>1. k - B \in 1 .. B2 - B /\ B + (k - B) = k /\ k \in 1 .. B + (B2 - B)
      BY <2>2
    <3>2. t[k] = q[k] /\ q[k] = y[k - B] /\ y[k - B] = current[k]
      BY <1>12, <1>13, <1>16, <1>18, <1>19, <2>2, <3>1
    <3>3. QED
      BY <1>7, <2>2, <3>2
  <2>3. CASE ~(k <= B2)
    <3>1. PICK l : l = B + (b2 - b) + (k - B2)
      OBVIOUS
    <3>2. /\ k - B2 \in 1 .. Len(old) - b2 /\ l \in 1 .. m /\ ~(l <= B)
          /\ b + l - B = b2 + k - B2
      BY <1>1, <1>6, <1>8, <2>3, <3>1
    <3>3. t[k] = z[k - B2]
      BY <1>18, <1>19, <2>3
    <3>4. z[k - B2] = M[l]
      BY <1>14, <1>19, <3>1, <3>2
    <3>5. M[l] = old[b2 + k - B2]
      BY <1>6, <3>2
    <3>6. QED
      BY <1>7, <2>3, <3>3, <3>4, <3>5
  <2>4. QED
    BY <2>1, <2>2, <2>3
<1>21. t = N
  BY <1>7, <1>18, <1>19, <1>20, SeqEqual
<1>22. QED
  BY <1>2, <1>9, <1>11, <1>15, <1>17, <1>21 DEF Takes

(* The splices of arrays of such elements.                                  *)
SplicesOver(E) == [index : Nat, removed : Seq(E), addedCount : Nat]

(* The elements of an array up to n, and after m up to n.                   *)
Between(s, m, n) == {s[i] : i \in m + 1 .. n}

(* What splices told so far: they have removed nothing beyond b, and what   *)
(* they added together with what they left are the elements up to B.        *)
Told(T, current, B, old, b) ==
    /\ Removed(T) \subseteq Between(old, 0, b)
    /\ Between(current, 0, B) = Added(T, current) \cup (Between(old, 0, b) \ Removed(T))

(* The elements up to n are those up to m and those after it,               *)
LEMMA BetweenGrows ==
  ASSUME NEW m \in Nat, NEW n \in Nat, m <= n, NEW s
  PROVE  Between(s, 0, n) = Between(s, 0, m) \cup Between(s, m, n)
<1>1. 0 + 1 = 1
  OBVIOUS
<1>2. 1 .. n = (1 .. m) \cup (m + 1 .. n)
  OBVIOUS
<1>3. QED
  BY <1>1, <1>2 DEF Between

(* and none of these is one of those if no element is there twice.          *)
LEMMA BetweenApart ==
  ASSUME NEW E, NEW s \in Seq(E), IsInjective(s), NEW m \in Nat, NEW n \in Nat, m <= n, n <= Len(s)
  PROVE  Between(s, 0, m) \cap Between(s, m, n) = {}
<1>1. Len(s) \in Nat /\ DOMAIN s = 1 .. Len(s)
  BY LenProperties
<1>2. ASSUME NEW i \in 0 + 1 .. m, NEW j \in m + 1 .. n, s[i] = s[j] PROVE FALSE
  <2>1. i \in 1 .. Len(s) /\ j \in 1 .. Len(s) /\ i # j
    BY <1>1
  <2>2. QED
    BY <1>1, <1>2, <2>1 DEF IsInjective
<1>3. QED
  BY <1>2 DEF Between

(* U has one splice more than T, and removes and adds what it says.         *)
Longer(U, T, B, b, B2, b2, old) == U = Append(T, NewSplice(B, SubSeq(old, b + 1, b2), B2 - B))

MoreIsTold(U, T, B, b, B2, b2, current, old) ==
    /\ Removed(U) = Removed(T) \cup Between(old, b, b2)
    /\ Added(U, current) = Added(T, current) \cup Between(current, B, B2)

(* One splice more removes and adds what it says.                           *)
LEMMA ToldAppend ==
  ASSUME NEW E, NEW T \in Seq(SplicesOver(E)), NEW current, NEW old,
         NEW B \in Nat, NEW b \in Nat, NEW B2 \in Nat, NEW b2 \in Nat,
         B <= B2, b <= b2, b2 <= Len(old), old \in Seq(E),
         NEW U, Longer(U, T, B, b, B2, b2, old)
  PROVE  MoreIsTold(U, T, B, b, B2, b2, current, old)
<1>1. PICK s : s = NewSplice(B, SubSeq(old, b + 1, b2), B2 - B)
  OBVIOUS
<1>2. IsPart(s.removed, old, b, b2, E)
  BY <1>1, PartIs DEF NewSplice
<1>3. s.index = B /\ s.addedCount = B2 - B /\ s \in SplicesOver(E)
  BY <1>1, <1>2 DEF NewSplice, SplicesOver, IsPart
<1>4. PICK N : N = Len(T) /\ U = Append(T, s)
  BY <1>1 DEF Longer
<1>5. /\ N \in Nat /\ (\A n \in 1 .. N : U[n] = T[n]) /\ U[N + 1] = s
      /\ DOMAIN U = 1 .. N + 1 /\ DOMAIN T = 1 .. N
  BY <1>3, <1>4
<1>6. Range(U) = Range(T) \cup {s}
  <2>1. 1 .. N + 1 = 1 .. N \cup {N + 1}
    BY <1>5
  <2>2. QED
    BY <1>5, <2>1 DEF Range
<1>7. Range(s.removed) = Between(old, b, b2)
  <2>1. DOMAIN s.removed = 1 .. b2 - b /\ \A i \in 1 .. b2 - b : s.removed[i] = old[b + i]
    BY <1>2 DEF IsPart
  <2>2. \A i \in 1 .. b2 - b : b + i \in b + 1 .. b2
    OBVIOUS
  <2>3. \A j \in b + 1 .. b2 : j - b \in 1 .. b2 - b /\ b + (j - b) = j
    OBVIOUS
  <2>4. ASSUME NEW i \in 1 .. b2 - b PROVE s.removed[i] \in Between(old, b, b2)
    BY <2>1, <2>2 DEF Between
  <2>5. ASSUME NEW j \in b + 1 .. b2 PROVE old[j] \in Range(s.removed)
    <3>1. j - b \in 1 .. b2 - b /\ s.removed[j - b] = old[j]
      BY <2>1, <2>3
    <3>2. QED
      BY <2>1, <3>1 DEF Range
  <2>6. Range(s.removed) \subseteq Between(old, b, b2)
    BY <2>1, <2>4 DEF Range
  <2>7. Between(old, b, b2) \subseteq Range(s.removed)
    BY <2>5 DEF Between
  <2>8. QED
    BY <2>6, <2>7
<1>8. {current[k + 1] : k \in s.index .. s.index + s.addedCount - 1} = Between(current, B, B2)
  <2>1. s.index .. s.index + s.addedCount - 1 = B .. B2 - 1
    BY <1>3
  <2>2. \A k \in B .. B2 - 1 : k + 1 \in B + 1 .. B2
    OBVIOUS
  <2>3. \A j \in B + 1 .. B2 : j - 1 \in B .. B2 - 1 /\ (j - 1) + 1 = j
    OBVIOUS
  <2>4. QED
    BY <2>1, <2>2, <2>3 DEF Between
<1>9. Removed(U) = Removed(T) \cup Range(s.removed)
  BY <1>6 DEF Removed
<1>10. Added(U, current) = Added(T, current) \cup {current[k + 1] : k \in s.index .. s.index + s.addedCount - 1}
  BY <1>6 DEF Added
<1>11. QED
  BY <1>1, <1>4, <1>7, <1>8, <1>9, <1>10 DEF MoreIsTold

(* What is shared at the start is told without a splice.                    *)
LEMMA ToldStart ==
  ASSUME NEW current, NEW old, NEW start \in Nat, \A k \in 1 .. start : current[k] = old[k]
  PROVE  Told(<<>>, current, start, old, start)
<1>1. Range(<<>>) = {}
  BY DEF Range
<1>2. Removed(<<>>) = {} /\ Added(<<>>, current) = {}
  BY <1>1 DEF Removed, Added
<1>3. 0 + 1 = 1
  OBVIOUS
<1>4. Between(current, 0, start) = Between(old, 0, start)
  BY <1>3 DEF Between
<1>5. QED
  BY <1>2, <1>4 DEF Told

(* An element that is left is one more that was there and is there.         *)
LEMMA ToldMove ==
  ASSUME NEW E, NEW current, NEW old \in Seq(E), IsInjective(old), NEW B \in Nat, NEW b \in Nat, NEW T,
         b < Len(old), current[B + 1] = old[b + 1], Told(T, current, B, old, b)
  PROVE  Told(T, current, B + 1, old, b + 1)
<1>1. Len(old) \in Nat /\ b + 1 \in Nat /\ B + 1 \in Nat /\ b <= b + 1 /\ B <= B + 1 /\ b + 1 <= Len(old)
  BY LenProperties
<1>2. \A s : \A n \in Nat : Between(s, 0, n + 1) = Between(s, 0, n) \cup Between(s, n, n + 1)
  <2>1. \A n \in Nat : n + 1 \in Nat /\ n <= n + 1
    OBVIOUS
  <2>2. QED
    BY <2>1, BetweenGrows
<1>3. /\ Between(old, 0, b + 1) = Between(old, 0, b) \cup Between(old, b, b + 1)
      /\ Between(current, 0, B + 1) = Between(current, 0, B) \cup Between(current, B, B + 1)
  BY <1>2
<1>4. Between(old, 0, b) \cap Between(old, b, b + 1) = {}
  BY <1>1, BetweenApart
<1>5. Between(old, b, b + 1) = {old[b + 1]} /\ Between(current, B, B + 1) = {current[B + 1]}
  BY DEF Between
<1>6. QED
  BY <1>3, <1>4, <1>5 DEF Told

(* The splice between two places tells what lies between them.              *)
LEMMA ToldOn ==
  ASSUME NEW E, NEW current, NEW old \in Seq(E), IsInjective(old), NEW T \in Seq(SplicesOver(E)),
         NEW B \in Nat, NEW b \in Nat, NEW B2 \in Nat, NEW b2 \in Nat,
         B <= B2, b <= b2, b2 <= Len(old), Told(T, current, B, old, b)
  PROVE  Told(Append(T, NewSplice(B, SubSeq(old, b + 1, b2), B2 - B)), current, B2, old, b2)
<1>1. PICK U : U = Append(T, NewSplice(B, SubSeq(old, b + 1, b2), B2 - B))
  OBVIOUS
<1>2. /\ Removed(U) = Removed(T) \cup Between(old, b, b2)
      /\ Added(U, current) = Added(T, current) \cup Between(current, B, B2)
  <2>1. Longer(U, T, B, b, B2, b2, old)
    BY <1>1 DEF Longer
  <2>2. MoreIsTold(U, T, B, b, B2, b2, current, old)
    BY <2>1, ToldAppend
  <2>3. QED
    BY <2>2 DEF MoreIsTold
<1>3. /\ Between(old, 0, b2) = Between(old, 0, b) \cup Between(old, b, b2)
      /\ Between(current, 0, B2) = Between(current, 0, B) \cup Between(current, B, B2)
  <2>1. Between(old, 0, b2) = Between(old, 0, b) \cup Between(old, b, b2)
    BY BetweenGrows
  <2>2. Between(current, 0, B2) = Between(current, 0, B) \cup Between(current, B, B2)
    BY BetweenGrows
  <2>3. QED
    BY <2>1, <2>2
<1>4. Between(old, 0, b) \cap Between(old, b, b2) = {}
  BY BetweenApart
<1>5. Told(U, current, B2, old, b2)
  BY <1>2, <1>3, <1>4 DEF Told
<1>6. QED
  BY <1>1, <1>5

(* What is told of arrays that share the rest is what there is.             *)
LEMMA ToldOfAll ==
  ASSUME NEW E, NEW current \in Seq(E), NEW old \in Seq(E), IsInjective(old), NEW T,
         NEW q \in Nat, q <= Len(current), q <= Len(old),
         \A k \in 1 .. q : current[Len(current) - q + k] = old[Len(old) - q + k],
         Told(T, current, Len(current) - q, old, Len(old) - q)
  PROVE  Range(current) = (Range(old) \ Removed(T)) \cup Added(T, current)
<1>1. PICK M, m, B, b : M = Len(current) /\ m = Len(old) /\ B = M - q /\ b = m - q
  OBVIOUS
<1>2. M \in Nat /\ m \in Nat /\ DOMAIN current = 1 .. M /\ DOMAIN old = 1 .. m
  BY <1>1, LenProperties
<1>3. B \in Nat /\ b \in Nat /\ B <= M /\ b <= m /\ M = B + q /\ m = b + q
  BY <1>1, <1>2
<1>4. 0 + 1 = 1
  OBVIOUS
<1>5. Range(current) = Between(current, 0, M) /\ Range(old) = Between(old, 0, m)
  BY <1>2, <1>4 DEF Range, Between
<1>6. /\ Between(old, 0, m) = Between(old, 0, b) \cup Between(old, b, m)
      /\ Between(current, 0, M) = Between(current, 0, B) \cup Between(current, B, M)
  BY <1>2, <1>3, BetweenGrows
<1>7. Between(old, 0, b) \cap Between(old, b, m) = {}
  BY <1>1, <1>2, <1>3, BetweenApart
<1>8. Between(current, B, M) = Between(old, b, m)
  <2>1. \A k \in 1 .. q : current[B + k] = old[b + k]
    BY <1>1
  <2>2. /\ \A i \in B + 1 .. M : i - B \in 1 .. q /\ B + (i - B) = i /\ b + (i - B) \in b + 1 .. m
        /\ \A j \in b + 1 .. m : j - b \in 1 .. q /\ b + (j - b) = j /\ B + (j - b) \in B + 1 .. M
    BY <1>2, <1>3
  <2>3. \A i \in B + 1 .. M : current[i] = old[b + (i - B)]
    BY <2>1, <2>2
  <2>4. \A j \in b + 1 .. m : old[j] = current[B + (j - b)]
    BY <2>1, <2>2
  <2>5. \A i \in B + 1 .. M : current[i] \in Between(old, b, m)
    BY <2>2, <2>3 DEF Between
  <2>6. \A j \in b + 1 .. m : old[j] \in Between(current, B, M)
    BY <2>2, <2>4 DEF Between
  <2>7. QED
    BY <2>5, <2>6 DEF Between
<1>9. Told(T, current, B, old, b)
  BY <1>1
<1>10. QED
  BY <1>5, <1>6, <1>7, <1>8, <1>9 DEF Told

(* Splices that lead from the old array to the first B elements of the      *)
(* current one and what the old one has after b, with so many edits; each   *)
(* starts where those before it end or after that, and they tell what       *)
(* changed if no element was there twice.                                   *)
Leads(T, current, old, B, b, e, E) ==
    /\ T \in Seq(SplicesOver(E))
    /\ AllSplices(T, current, old) = Mixed(current, B, old, b)
    /\ Matches(T, current, old)
    /\ Edits(T) = e
    /\ \A n \in 1 .. Len(T) : T[n].index + T[n].addedCount <= B
    /\ \A n, k \in 1 .. Len(T) : n < k => T[n].index + T[n].addedCount <= T[k].index
    /\ IsInjective(old) => Told(T, current, B, old, b)

(* No splice is needed for what the arrays share at the start.              *)
LEMMA LeadsStart ==
  ASSUME NEW E, NEW current \in Seq(E), NEW old \in Seq(E), NEW start \in Nat,
         start <= Len(current), start <= Len(old), \A k \in 1 .. start : current[k] = old[k]
  PROVE  Leads(<<>>, current, old, start, start, 0, E)
<1>1. Len(old) \in Nat /\ Len(current) \in Nat
  BY LenProperties
<1>2. PICK M : M = Mixed(current, start, old, start)
  OBVIOUS
<1>3. IsMixed(M, current, start, old, start, E)
  BY <1>2, MixedIs
<1>4. M \in Seq(E) /\ Len(M) = Len(old)
  BY <1>1, <1>3 DEF IsMixed
<1>5. ASSUME NEW k \in 1 .. Len(old) PROVE M[k] = old[k]
  <2>1. k \in 1 .. start + Len(old) - start /\ start + k - start = k
    BY <1>1
  <2>2. M[k] = IF k <= start THEN current[k] ELSE old[k]
    BY <1>3, <2>1 DEF IsMixed
  <2>3. k <= start => k \in 1 .. start
    OBVIOUS
  <2>4. QED
    BY <2>2, <2>3
<1>6. M = old
  BY <1>4, <1>5, SeqEqual
<1>7. PICK T : T = <<>>
  OBVIOUS
<1>8. T \in Seq(SplicesOver(E)) /\ Len(T) = 0 /\ DOMAIN T = {} /\ 1 .. Len(T) = {}
  BY <1>7
<1>9. PICK sp : sp \in SplicesOver(E)
  <2>1. [index |-> 0, removed |-> <<>>, addedCount |-> 0] \in SplicesOver(E)
    BY DEF SplicesOver
  <2>2. QED
    BY <2>1
<1>10. Arrays(T, current, old)[0] = old
  BY <1>7, <1>8, <1>9, ArraysAppend
<1>11. Edits(T) = 0
  BY <1>7, <1>8, <1>9, EditsAppend
<1>12. AllSplices(T, current, old) = M
  BY <1>6, <1>8, <1>10 DEF AllSplices
<1>13. Matches(T, current, old)
  BY <1>8 DEF Matches
<1>14. Told(T, current, start, old, start)
  BY <1>7, ToldStart
<1>15. QED
  BY <1>2, <1>7, <1>8, <1>11, <1>12, <1>13, <1>14 DEF Leads

(* Nor for an element that is the same.                                     *)
LEMMA LeadsMove ==
  ASSUME NEW E, NEW current \in Seq(E), NEW old \in Seq(E), NEW B \in Nat, NEW b \in Nat, NEW e, NEW T,
         B < Len(current), b < Len(old), current[B + 1] = old[b + 1],
         Leads(T, current, old, B, b, e, E)
  PROVE  Leads(T, current, old, B + 1, b + 1, e, E)
<1>1. Mixed(current, B, old, b) = Mixed(current, B + 1, old, b + 1)
  BY MixedMoves
<1>2. \A n \in 1 .. Len(T) : T[n].index + T[n].addedCount <= B + 1
  <2>1. \A n \in 1 .. Len(T) : T[n] \in SplicesOver(E)
    BY DEF Leads
  <2>2. \A n \in 1 .. Len(T) : T[n].index \in Nat /\ T[n].addedCount \in Nat
    BY <2>1 DEF SplicesOver
  <2>3. ASSUME NEW n \in 1 .. Len(T) PROVE T[n].index + T[n].addedCount <= B + 1
    <3>1. T[n].index + T[n].addedCount <= B /\ T[n].index + T[n].addedCount \in Nat
      BY <2>2 DEF Leads
    <3>2. QED
      BY <3>1
  <2>4. QED
    BY <2>3
<1>3. ASSUME IsInjective(old) PROVE Told(T, current, B + 1, old, b + 1)
  <2>1. Told(T, current, B, old, b)
    BY <1>3 DEF Leads
  <2>2. QED
    BY <1>3, <2>1, ToldMove
<1>4. QED
  BY <1>1, <1>2, <1>3 DEF Leads

(* The splice between two places leads from the first to the second.        *)
LEMMA LeadsOn ==
  ASSUME NEW E, NEW current \in Seq(E), NEW old \in Seq(E), NEW e \in Nat, NEW T,
         NEW B \in Nat, NEW b \in Nat, NEW B2 \in Nat, NEW b2 \in Nat,
         B <= B2, B2 <= Len(current), b <= b2, b2 <= Len(old),
         Leads(T, current, old, B, b, e, E)
  PROVE  Leads(Append(T, NewSplice(B, SubSeq(old, b + 1, b2), B2 - B)), current, old, B2, b2,
               e + (b2 - b) + (B2 - B), E)
<1>1. PICK s, M : s = NewSplice(B, SubSeq(old, b + 1, b2), B2 - B) /\ M = Mixed(current, B, old, b)
  OBVIOUS
<1>2. IsPart(s.removed, old, b, b2, E)
  BY <1>1, PartIs DEF NewSplice
<1>3. s.index = B /\ s.addedCount = B2 - B /\ Len(s.removed) = b2 - b /\ s \in SplicesOver(E)
  BY <1>1, <1>2 DEF NewSplice, SplicesOver, IsPart
<1>4. /\ Applied(M, s, current) = Mixed(current, B2, old, b2)
      /\ SubSeq(M, s.index + 1, s.index + Len(s.removed)) = s.removed
  <2>1. Takes(M, s, Mixed(current, B2, old, b2), current)
    BY <1>1, AppliedMixed
  <2>2. QED
    BY <2>1 DEF Takes
<1>5. PICK N, U : N = Len(T) /\ U = Append(T, s)
  OBVIOUS
<1>6. T \in Seq(SplicesOver(E))
  BY DEF Leads
<1>7. /\ N \in Nat /\ U \in Seq(SplicesOver(E)) /\ Len(U) = N + 1
      /\ (\A n \in 1 .. N : U[n] = T[n]) /\ U[N + 1] = s
      /\ DOMAIN U = 1 .. N + 1 /\ DOMAIN T = 1 .. N
  BY <1>3, <1>5, <1>6
<1>8. PICK x, y : x = Arrays(T, current, old) /\ y = Arrays(U, current, old)
  OBVIOUS
<1>9. (\A n \in 0 .. N : y[n] = x[n]) /\ y[N + 1] = Applied(x[N], s, current)
  BY <1>3, <1>5, <1>6, <1>8, ArraysAppend
<1>10. x[N] = M
  BY <1>1, <1>5, <1>8 DEF Leads, AllSplices
<1>11. AllSplices(U, current, old) = Mixed(current, B2, old, b2)
  BY <1>4, <1>7, <1>8, <1>9, <1>10 DEF AllSplices
<1>12. Matches(U, current, old)
  <2>1. ASSUME NEW n \in 1 .. N + 1
        PROVE  SubSeq(y[n - 1], U[n].index + 1, U[n].index + Len(U[n].removed)) = U[n].removed
    <3>1. CASE n = N + 1
      <4>1. n - 1 = N /\ N \in 0 .. N
        BY <1>7, <3>1
      <4>2. y[n - 1] = M /\ U[n] = s
        BY <1>7, <1>9, <1>10, <3>1, <4>1
      <4>3. QED
        BY <1>4, <4>2
    <3>2. CASE n \in 1 .. N
      <4>1. n - 1 \in 0 .. N
        BY <1>7, <3>2
      <4>2. y[n - 1] = x[n - 1] /\ U[n] = T[n]
        BY <1>7, <1>9, <3>2, <4>1
      <4>3. SubSeq(x[n - 1], T[n].index + 1, T[n].index + Len(T[n].removed)) = T[n].removed
        BY <1>7, <1>8, <3>2 DEF Leads, Matches
      <4>4. QED
        BY <4>2, <4>3
    <3>3. QED
      BY <1>7, <3>1, <3>2
  <2>2. QED
    BY <1>7, <1>8, <2>1 DEF Matches
<1>13. Edits(U) = e + (b2 - b) + (B2 - B)
  <2>1. Edits(U) = Edits(T) + Len(s.removed) + s.addedCount
    BY <1>3, <1>5, <1>6, EditsAppend
  <2>2. QED
    BY <1>3, <2>1 DEF Leads
<1>14. ASSUME NEW n \in 1 .. N
       PROVE  /\ T[n].index + T[n].addedCount <= B
              /\ T[n].index \in Nat /\ T[n].addedCount \in Nat
  <2>1. T[n] \in SplicesOver(E)
    BY <1>5, <1>6
  <2>2. T[n].index + T[n].addedCount <= B
    BY <1>5 DEF Leads
  <2>3. QED
    BY <2>1, <2>2 DEF SplicesOver
<1>15. ASSUME NEW n \in 1 .. N + 1 PROVE U[n].index + U[n].addedCount <= B2
  <2>1. CASE n = N + 1
    BY <1>3, <1>7, <2>1
  <2>2. CASE n \in 1 .. N
    <3>1. U[n] = T[n] /\ T[n].index + T[n].addedCount <= B /\ T[n].index + T[n].addedCount \in Nat
      BY <1>7, <1>14, <2>2
    <3>2. QED
      BY <3>1
  <2>3. QED
    BY <1>7, <2>1, <2>2
<1>16. ASSUME NEW n \in 1 .. N + 1, NEW k \in 1 .. N + 1, n < k
       PROVE  U[n].index + U[n].addedCount <= U[k].index
  <2>1. n \in 1 .. N /\ U[n] = T[n]
    BY <1>7, <1>16
  <2>2. CASE k = N + 1
    BY <1>3, <1>7, <1>14, <2>1, <2>2
  <2>3. CASE k \in 1 .. N
    <3>1. U[k] = T[k]
      BY <1>7, <2>3
    <3>2. T[n].index + T[n].addedCount <= T[k].index
      BY <1>5, <1>16, <2>1, <2>3 DEF Leads
    <3>3. QED
      BY <2>1, <3>1, <3>2
  <2>4. QED
    BY <1>7, <2>2, <2>3
<1>17. ASSUME IsInjective(old) PROVE Told(U, current, B2, old, b2)
  <2>1. Told(T, current, B, old, b)
    BY <1>17 DEF Leads
  <2>2. QED
    BY <1>1, <1>5, <1>6, <1>17, <2>1, ToldOn
<1>18. Leads(U, current, old, B2, b2, e + (b2 - b) + (B2 - B), E)
  BY <1>7, <1>11, <1>12, <1>13, <1>15, <1>16, <1>17 DEF Leads
<1>19. QED
  BY <1>1, <1>5, <1>18

-----------------------------------------------------------------------------
(* The states of the loop over the operations.                              *)
ScanStates(E) ==
    [splices : Seq(SplicesOver(E)), open : BOOLEAN, splice : SplicesOver(E), index : Nat, oldIndex : Nat]

(* A scan of the operations that is at I and J, after so many edits.        *)
ScannedTo(s, I, J, e, B, b, c, current, old, E) ==
    /\ B <= J /\ b <= I
    /\ ~s.open => B = J /\ b = I
    /\ Opened(s) = NewSplice(B, SubSeq(old, b + 1, I), J - B)
    /\ Leads(s.splices, current, old, B, b, c, E)
    /\ e = c + (I - b) + (J - B)

Scanning(s, I, J, e, current, old, E) ==
    /\ s \in ScanStates(E)
    /\ s.oldIndex = I /\ s.index = J
    /\ \E B, b, c \in Nat : ScannedTo(s, I, J, e, B, b, c, current, old, E)

(* The splices, with the one that is open, lead to where the scan is.       *)
LEMMA ClosedLeads ==
  ASSUME NEW E, NEW current \in Seq(E), NEW old \in Seq(E), NEW s, NEW e,
         NEW I \in Nat, NEW J \in Nat, I <= Len(old), J <= Len(current),
         Scanning(s, I, J, e, current, old, E)
  PROVE  Leads(Closed(s), current, old, J, I, e, E)
<1>1. PICK B \in Nat, b \in Nat, c \in Nat : ScannedTo(s, I, J, e, B, b, c, current, old, E)
  BY DEF Scanning
<1>2. /\ B <= J /\ b <= I
      /\ ~s.open => B = J /\ b = I
      /\ Opened(s) = NewSplice(B, SubSeq(old, b + 1, I), J - B)
      /\ Leads(s.splices, current, old, B, b, c, E)
      /\ e = c + (I - b) + (J - B)
  BY <1>1 DEF ScannedTo
<1>3. CASE s.open
  <2>1. Closed(s) = Append(s.splices, NewSplice(B, SubSeq(old, b + 1, I), J - B))
    BY <1>2, <1>3 DEF Closed, Opened
  <2>2. PICK U : U = Append(s.splices, NewSplice(B, SubSeq(old, b + 1, I), J - B))
    OBVIOUS
  <2>3. Leads(U, current, old, J, I, c + (I - b) + (J - B), E)
    BY <1>2, <2>2, LeadsOn
  <2>4. QED
    BY <1>2, <2>1, <2>2, <2>3
<1>4. CASE ~s.open
  <2>1. Closed(s) = s.splices
    BY <1>4 DEF Closed
  <2>2. B = J /\ b = I /\ e = c
    BY <1>2, <1>4
  <2>3. QED
    BY <1>2, <2>1, <2>2
<1>5. QED
  BY <1>3, <1>4

(* cloud-dashboard.js:13963-13971: an operation that leaves an element      *)
(* moves the scan on in both arrays, without an edit.                       *)
LEMMA LeavingGoesOn ==
  ASSUME NEW E, NEW current \in Seq(E), NEW old \in Seq(E), NEW s, NEW e \in Nat,
         NEW I \in Nat, NEW J \in Nat, I < Len(old), J < Len(current), current[J + 1] = old[I + 1],
         Scanning(s, I, J, e, current, old, E)
  PROVE  Scanning(Operated(s, "leave", old), I + 1, J + 1, e, current, old, E)
<1>1. Len(old) \in Nat /\ Len(current) \in Nat
  BY LenProperties
<1>2. I <= Len(old) /\ J <= Len(current) /\ I + 1 \in Nat /\ J + 1 \in Nat
  BY <1>1
<1>3. Leads(Closed(s), current, old, J, I, e, E)
  BY <1>2, ClosedLeads
<1>4. Leads(Closed(s), current, old, J + 1, I + 1, e, E)
  BY <1>3, LeadsMove
<1>5. PICK t : t = Operated(s, "leave", old)
  OBVIOUS
<1>6. s \in ScanStates(E) /\ s.oldIndex = I /\ s.index = J
  BY DEF Scanning
<1>7. t = [s EXCEPT !.splices = Closed(s), !.open = FALSE, !.index = @ + 1, !.oldIndex = @ + 1]
  BY <1>5 DEF Operated
<1>8. Closed(s) \in Seq(SplicesOver(E))
  BY <1>3 DEF Leads
<1>9. /\ t.splices = Closed(s) /\ t.open = FALSE /\ t.index = J + 1 /\ t.oldIndex = I + 1
      /\ t \in ScanStates(E)
  BY <1>2, <1>6, <1>7, <1>8 DEF ScanStates
<1>10. SubSeq(old, I + 1 + 1, I + 1) = <<>> /\ J + 1 - (J + 1) = 0
  BY SubSeqEmpty
<1>11. Opened(t) = NewSplice(J + 1, SubSeq(old, I + 1 + 1, I + 1), J + 1 - (J + 1))
  BY <1>9, <1>10 DEF Opened
<1>12. e = e + (I + 1 - (I + 1)) + (J + 1 - (J + 1)) /\ J + 1 <= J + 1 /\ I + 1 <= I + 1
  OBVIOUS
<1>13. ScannedTo(t, I + 1, J + 1, e, J + 1, I + 1, e, current, old, E)
  BY <1>4, <1>9, <1>11, <1>12 DEF ScannedTo
<1>14. QED
  BY <1>2, <1>5, <1>9, <1>13 DEF Scanning

(* What the other operations add and remove.                                *)
Adds(op) == IF op \in {"update", "add"} THEN 1 ELSE 0
Removes(op) == IF op \in {"update", "delete"} THEN 1 ELSE 0

(* cloud-dashboard.js:13972-13996: they move the scan on by what they add   *)
(* and what they remove, in a splice that stays open.                       *)
LEMMA EditingGoesOn ==
  ASSUME NEW E, NEW current \in Seq(E), NEW old \in Seq(E), NEW s, NEW e \in Nat,
         NEW I \in Nat, NEW J \in Nat, NEW op \in {"update", "add", "delete"},
         I + Removes(op) <= Len(old), J + Adds(op) <= Len(current),
         Scanning(s, I, J, e, current, old, E)
  PROVE  Scanning(Operated(s, op, old), I + Removes(op), J + Adds(op),
                  e + Removes(op) + Adds(op), current, old, E)
<1>1. Len(old) \in Nat /\ Len(current) \in Nat
  BY LenProperties
<1>2. PICK adds, removes, II, JJ, ee :
         /\ adds = Adds(op) /\ removes = Removes(op)
         /\ II = I + removes /\ JJ = J + adds /\ ee = e + removes + adds
  OBVIOUS
<1>3. adds \in Nat /\ removes \in Nat
  BY <1>2 DEF Adds, Removes
<1>4. II = I + removes /\ JJ = J + adds /\ ee = e + removes + adds
  BY <1>2
<1>5. PICK B \in Nat, b \in Nat, c \in Nat : ScannedTo(s, I, J, e, B, b, c, current, old, E)
  BY DEF Scanning
<1>6. /\ B <= J /\ b <= I
      /\ Opened(s) = NewSplice(B, SubSeq(old, b + 1, I), J - B)
      /\ Leads(s.splices, current, old, B, b, c, E)
      /\ e = c + (I - b) + (J - B)
  BY <1>5 DEF ScannedTo
<1>7. s \in ScanStates(E) /\ s.oldIndex = I /\ s.index = J
  BY DEF Scanning
<1>8. PICK t, sp : /\ t = Operated(s, op, old)
                   /\ sp = NewSplice(Opened(s).index,
                               Opened(s).removed \o SubSeq(old, s.oldIndex + 1, s.oldIndex + removes),
                               Opened(s).addedCount + adds)
  OBVIOUS
<1>9. t = [s EXCEPT !.open = TRUE, !.splice = sp, !.index = @ + adds, !.oldIndex = @ + removes]
  BY <1>2, <1>8 DEF Operated, Adds, Removes
<1>10. I + removes <= Len(old) /\ J + adds <= Len(current)
  BY <1>2
<1>11. II \in Nat /\ JJ \in Nat /\ I <= II /\ b <= II /\ B <= JJ /\ II <= Len(old) /\ JJ <= Len(current)
  BY <1>3, <1>6, <1>10, <1>4
<1>12. SubSeq(old, b + 1, I) \o SubSeq(old, I + 1, II) = SubSeq(old, b + 1, II)
  <2>1. b + 1 \in 1 .. Len(old) + 1 /\ I \in (b + 1) - 1 .. Len(old) /\ II \in I .. Len(old)
    BY <1>1, <1>6, <1>11
  <2>2. QED
    BY <2>1, ConcatAdjacentSubSeq
<1>13. sp = NewSplice(B, SubSeq(old, b + 1, II), JJ - B)
  <2>1. /\ Opened(s).index = B /\ Opened(s).removed = SubSeq(old, b + 1, I)
        /\ Opened(s).addedCount = J - B
    BY <1>6 DEF NewSplice
  <2>2. J - B + adds = JJ - B
    BY <1>2, <1>3
  <2>3. s.oldIndex + removes = II
    BY <1>2, <1>7
  <2>4. QED
    BY <1>7, <1>8, <1>12, <2>1, <2>2, <2>3
<1>14. sp \in SplicesOver(E)
  <2>1. IsPart(SubSeq(old, b + 1, II), old, b, II, E)
    BY <1>11, PartIs
  <2>2. SubSeq(old, b + 1, II) \in Seq(E) /\ JJ - B \in Nat
    BY <1>11, <2>1 DEF IsPart
  <2>3. QED
    BY <1>13, <2>2 DEF SplicesOver, NewSplice
<1>15. /\ t \in ScanStates(E) /\ t.open = TRUE /\ t.splice = sp /\ t.splices = s.splices
       /\ t.index = JJ /\ t.oldIndex = II
  <2>1. t = [s EXCEPT !.open = TRUE, !.splice = sp, !.index = JJ, !.oldIndex = II]
    BY <1>2, <1>7, <1>9
  <2>2. QED
    BY <1>7, <1>11, <1>14, <2>1 DEF ScanStates
<1>16. Opened(t) = sp
  BY <1>15 DEF Opened
<1>17. ee = c + (II - b) + (JJ - B)
  BY <1>3, <1>6, <1>4
<1>18. ScannedTo(t, II, JJ, ee, B, b, c, current, old, E)
  BY <1>6, <1>11, <1>13, <1>15, <1>16, <1>17 DEF ScannedTo
<1>19. Scanning(t, II, JJ, ee, current, old, E)
  BY <1>15, <1>18 DEF Scanning
<1>20. QED
  BY <1>2, <1>8, <1>19

(* cloud-dashboard.js:13957-13960: the scan begins after what is shared.    *)
LEMMA ScanStarts ==
  ASSUME NEW E, NEW current \in Seq(E), NEW old \in Seq(E), NEW start \in Nat,
         start <= Len(current), start <= Len(old), \A k \in 1 .. start : current[k] = old[k]
  PROVE  Scanning(Scanned(start), start, start, 0, current, old, E)
<1>1. PICK s : s = Scanned(start)
  OBVIOUS
<1>2. Leads(<<>>, current, old, start, start, 0, E)
  BY LeadsStart
<1>3. NewSplice(0, <<>>, 0) \in SplicesOver(E) /\ <<>> \in Seq(SplicesOver(E))
  BY DEF NewSplice, SplicesOver
<1>4. /\ s \in ScanStates(E) /\ s.splices = <<>> /\ s.open = FALSE
      /\ s.index = start /\ s.oldIndex = start
  BY <1>1, <1>3 DEF Scanned, ScanStates
<1>5. SubSeq(old, start + 1, start) = <<>> /\ start - start = 0
  BY SubSeqEmpty
<1>6. Opened(s) = NewSplice(start, SubSeq(old, start + 1, start), start - start)
  BY <1>4, <1>5 DEF Opened
<1>7. 0 = 0 + (start - start) + (start - start) /\ start <= start
  OBVIOUS
<1>8. ScannedTo(s, start, start, 0, start, start, 0, current, old, E)
  BY <1>2, <1>4, <1>6, <1>7 DEF ScannedTo
<1>9. 0 \in Nat
  OBVIOUS
<1>10. QED
  BY <1>1, <1>4, <1>8, <1>9 DEF Scanning

(* A part of an array from start on.                                        *)
Middle(part, s, start, E) ==
    part \in Seq(E) /\ start + Len(part) <= Len(s) /\ \A k \in 1 .. Len(part) : part[k] = s[start + k]

(* The scan of the way from any cell, at its end, is at that cell and has   *)
(* made as many edits as the cell says; so it is with the way of all.       *)
LEMMA WaysAreScanned ==
  ASSUME NEW E, NEW current \in Seq(E), NEW old \in Seq(E), NEW start \in Nat,
         \A k \in 1 .. start : current[k] = old[k],
         NEW now, NEW was, Middle(now, current, start, E), Middle(was, old, start, E)
  PROVE  Scanning(Scan(SpliceOperations(now, was), old, start), start + Len(was), start + Len(now),
                  EditDistances(now, was)[<<Len(was), Len(now)>>], current, old, E)
<1>1. /\ now \in Seq(E) /\ was \in Seq(E)
      /\ start + Len(now) <= Len(current) /\ start + Len(was) <= Len(old)
      /\ \A k \in 1 .. Len(now) : now[k] = current[start + k]
      /\ \A k \in 1 .. Len(was) : was[k] = old[start + k]
  BY DEF Middle
<1>2. PICK m, n : m = Len(was) /\ n = Len(now)
  OBVIOUS
<1>3. m \in Nat /\ n \in Nat /\ Len(old) \in Nat /\ Len(current) \in Nat
  BY <1>1, <1>2, LenProperties
<1>4. PICK d : d = EditDistances(now, was)
  OBVIOUS
<1> DEFINE C == Grid(was, now)
           size == CellSize(was, now)
<1>5. \A c \in C : \E i \in 0 .. Len(was), j \in 0 .. Len(now) : c = <<i, j>>
  BY DEF Grid
<1>6. \A i \in 0 .. Len(was), j \in 0 .. Len(now) : <<i, j>> \in C
  BY <1>1, GridCells
<1>7. PICK ops \in [C -> Seq(OpNames)] :
         /\ \A at \in C : ops[at] = OperationsAt(ops, at, d)
         /\ SpliceOperations(now, was) = ops[<<m, n>>]
  BY <1>1, <1>2, <1>4, OperationsAre
<1> DEFINE Good(i, j) ==
               Scanning(Scan(ops[<<i, j>>], old, start), start + i, start + j, d[<<i, j>>], current, old, E)
           P == {c \in C : Good(c[1], c[2])}
<1>8. \A i \in 0 .. m, j \in 0 .. n : DistanceStep(d, i, j, now, was)
  BY <1>1, <1>2, <1>4, DistanceSteps
<1>9. \A i \in 0 .. m, j \in 0 .. n :
         /\ i > 0 => Differ(d[<<i, j>>], d[<<i - 1, j>>])
         /\ j > 0 => Differ(d[<<i, j>>], d[<<i, j - 1>>])
  BY <1>1, <1>2, <1>4, NeighboursDiffer
<1>10. ASSUME NEW i \in Nat, NEW j \in Nat, NEW k \in 0 .. m, NEW l \in 0 .. n, NEW o \in OpNames,
             <<i, j>> \in C, Good(i, j), ops[<<k, l>>] = Append(ops[<<i, j>>], o),
             d[<<i, j>>] \in Nat,
             o # "leave", k = i + Removes(o), l = j + Adds(o),
             d[<<k, l>>] = d[<<i, j>>] + Removes(o) + Adds(o)
      PROVE  Good(k, l)
  <2>1. PICK s, t : s = Scan(ops[<<i, j>>], old, start) /\ t = Scan(ops[<<k, l>>], old, start)
    OBVIOUS
  <2>2. ops[<<i, j>>] \in Seq(OpNames)
    BY <1>7, <1>10
  <2>3. t = Operated(s, o, old)
    <3>1. PICK p : p = ops[<<i, j>>]
      OBVIOUS
    <3>2. p \in Seq(OpNames)
      BY <2>2, <3>1
    <3>3. Scan(Append(p, o), old, start) = Operated(Scan(p, old, start), o, old)
      BY <3>2, ScanAppend
    <3>4. QED
      BY <1>10, <2>1, <3>1, <3>3
  <2>4. PICK I, J, r, a, e : I = start + i /\ J = start + j /\ r = Removes(o) /\ a = Adds(o) /\ e = d[<<i, j>>]
    OBVIOUS
  <2>5. r \in Nat /\ a \in Nat
    BY <2>4 DEF Removes, Adds
  <2>6. I \in Nat /\ J \in Nat /\ e \in Nat
    BY <1>10, <2>4
  <2>7. k = i + r /\ l = j + a
    BY <1>10, <2>4
  <2>8. I + r = start + k /\ J + a = start + l
    BY <2>4, <2>5, <2>7
  <2>9. I + r <= Len(old) /\ J + a <= Len(current)
    BY <1>1, <1>2, <1>3, <2>8
  <2>10. Scanning(s, I, J, e, current, old, E)
    BY <1>10, <2>1, <2>4
  <2>11. o \in {"update", "add", "delete"}
    BY <1>10 DEF OpNames
  <2>12. Scanning(t, I + r, J + a, e + r + a, current, old, E)
    BY <2>3, <2>4, <2>6, <2>9, <2>10, <2>11, EditingGoesOn
  <2>13. d[<<k, l>>] = e + r + a
    BY <1>10, <2>4
  <2>14. QED
    BY <2>1, <2>8, <2>12, <2>13
<1>11. ASSUME NEW i \in Nat, NEW j \in Nat, NEW k \in 0 .. m, NEW l \in 0 .. n,
             <<i, j>> \in C, Good(i, j), ops[<<k, l>>] = Append(ops[<<i, j>>], "leave"),
             d[<<i, j>>] \in Nat, k = i + 1, l = j + 1, now[l] = was[k], d[<<k, l>>] = d[<<i, j>>]
      PROVE  Good(k, l)
  <2>1. PICK s, t : s = Scan(ops[<<i, j>>], old, start) /\ t = Scan(ops[<<k, l>>], old, start)
    OBVIOUS
  <2>2. ops[<<i, j>>] \in Seq(OpNames) /\ "leave" \in OpNames
    BY <1>7, <1>11 DEF OpNames
  <2>3. t = Operated(s, "leave", old)
    <3>1. PICK p, o : p = ops[<<i, j>>] /\ o = "leave"
      OBVIOUS
    <3>2. p \in Seq(OpNames) /\ o \in OpNames
      BY <2>2, <3>1
    <3>3. Scan(Append(p, o), old, start) = Operated(Scan(p, old, start), o, old)
      BY <3>2, ScanAppend
    <3>4. QED
      BY <1>11, <2>1, <3>1, <3>3
  <2>4. PICK I, J, e : I = start + i /\ J = start + j /\ e = d[<<i, j>>]
    OBVIOUS
  <2>5. I \in Nat /\ J \in Nat /\ e \in Nat
    BY <1>11, <2>4
  <2>6. I + 1 = start + k /\ J + 1 = start + l /\ I < Len(old) /\ J < Len(current)
    <3>1. k <= m /\ l <= n /\ start + m <= Len(old) /\ start + n <= Len(current)
      BY <1>1, <1>2, <1>3
    <3>2. k = i + 1 /\ l = j + 1
      BY <1>11
    <3>3. k \in Nat /\ l \in Nat /\ i \in Nat /\ j \in Nat /\ start \in Nat
      BY <1>3, <1>11
    <3>4. I + 1 = start + k /\ J + 1 = start + l
      <4>1. I = start + i /\ J = start + j
        BY <2>4
      <4>2. QED
        BY <2>5, <3>2, <3>3, <4>1
    <3>5. start + k <= Len(old) /\ start + l <= Len(current)
      BY <1>3, <3>1, <3>3
    <3>6. QED
      BY <1>3, <2>5, <3>4, <3>5
  <2>7. current[J + 1] = old[I + 1]
    <3>1. k \in 1 .. Len(was) /\ l \in 1 .. Len(now)
      BY <1>2, <1>3, <1>11
    <3>2. now[l] = current[start + l] /\ was[k] = old[start + k]
      BY <1>1, <3>1
    <3>3. QED
      BY <1>11, <2>6, <3>2
  <2>8. Scanning(s, I, J, e, current, old, E)
    BY <1>11, <2>1, <2>4
  <2>9. Scanning(t, I + 1, J + 1, e, current, old, E)
    BY <2>3, <2>5, <2>6, <2>7, <2>8, LeavingGoesOn
  <2>10. QED
    BY <1>11, <2>1, <2>4, <2>6, <2>9
<1>12. ASSUME NEW c \in C, \A b \in C : size[b] < size[c] => b \in P
       PROVE  c \in P
  <2>1. PICK i \in 0 .. m, j \in 0 .. n : c = <<i, j>>
    BY <1>2, <1>5
  <2>2. i \in Nat /\ j \in Nat
    BY <1>3
  <2>3. PICK w, o, x : w = <<i - 1, j>> /\ o = <<i, j - 1>> /\ x = <<i - 1, j - 1>>
    OBVIOUS
  <2>4. /\ i > 0 => w \in C /\ size[w] < size[c]
        /\ j > 0 => o \in C /\ size[o] < size[c]
        /\ (i > 0 /\ j > 0) => x \in C /\ size[x] < size[c]
    <3>1. /\ i > 0 => <<i - 1, j>> \in C /\ size[<<i - 1, j>>] < size[<<i, j>>]
          /\ j > 0 => <<i, j - 1>> \in C /\ size[<<i, j - 1>>] < size[<<i, j>>]
          /\ (i > 0 /\ j > 0) => <<i - 1, j - 1>> \in C /\ size[<<i - 1, j - 1>>] < size[<<i, j>>]
      BY <1>1, <1>2, GridCells
    <3> HIDE DEF C, size
    <3>2. QED
      BY <2>1, <2>3, <3>1
  <2>5. /\ i > 0 => Good(i - 1, j)
        /\ j > 0 => Good(i, j - 1)
        /\ (i > 0 /\ j > 0) => Good(i - 1, j - 1)
    <3>1. w[1] = i - 1 /\ w[2] = j /\ o[1] = i /\ o[2] = j - 1 /\ x[1] = i - 1 /\ x[2] = j - 1
      BY <2>3
    <3> HIDE DEF C, size, Good
    <3>2. QED
      BY <1>12, <2>4, <3>1
  <2>6. ops[c] = OperationsAt(ops, c, d)
    BY <1>7
  <2>7. DistanceStep(d, i, j, now, was)
    BY <1>8
  <2>8. c \in C /\ d[c] \in Nat
    BY <2>1, <2>7 DEF DistanceStep
  <2>9. /\ Removes("add") = 0 /\ Adds("add") = 1 /\ Removes("delete") = 1 /\ Adds("delete") = 0
        /\ Removes("update") = 1 /\ Adds("update") = 1
        /\ "add" \in OpNames /\ "delete" \in OpNames /\ "update" \in OpNames
    BY DEF Removes, Adds, OpNames
  <2>10. /\ i > 0 => i - 1 \in Nat /\ (i - 1) + 1 = i
         /\ j > 0 => j - 1 \in Nat /\ (j - 1) + 1 = j
         /\ i = i + 0 /\ j = j + 0
    BY <2>2
  <2>11. CASE i = 0 /\ j = 0
    <3>1. ops[<<0, 0>>] = <<>>
      BY <2>1, <2>6, <2>11 DEF OperationsAt
    <3>2. d[<<0, 0>>] = 0
      BY <2>7, <2>11 DEF DistanceStep
    <3>3. Scan(<<>>, old, start) = Scanned(start)
      <4>1. "add" \in OpNames /\ <<>> \in Seq(OpNames)
        BY DEF OpNames
      <4>2. QED
        BY <4>1, ScanAppend
    <3>4. start <= Len(current) /\ start <= Len(old)
      BY <1>1, <1>2, <1>3
    <3>5. Scanning(Scanned(start), start, start, 0, current, old, E)
      BY <3>4, ScanStarts
    <3>6. start + 0 = start
      OBVIOUS
    <3>7. Good(0, 0)
      BY <3>1, <3>2, <3>3, <3>5, <3>6
    <3>8. QED
      BY <2>1, <2>11, <3>7
  <2>12. CASE i = 0 /\ j > 0
    <3>1. ops[<<i, j>>] = Append(ops[<<i, j - 1>>], "add")
      BY <2>1, <2>6, <2>12 DEF OperationsAt
    <3>2. d[<<i, j - 1>>] \in Nat /\ d[<<i, j>>] = d[<<i, j - 1>>] + 0 + 1
      <4>1. j - 1 \in 0 .. n
        BY <1>3, <2>12
      <4>2. DistanceStep(d, i, j - 1, now, was)
        BY <1>8, <4>1
      <4>3. d[<<i, j>>] = i + j /\ d[<<i, j - 1>>] = i + (j - 1) /\ d[<<i, j - 1>>] \in Nat
        BY <2>7, <2>12, <4>2 DEF DistanceStep
      <4>4. QED
        BY <2>2, <4>3
    <3>3. Good(i, j)
      <4>1. /\ i = (i) + Removes("add") /\ j = (j - 1) + Adds("add")
            /\ d[<<i, j>>] = d[<<i, j - 1>>] + Removes("add") + Adds("add")
        BY <2>9, <2>10, <2>12, <3>2
      <4>2. i \in Nat /\ j - 1 \in Nat /\ <<i, j - 1>> \in C /\ Good(i, j - 1)
        BY <2>2, <2>3, <2>4, <2>5, <2>10, <2>12
      <4> HIDE DEF Good, C
      <4>3. QED
        BY <1>10, <2>9, <3>1, <3>2, <4>1, <4>2
    <3>4. QED
      BY <2>1, <3>3
  <2>13. CASE i > 0 /\ j = 0
    <3>1. ops[<<i, j>>] = Append(ops[<<i - 1, j>>], "delete")
      BY <2>1, <2>6, <2>13 DEF OperationsAt
    <3>2. d[<<i - 1, j>>] \in Nat /\ d[<<i, j>>] = d[<<i - 1, j>>] + 1 + 0
      <4>1. i - 1 \in 0 .. m
        BY <1>3, <2>13
      <4>2. DistanceStep(d, i - 1, j, now, was)
        BY <1>8, <4>1
      <4>3. d[<<i, j>>] = i + j /\ d[<<i - 1, j>>] = (i - 1) + j /\ d[<<i - 1, j>>] \in Nat
        BY <2>7, <2>13, <4>2 DEF DistanceStep
      <4>4. QED
        BY <2>2, <4>3
    <3>3. Good(i, j)
      <4>1. /\ i = (i - 1) + Removes("delete") /\ j = (j) + Adds("delete")
            /\ d[<<i, j>>] = d[<<i - 1, j>>] + Removes("delete") + Adds("delete")
        BY <2>9, <2>10, <2>13, <3>2
      <4>2. i - 1 \in Nat /\ j \in Nat /\ <<i - 1, j>> \in C /\ Good(i - 1, j)
        BY <2>2, <2>3, <2>4, <2>5, <2>10, <2>13
      <4> HIDE DEF Good, C
      <4>3. QED
        BY <1>10, <2>9, <3>1, <3>2, <4>1, <4>2
    <3>4. QED
      BY <2>1, <3>3
  <2>14. CASE i > 0 /\ j > 0
    <3>1. PICK dw, dn, dx, dc : dw = d[w] /\ dn = d[o] /\ dx = d[x] /\ dc = d[c]
      OBVIOUS
    <3>2. dw \in Nat /\ dn \in Nat /\ dx \in Nat /\ dc \in Nat
      BY <2>1, <2>3, <2>7, <2>14, <3>1 DEF DistanceStep
    <3>3. /\ now[j] = was[i] => dc = dx
          /\ now[j] # was[i] => dc = (IF dw <= dn THEN dw ELSE dn) + 1
      BY <2>1, <2>3, <2>7, <2>14, <3>1 DEF DistanceStep
    <3>4. Differ(dc, dw) /\ Differ(dc, dn) /\ Differ(dw, dx) /\ Differ(dn, dx)
      <4>1. i - 1 \in 0 .. m /\ j - 1 \in 0 .. n
        BY <1>3, <2>14
      <4>2. Differ(dc, dw) /\ Differ(dc, dn)
        BY <1>9, <2>1, <2>3, <2>14, <3>1
      <4>3. Differ(dw, dx)
        BY <1>9, <2>3, <2>14, <3>1, <4>1
      <4>4. Differ(dn, dx)
        BY <1>9, <2>3, <2>14, <3>1, <4>1
      <4>5. QED
        BY <4>2, <4>3, <4>4
    <3>5. Min({dw, dn}) = IF dw <= dn THEN dw ELSE dn
      BY <3>2, MinOfTwo
    <3>6. ops[c] = IF dx <= (IF dw <= dn THEN dw ELSE dn)
                   THEN Append(ops[x], IF dx = dc THEN "leave" ELSE "update")
                   ELSE IF dw <= dn THEN Append(ops[w], "delete") ELSE Append(ops[o], "add")
      <4>1. ops[c] = IF dx <= Min({dw, dn})
                     THEN Append(ops[x], IF dx = dc THEN "leave" ELSE "update")
                     ELSE IF dw <= dn THEN Append(ops[w], "delete") ELSE Append(ops[o], "add")
        BY <2>1, <2>3, <2>6, <2>14, <3>1 DEF OperationsAt
      <4>2. QED
        BY <3>5, <4>1
    <3>7. CASE dx <= (IF dw <= dn THEN dw ELSE dn) /\ dx = dc
      <4>1. now[j] = was[i]
        BY <3>2, <3>3, <3>7
      <4>2. ops[<<i, j>>] = Append(ops[<<i - 1, j - 1>>], "leave")
        BY <2>1, <2>3, <3>6, <3>7
      <4>3. d[<<i, j>>] = d[<<i - 1, j - 1>>] /\ d[<<i - 1, j - 1>>] \in Nat
        BY <2>1, <2>3, <3>1, <3>2, <3>7
      <4>4. Good(i, j)
        BY <1>11, <2>2, <2>3, <2>4, <2>5, <2>10, <2>14, <4>1, <4>2, <4>3
      <4>5. QED
        BY <2>1, <4>4
    <3>8. CASE dx <= (IF dw <= dn THEN dw ELSE dn) /\ dx # dc
      <4>1. dc = dx + 1 + 1
        BY <3>2, <3>3, <3>4, <3>8 DEF Differ
      <4>2. ops[<<i, j>>] = Append(ops[<<i - 1, j - 1>>], "update")
        BY <2>1, <2>3, <3>6, <3>8
      <4>3. d[<<i, j>>] = d[<<i - 1, j - 1>>] + 1 + 1 /\ d[<<i - 1, j - 1>>] \in Nat
        BY <2>1, <2>3, <3>1, <3>2, <4>1
      <4>4. Good(i, j)
        BY <1>10, <2>2, <2>3, <2>4, <2>5, <2>9, <2>10, <2>14, <4>2, <4>3
      <4>5. QED
        BY <2>1, <4>4
    <3>9. CASE ~(dx <= (IF dw <= dn THEN dw ELSE dn)) /\ dw <= dn
      <4>1. dc = dw + 1 + 0
        BY <3>2, <3>3, <3>4, <3>9 DEF Differ
      <4>2. ops[<<i, j>>] = Append(ops[<<i - 1, j>>], "delete")
        BY <2>1, <2>3, <3>6, <3>9
      <4>3. d[<<i, j>>] = d[<<i - 1, j>>] + 1 + 0 /\ d[<<i - 1, j>>] \in Nat
        BY <2>1, <2>3, <3>1, <3>2, <4>1
      <4>4. Good(i, j)
        BY <1>10, <2>2, <2>3, <2>4, <2>5, <2>9, <2>10, <2>14, <4>2, <4>3
      <4>5. QED
        BY <2>1, <4>4
    <3>10. CASE ~(dx <= (IF dw <= dn THEN dw ELSE dn)) /\ ~(dw <= dn)
      <4>1. dc = dn + 0 + 1
        BY <3>2, <3>3, <3>4, <3>10 DEF Differ
      <4>2. ops[<<i, j>>] = Append(ops[<<i, j - 1>>], "add")
        BY <2>1, <2>3, <3>6, <3>10
      <4>3. d[<<i, j>>] = d[<<i, j - 1>>] + 0 + 1 /\ d[<<i, j - 1>>] \in Nat
        BY <2>1, <2>3, <3>1, <3>2, <4>1
      <4>4. Good(i, j)
        BY <1>10, <2>2, <2>3, <2>4, <2>5, <2>9, <2>10, <2>14, <4>2, <4>3
      <4>5. QED
        BY <2>1, <4>4
    <3>11. QED
      BY <3>7, <3>8, <3>9, <3>10
  <2>15. QED
    BY <2>2, <2>11, <2>12, <2>13, <2>14
<1>13. size \in [C -> Nat]
  BY <1>1, GridCells
<1>14. C \subseteq P
  <2> HIDE DEF C, size, P
  <2>1. QED
    BY <1>12, <1>13, SizeInduction
<1>15. <<m, n>> \in C
  <2>1. m \in 0 .. m /\ n \in 0 .. n
    BY <1>3
  <2>2. QED
    BY <1>2, <1>6, <2>1
<1>16. Good(m, n)
  BY <1>14, <1>15
<1>17. QED
  BY <1>2, <1>4, <1>7, <1>16

-----------------------------------------------------------------------------
(* Places that grow are at least their number, and leave room for those     *)
(* that follow.                                                             *)
LEMMA IncreasingGrows ==
  ASSUME NEW k \in Nat, NEW i \in Nat, NEW f \in Increasing(k, i)
  PROVE  \A n \in 1 .. k : n <= f[n] /\ f[n] <= i - (k - n)
<1>1. f \in [1 .. k -> 1 .. i] /\ \A n, m \in 1 .. k : n < m => f[n] < f[m]
  BY DEF Increasing
<1>2. \A n \in 1 .. k : f[n] \in Nat /\ 1 <= f[n] /\ f[n] <= i
  BY <1>1
<1> DEFINE S == {n \in 0 .. k : n = 0 \/ n <= f[n]}
           T == {n \in 0 .. k : n = k \/ f[k - n] <= i - n}
<1>3. 0 \in S
  OBVIOUS
<1>4. ASSUME NEW n \in 0 .. k - 1, n \in S PROVE n + 1 \in S
  <2>1. n + 1 \in 1 .. k /\ n + 1 \in 0 .. k
    OBVIOUS
  <2>2. CASE n = 0
    <3>1. n + 1 <= f[n + 1]
      BY <1>2, <2>1, <2>2
    <3>2. QED
      BY <2>1, <3>1
  <2>3. CASE n # 0
    <3>1. n \in 1 .. k /\ n < n + 1 /\ n <= f[n]
      BY <1>4, <2>3
    <3>2. f[n] < f[n + 1] /\ f[n] \in Nat /\ f[n + 1] \in Nat
      BY <1>1, <1>2, <2>1, <3>1
    <3>3. n + 1 <= f[n + 1]
      BY <3>1, <3>2
    <3>4. QED
      BY <2>1, <3>3
  <2>4. QED
    BY <2>2, <2>3
<1>5. 0 .. k \subseteq S
  <2> HIDE DEF S
  <2>1. QED
    BY <1>3, <1>4, BoundedInduction
<1>6. 0 \in T
  <2>1. CASE k = 0
    BY <2>1
  <2>2. CASE k # 0
    <3>1. k \in 1 .. k /\ k - 0 = k /\ i - 0 = i
      BY <2>2
    <3>2. f[k] <= i
      BY <1>2, <3>1
    <3>3. f[k - 0] <= i - 0
      BY <3>1, <3>2
    <3>4. QED
      BY <3>3
  <2>3. QED
    BY <2>1, <2>2
<1>7. ASSUME NEW n \in 0 .. k - 1, n \in T PROVE n + 1 \in T
  <2>1. n # k /\ f[k - n] <= i - n /\ n + 1 \in 0 .. k
    BY <1>7
  <2>2. CASE n + 1 = k
    BY <2>1, <2>2
  <2>3. CASE n + 1 # k
    <3>1. k - n \in 1 .. k /\ k - (n + 1) \in 1 .. k /\ k - (n + 1) < k - n
      BY <2>3
    <3>2. f[k - (n + 1)] < f[k - n] /\ f[k - (n + 1)] \in Nat /\ f[k - n] \in Nat
      BY <1>1, <1>2, <3>1
    <3>3. f[k - (n + 1)] <= i - (n + 1)
      BY <2>1, <3>2
    <3>4. QED
      BY <2>1, <3>3
  <2>4. QED
    BY <2>2, <2>3
<1>8. 0 .. k \subseteq T
  <2> HIDE DEF T
  <2>1. QED
    BY <1>6, <1>7, BoundedInduction
<1>9. ASSUME NEW n \in 1 .. k PROVE n <= f[n] /\ f[n] <= i - (k - n)
  <2>1. n \in 0 .. k /\ n # 0 /\ k - n \in 0 .. k /\ k - n # k /\ k - (k - n) = n
    OBVIOUS
  <2>2. n <= f[n]
    BY <1>5, <2>1
  <2>3. f[k - (k - n)] <= i - (k - n)
    BY <1>8, <2>1
  <2>4. QED
    BY <2>1, <2>2, <2>3
<1>10. QED
  BY <1>9

(* What arrays have in common of their middles and of themselves, if they   *)
(* share so many elements at the start and at the end.                      *)
LEMMA CommonMiddle ==
  ASSUME NEW current, NEW old, NEW now, NEW was, NEW p \in Nat, NEW q \in Nat,
         NEW m \in Nat, NEW n \in Nat, NEW K \in Nat, p + q <= K,
         \A k \in 1 .. n : now[k] = current[p + k], \A k \in 1 .. m : was[k] = old[p + k],
         NEW M, NEW N, M = p + m + q, N = p + n + q, CommonTo(M, N, K, current, old)
  PROVE  CommonTo(m, n, K - p - q, now, was)
<1>1. PICK f, g : Places(f, g, M, N, K, current, old)
  BY DEF CommonTo
<1>2. PICK k : k = K - p - q
  OBVIOUS
<1>3. k \in Nat /\ K = p + k + q
  BY <1>2
<1> DEFINE Shift(h) == [r \in 1 .. k |-> h[p + r] - p]
           IsShift(h, hh, l) == /\ hh \in Increasing(k, l)
                                /\ \A r \in 1 .. k : p + r \in 1 .. K /\ h[p + r] = p + hh[r]
<1>4. ASSUME NEW l \in Nat, NEW L, L = p + l + q, NEW h \in Increasing(K, L)
      PROVE  IsShift(h, Shift(h), l)
  <2>0. PICK hh : hh = [r \in 1 .. k |-> h[p + r] - p]
    OBVIOUS
  <2>1. \A r \in 1 .. k : p + r \in 1 .. K
    BY <1>3
  <2>2. /\ \A r \in 1 .. K : h[r] \in 1 .. p + l + q
        /\ \A r, s \in 1 .. K : r < s => h[r] < h[s]
    BY <1>4 DEF Increasing
  <2>3. \A r \in 1 .. K : r <= h[r] /\ h[r] <= p + l + q - (K - r)
    <3>1. p + l + q \in Nat
      OBVIOUS
    <3>2. QED
      BY <1>4, <3>1, IncreasingGrows
  <2>4. ASSUME NEW r \in 1 .. k PROVE hh[r] \in 1 .. l /\ h[p + r] = p + hh[r]
    <3>1. PICK v : v = h[p + r]
      OBVIOUS
    <3>2. v \in 1 .. p + l + q /\ p + r <= v /\ v <= p + l + q - (K - (p + r))
      BY <2>1, <2>2, <2>3, <3>1
    <3>3. v - p \in 1 .. l /\ v = p + (v - p)
      BY <1>3, <3>2
    <3>4. QED
      BY <2>0, <3>1, <3>3
  <2>5. ASSUME NEW r \in 1 .. k, NEW s \in 1 .. k, r < s PROVE hh[r] < hh[s]
    <3>1. p + r < p + s
      BY <2>5
    <3>2. h[p + r] < h[p + s]
      BY <2>1, <2>2, <3>1
    <3>3. QED
      BY <2>4, <3>2
  <2>6. hh \in [1 .. k -> 1 .. l]
    BY <2>0, <2>4
  <2>7. QED
    BY <2>0, <2>1, <2>4, <2>5, <2>6 DEF Increasing
<1>5. PICK ff, gg : ff = Shift(f) /\ gg = Shift(g)
  OBVIOUS
<1>6. /\ f \in Increasing(K, M) /\ g \in Increasing(K, N)
      /\ \A r \in 1 .. K : old[f[r]] = current[g[r]]
  BY <1>1 DEF Places
<1>7. ff \in Increasing(k, m) /\ \A r \in 1 .. k : p + r \in 1 .. K /\ f[p + r] = p + ff[r]
  <2>2. IsShift(f, ff, m)
    <3> HIDE DEF Shift, IsShift
    <3>1. QED
      BY <1>4, <1>5, <1>6
  <2>3. QED
    BY <2>2
<1>8. gg \in Increasing(k, n) /\ \A r \in 1 .. k : p + r \in 1 .. K /\ g[p + r] = p + gg[r]
  <2>2. IsShift(g, gg, n)
    <3> HIDE DEF Shift, IsShift
    <3>1. QED
      BY <1>4, <1>5, <1>6
  <2>3. QED
    BY <2>2
<1>9. ASSUME NEW r \in 1 .. k PROVE was[ff[r]] = now[gg[r]]
  <2>1. ff[r] \in 1 .. m /\ gg[r] \in 1 .. n
    BY <1>7, <1>8 DEF Increasing
  <2>2. was[ff[r]] = old[f[p + r]] /\ now[gg[r]] = current[g[p + r]]
    BY <1>7, <1>8, <2>1
  <2>3. QED
    BY <1>6, <1>7, <2>2
<1>10. Places(ff, gg, m, n, k, now, was)
  BY <1>7, <1>8, <1>9 DEF Places
<1>11. QED
  BY <1>2, <1>10 DEF CommonTo

(* What the middles have in common, with the ends, is common to all.        *)
LEMMA CommonWhole ==
  ASSUME NEW current, NEW old, NEW now, NEW was, NEW p \in Nat, NEW q \in Nat,
         NEW m \in Nat, NEW n \in Nat, NEW k \in Nat,
         \A r \in 1 .. n : now[r] = current[p + r], \A r \in 1 .. m : was[r] = old[p + r],
         \A r \in 1 .. p : current[r] = old[r],
         \A r \in 1 .. q : current[p + n + r] = old[p + m + r],
         CommonTo(m, n, k, now, was)
  PROVE  CommonTo(p + m + q, p + n + q, p + k + q, current, old)
<1>1. PICK f, g : Places(f, g, m, n, k, now, was)
  BY DEF CommonTo
<1>2. PICK K : K = p + k + q
  OBVIOUS
<1>3. K \in Nat
  BY <1>2
<1>4. ASSUME NEW r \in 1 .. K
      PROVE  \/ r \in 1 .. p
             \/ r - p \in 1 .. k /\ r = p + (r - p) /\ ~(r <= p) /\ r <= p + k
             \/ r - p - k \in 1 .. q /\ r = p + k + (r - p - k) /\ ~(r <= p) /\ ~(r <= p + k)
  BY <1>2, <1>3
<1> DEFINE Extend(h, l) == [r \in 1 .. K |-> IF r <= p THEN r ELSE IF r <= p + k THEN p + h[r - p]
                                              ELSE p + l + (r - p - k)]
           IsExtended(h, hh, l, L) ==
               /\ hh \in Increasing(K, L)
               /\ \A r \in 1 .. K : hh[r] = IF r <= p THEN r ELSE IF r <= p + k THEN p + h[r - p]
                                            ELSE p + l + (r - p - k)
<1>5. ASSUME NEW l \in Nat, NEW L, L = p + l + q, NEW h \in Increasing(k, l)
      PROVE  IsExtended(h, Extend(h, l), l, L)
  <2>1. PICK hh : hh = Extend(h, l)
    OBVIOUS
  <2>2. \A r \in 1 .. K : hh[r] = IF r <= p THEN r ELSE IF r <= p + k THEN p + h[r - p]
                                  ELSE p + l + (r - p - k)
    BY <2>1
  <2>3. /\ \A r \in 1 .. k : h[r] \in 1 .. l
        /\ \A r, s \in 1 .. k : r < s => h[r] < h[s]
    BY DEF Increasing
  <2>4. ASSUME NEW r \in 1 .. K PROVE hh[r] \in 1 .. L
    <3>1. CASE r \in 1 .. p
      BY <1>5, <2>2, <3>1
    <3>2. CASE r - p \in 1 .. k /\ r = p + (r - p) /\ ~(r <= p) /\ r <= p + k
      <4>1. hh[r] = p + h[r - p] /\ h[r - p] \in 1 .. l
        BY <2>2, <2>3, <3>2
      <4>2. QED
        BY <1>5, <4>1
    <3>3. CASE r - p - k \in 1 .. q /\ r = p + k + (r - p - k) /\ ~(r <= p) /\ ~(r <= p + k)
      BY <1>5, <2>2, <3>3
    <3>4. QED
      BY <1>4, <3>1, <3>2, <3>3
  <2>5. ASSUME NEW r \in 1 .. K, NEW s \in 1 .. K, r < s PROVE hh[r] < hh[s]
    <3>1. /\ hh[r] = IF r <= p THEN r ELSE IF r <= p + k THEN p + h[r - p] ELSE p + l + (r - p - k)
          /\ hh[s] = IF s <= p THEN s ELSE IF s <= p + k THEN p + h[s - p] ELSE p + l + (s - p - k)
      BY <2>2
    <3>2. CASE s <= p
      BY <2>5, <3>1, <3>2
    <3>3. CASE ~(s <= p) /\ s <= p + k
      <4>1. s - p \in 1 .. k
        BY <3>3
      <4>2. h[s - p] \in Nat /\ h[s - p] >= 1
        BY <2>3, <4>1
      <4>3. CASE r <= p
        BY <3>1, <3>3, <4>2, <4>3
      <4>4. CASE ~(r <= p)
        <5>1. r - p \in 1 .. k /\ r - p < s - p /\ r <= p + k
          BY <2>5, <3>3, <4>4
        <5>2. h[r - p] < h[s - p] /\ h[r - p] \in Nat
          BY <2>3, <4>1, <5>1
        <5>3. QED
          BY <3>1, <3>3, <4>2, <4>4, <5>1, <5>2
      <4>5. QED
        BY <4>3, <4>4
    <3>4. CASE ~(s <= p) /\ ~(s <= p + k)
      <4>1. hh[s] = p + l + (s - p - k) /\ s - p - k >= 1
        BY <3>1, <3>4
      <4>2. CASE r <= p
        BY <3>1, <4>1, <4>2
      <4>3. CASE ~(r <= p) /\ r <= p + k
        <5>1. r - p \in 1 .. k
          BY <4>3
        <5>2. h[r - p] \in Nat /\ h[r - p] <= l
          BY <2>3, <5>1
        <5>3. QED
          BY <3>1, <4>1, <4>3, <5>2
      <4>4. CASE ~(r <= p) /\ ~(r <= p + k)
        BY <2>5, <3>1, <4>1, <4>4
      <4>5. QED
        BY <4>2, <4>3, <4>4
    <3>5. QED
      BY <3>2, <3>3, <3>4
  <2>6. hh \in [1 .. K -> 1 .. L]
    BY <2>1, <2>4
  <2>7. QED
    BY <2>1, <2>2, <2>5, <2>6 DEF Increasing
<1>6. PICK ff, gg, M, N : ff = Extend(f, m) /\ gg = Extend(g, n) /\ M = p + m + q /\ N = p + n + q
  OBVIOUS
<1>7. /\ f \in Increasing(k, m) /\ g \in Increasing(k, n)
      /\ \A r \in 1 .. k : was[f[r]] = now[g[r]]
  BY <1>1 DEF Places
<1>8. IsExtended(f, ff, m, M) /\ IsExtended(g, gg, n, N)
  <2> HIDE DEF Extend, IsExtended
  <2>1. QED
    BY <1>5, <1>6, <1>7
<1>9. ASSUME NEW r \in 1 .. K PROVE old[ff[r]] = current[gg[r]]
  <2>1. /\ ff[r] = IF r <= p THEN r ELSE IF r <= p + k THEN p + f[r - p] ELSE p + m + (r - p - k)
        /\ gg[r] = IF r <= p THEN r ELSE IF r <= p + k THEN p + g[r - p] ELSE p + n + (r - p - k)
    BY <1>8
  <2>2. CASE r \in 1 .. p
    BY <2>1, <2>2
  <2>3. CASE r - p \in 1 .. k /\ r = p + (r - p) /\ ~(r <= p) /\ r <= p + k
    <3>1. ff[r] = p + f[r - p] /\ gg[r] = p + g[r - p]
      BY <2>1, <2>3
    <3>2. f[r - p] \in 1 .. m /\ g[r - p] \in 1 .. n
      BY <1>7, <2>3 DEF Increasing
    <3>3. was[f[r - p]] = old[p + f[r - p]] /\ now[g[r - p]] = current[p + g[r - p]]
      BY <3>2
    <3>4. QED
      BY <1>7, <2>3, <3>1, <3>3
  <2>4. CASE r - p - k \in 1 .. q /\ r = p + k + (r - p - k) /\ ~(r <= p) /\ ~(r <= p + k)
    <3>1. ff[r] = p + m + (r - p - k) /\ gg[r] = p + n + (r - p - k)
      BY <2>1, <2>4
    <3>2. current[p + n + (r - p - k)] = old[p + m + (r - p - k)]
      BY <2>4
    <3>3. QED
      BY <3>1, <3>2
  <2>5. QED
    BY <1>4, <2>2, <2>3, <2>4
<1>10. Places(ff, gg, M, N, K, current, old)
  BY <1>8, <1>9 DEF Places
<1>11. QED
  BY <1>2, <1>6, <1>10 DEF CommonTo

(* What two arrays share at their start and at their end.                   *)
Ends(p, q, current, old) ==
    /\ p \in Nat /\ q \in Nat /\ p + q <= Len(current) /\ p + q <= Len(old)
    /\ \A k \in 1 .. p : current[k] = old[k]
    /\ \A k \in 1 .. q : current[Len(current) - q + k] = old[Len(old) - q + k]

(* cloud-dashboard.js:14005-14010: sharedPrefix counts elements that are    *)
(* the same.                                                                *)
LEMMA PrefixIsShared ==
  ASSUME NEW E, NEW current \in Seq(E), NEW old \in Seq(E), NEW length \in Nat,
         length <= Len(current), length <= Len(old)
  PROVE  LET p == SharedPrefix(current, old, length)
         IN  p \in 0 .. length /\ \A k \in 1 .. p : current[k] = old[k]
<1> DEFINE S == {n \in 0 .. length : SubSeq(current, 1, n) = SubSeq(old, 1, n)}
<1>1. PICK p : p = SharedPrefix(current, old, length)
  OBVIOUS
<1>2. SubSeq(current, 1, 0) = <<>> /\ SubSeq(old, 1, 0) = <<>>
  BY SubSeqEmpty
<1>3. 0 \in S
  BY <1>2
<1>4. S \in SUBSET (0 .. length) /\ S # {}
  BY <1>3
<1>5. p = Max(S)
  BY <1>1 DEF SharedPrefix
<1>6. p \in S
  <2> HIDE DEF S
  <2>1. QED
    BY <1>4, <1>5, MaxOfBounded
<1>7. p \in 0 .. length /\ SubSeq(current, 1, p) = SubSeq(old, 1, p)
  BY <1>6
<1>8. IsPart(SubSeq(current, 0 + 1, p), current, 0, p, E) /\ IsPart(SubSeq(old, 0 + 1, p), old, 0, p, E)
  <2>1. p \in Nat /\ 0 \in Nat /\ 0 <= p /\ p <= Len(current) /\ p <= Len(old)
    <3>1. Len(current) \in Nat /\ Len(old) \in Nat
      BY LenProperties
    <3>2. QED
      BY <1>7, <3>1
  <2>2. QED
    BY <2>1, PartIs
<1>9. ASSUME NEW k \in 1 .. p PROVE current[k] = old[k]
  <2>1. k \in 1 .. p - 0 /\ 0 + k = k /\ 0 + 1 = 1
    BY <1>7
  <2>2. SubSeq(current, 1, p)[k] = current[k] /\ SubSeq(old, 1, p)[k] = old[k]
    BY <1>8, <2>1 DEF IsPart
  <2>3. QED
    BY <1>7, <2>2
<1>10. QED
  BY <1>1, <1>7, <1>9

(* The reverse of an array, by its elements.                                *)
LEMMA ReverseIs ==
  ASSUME NEW E, NEW s \in Seq(E)
  PROVE  /\ Reverse(s) \in Seq(E) /\ Len(Reverse(s)) = Len(s)
         /\ \A i \in 1 .. Len(s) : Reverse(s)[i] = s[Len(s) - i + 1]
<1>1. Len(s) \in Nat
  BY LenProperties
<1>2. \A i \in 1 .. Len(s) : Len(s) - i + 1 \in 1 .. Len(s)
  BY <1>1
<1>3. \A i \in 1 .. Len(s) : s[Len(s) - i + 1] \in E
  BY <1>2, ElementOfSeq
<1>4. PICK r : r = [i \in 1 .. Len(s) |-> s[Len(s) - i + 1]]
  OBVIOUS
<1>5. r \in [1 .. Len(s) -> E]
  BY <1>3, <1>4
<1>6. r \in Seq(E) /\ Len(r) = Len(s)
  BY <1>1, <1>5
<1>7. QED
  BY <1>4, <1>6 DEF Reverse

(* cloud-dashboard.js:13929-13934: what is shared at the start and at the   *)
(* end does not overlap.                                                    *)
LEMMA EndsAreShared ==
  ASSUME NEW E, NEW current \in Seq(E), NEW old \in Seq(E)
  PROVE  Ends(SharedLengths(current, old).prefix, SharedLengths(current, old).suffix, current, old)
<1>1. Len(current) \in Nat /\ Len(old) \in Nat
  BY LenProperties
<1>2. PICK shortest : shortest = Min({Len(current), Len(old)})
  OBVIOUS
<1>3. shortest \in Nat /\ shortest <= Len(current) /\ shortest <= Len(old)
  BY <1>1, <1>2, MinOfTwo
<1>4. PICK p : p = SharedPrefix(current, old, shortest)
  OBVIOUS
<1>5. p \in 0 .. shortest /\ \A k \in 1 .. p : current[k] = old[k]
  BY <1>3, <1>4, PrefixIsShared
<1>6. PICK q, c, o : q = SharedPrefix(c, o, shortest - p) /\ c = Reverse(current) /\ o = Reverse(old)
  OBVIOUS
<1>7. /\ c \in Seq(E) /\ Len(c) = Len(current) /\ o \in Seq(E) /\ Len(o) = Len(old)
      /\ \A i \in 1 .. Len(current) : c[i] = current[Len(current) - i + 1]
      /\ \A i \in 1 .. Len(old) : o[i] = old[Len(old) - i + 1]
  BY <1>6, ReverseIs
<1>8. q \in 0 .. shortest - p /\ \A k \in 1 .. q : c[k] = o[k]
  <2>1. shortest - p \in Nat /\ shortest - p <= Len(c) /\ shortest - p <= Len(o)
    BY <1>1, <1>3, <1>5, <1>7
  <2>2. PICK l : l = shortest - p
    OBVIOUS
  <2>3. q \in 0 .. l /\ \A k \in 1 .. q : c[k] = o[k]
    <3>1. q = SharedPrefix(c, o, l) /\ l \in Nat /\ l <= Len(c) /\ l <= Len(o)
      BY <1>6, <2>1, <2>2
    <3>2. c \in Seq(E) /\ o \in Seq(E)
      BY <1>7
    <3>3. QED
      BY <3>1, <3>2, PrefixIsShared
  <2>4. QED
    BY <2>2, <2>3
<1>9. SharedLengths(current, old).prefix = p /\ SharedLengths(current, old).suffix = q
  BY <1>2, <1>4, <1>6 DEF SharedLengths, SharedSuffix
<1>10. ASSUME NEW k \in 1 .. q PROVE current[Len(current) - q + k] = old[Len(old) - q + k]
  <2>1. PICK r : r = q - k + 1
    OBVIOUS
  <2>2. /\ r \in 1 .. q /\ r \in 1 .. Len(current) /\ r \in 1 .. Len(old)
        /\ Len(current) - r + 1 = Len(current) - q + k /\ Len(old) - r + 1 = Len(old) - q + k
    BY <1>1, <1>3, <1>5, <1>8, <2>1
  <2>3. QED
    BY <1>7, <1>8, <2>2
<1>11. p + q <= Len(current) /\ p + q <= Len(old) /\ p \in Nat /\ q \in Nat
  BY <1>1, <1>3, <1>5, <1>8
<1>12. QED
  BY <1>5, <1>9, <1>10, <1>11 DEF Ends

(* The splices lead to where the ends that are shared begin.                *)
LEMMA CalculatedLead ==
  ASSUME NEW E, NEW current \in Seq(E), NEW old \in Seq(E)
  PROVE  LET shared == SharedLengths(current, old)
             now == SubSeq(current, shared.prefix + 1, Len(current) - shared.suffix)
             was == SubSeq(old, shared.prefix + 1, Len(old) - shared.suffix)
         IN  /\ IsPart(now, current, shared.prefix, Len(current) - shared.suffix, E)
             /\ IsPart(was, old, shared.prefix, Len(old) - shared.suffix, E)
             /\ Leads(CalculateSplices(current, old), current, old,
                      Len(current) - shared.suffix, Len(old) - shared.suffix,
                      EditDistances(now, was)[<<Len(was), Len(now)>>], E)
<1>1. PICK p, q : p = SharedLengths(current, old).prefix /\ q = SharedLengths(current, old).suffix
  OBVIOUS
<1>2. Ends(p, q, current, old)
  BY <1>1, EndsAreShared
<1>3. Len(current) \in Nat /\ Len(old) \in Nat
  BY LenProperties
<1>4. PICK x, y : x = Len(current) - q /\ y = Len(old) - q
  OBVIOUS
<1>5. /\ p \in Nat /\ q \in Nat /\ x \in Nat /\ y \in Nat /\ p <= x /\ p <= y
      /\ x <= Len(current) /\ y <= Len(old) /\ \A k \in 1 .. p : current[k] = old[k]
      /\ p <= Len(current) /\ p <= Len(old)
  BY <1>2, <1>3, <1>4 DEF Ends
<1>6. PICK now, was : now = SubSeq(current, p + 1, x) /\ was = SubSeq(old, p + 1, y)
  OBVIOUS
<1>7. IsPart(now, current, p, x, E) /\ IsPart(was, old, p, y, E)
  BY <1>5, <1>6, PartIs
<1>8. /\ now \in Seq(E) /\ Len(now) = x - p /\ \A k \in 1 .. x - p : now[k] = current[p + k]
      /\ was \in Seq(E) /\ Len(was) = y - p /\ \A k \in 1 .. y - p : was[k] = old[p + k]
  BY <1>7 DEF IsPart
<1>9. PICK m, n, e : m = Len(was) /\ n = Len(now) /\ e = EditDistances(now, was)[<<m, n>>]
  OBVIOUS
<1>10. m \in Nat /\ n \in Nat /\ m = y - p /\ n = x - p /\ p + n = x /\ p + m = y
  BY <1>5, <1>8, <1>9
<1>11. PICK T : T = CalculateSplices(current, old)
  OBVIOUS
<1>12. T = IF now = <<>> /\ was = <<>> THEN <<>>
           ELSE IF now = <<>> \/ was = <<>> THEN <<NewSplice(p, was, Len(now))>>
           ELSE SplicesOf(SpliceOperations(now, was), old, p)
  BY <1>1, <1>4, <1>6, <1>11 DEF CalculateSplices
<1>13. (now = <<>> <=> n = 0) /\ (was = <<>> <=> m = 0)
  BY <1>8, <1>9, EmptySeq
<1>14. DistanceStep(EditDistances(now, was), m, n, now, was)
  <2>1. m \in 0 .. Len(was) /\ n \in 0 .. Len(now)
    BY <1>9, <1>10
  <2>2. QED
    BY <1>8, <2>1, DistanceSteps
<1>15. e \in Nat /\ (m = 0 \/ n = 0 => e = m + n)
  BY <1>9, <1>14 DEF DistanceStep
<1>16. Leads(<<>>, current, old, p, p, 0, E)
  BY <1>5, LeadsStart
<1>17. CASE m = 0 /\ n = 0
  <2>1. T = <<>> /\ x = p /\ y = p /\ e = 0
    BY <1>5, <1>10, <1>12, <1>13, <1>15, <1>17
  <2>2. Leads(T, current, old, x, y, e, E)
    BY <1>16, <2>1
  <2>3. QED
    BY <1>1, <1>4, <1>6, <1>7, <1>9, <1>11, <2>2
<1>18. CASE (m = 0 \/ n = 0) /\ ~(m = 0 /\ n = 0)
  <2>1. PICK s : s = NewSplice(p, SubSeq(old, p + 1, y), x - p)
    OBVIOUS
  <2>2. T = <<s>>
    BY <1>6, <1>9, <1>10, <1>12, <1>13, <1>18, <2>1
  <2>3. T = Append(<<>>, s)
    BY <2>2
  <2>4. 0 \in Nat /\ e = 0 + (y - p) + (x - p)
    BY <1>5, <1>10, <1>15, <1>18
  <2>5. Leads(Append(<<>>, s), current, old, x, y, 0 + (y - p) + (x - p), E)
    BY <1>5, <1>16, <2>1, LeadsOn
  <2>6. Leads(T, current, old, x, y, e, E)
    BY <2>3, <2>4, <2>5
  <2>7. QED
    BY <1>1, <1>4, <1>6, <1>7, <1>9, <1>11, <2>6
<1>19. CASE m # 0 /\ n # 0
  <2>1. PICK s : s = Scan(SpliceOperations(now, was), old, p)
    OBVIOUS
  <2>2. T = Closed(s)
    BY <1>12, <1>13, <1>19, <2>1 DEF SplicesOf
  <2>3. Middle(now, current, p, E) /\ Middle(was, old, p, E)
    BY <1>5, <1>8, <1>9, <1>10 DEF Middle
  <2>4. Scanning(s, p + Len(was), p + Len(now), EditDistances(now, was)[<<Len(was), Len(now)>>],
                 current, old, E)
    BY <1>5, <2>1, <2>3, WaysAreScanned
  <2>5. Scanning(s, y, x, e, current, old, E)
    BY <1>9, <1>10, <2>4
  <2>6. Leads(T, current, old, x, y, e, E)
    BY <1>5, <2>2, <2>5, ClosedLeads
  <2>7. QED
    BY <1>1, <1>4, <1>6, <1>7, <1>9, <1>11, <2>6
<1>20. QED
  BY <1>17, <1>18, <1>19

(* If the rest is shared there is nothing left of the old array.            *)
LEMMA MixedToTheEnd ==
  ASSUME NEW E, NEW current \in Seq(E), NEW old \in Seq(E), NEW p, NEW q, Ends(p, q, current, old)
  PROVE  Mixed(current, Len(current) - q, old, Len(old) - q) = current
<1>1. Len(current) \in Nat /\ Len(old) \in Nat
  BY LenProperties
<1>2. PICK x, y, M : x = Len(current) - q /\ y = Len(old) - q /\ M = Mixed(current, x, old, y)
  OBVIOUS
<1>3. /\ x \in Nat /\ y \in Nat /\ x <= Len(current) /\ y <= Len(old) /\ q \in Nat
      /\ \A k \in 1 .. q : current[x + k] = old[y + k]
  BY <1>1, <1>2 DEF Ends
<1>4. IsMixed(M, current, x, old, y, E)
  BY <1>2, <1>3, MixedIs
<1>5. x + Len(old) - y = Len(current)
  BY <1>1, <1>2, <1>3
<1>6. /\ M \in Seq(E) /\ Len(M) = Len(current)
      /\ \A k \in 1 .. Len(current) : M[k] = IF k <= x THEN current[k] ELSE old[y + k - x]
  BY <1>4, <1>5 DEF IsMixed
<1>7. ASSUME NEW k \in 1 .. Len(current) PROVE M[k] = current[k]
  <2>1. CASE k <= x
    BY <1>6, <2>1
  <2>2. CASE ~(k <= x)
    <3>1. k - x \in 1 .. q /\ x + (k - x) = k /\ y + (k - x) = y + k - x
      BY <1>1, <1>2, <1>3, <2>2
    <3>2. current[x + (k - x)] = old[y + (k - x)]
      BY <1>3, <3>1
    <3>3. QED
      BY <1>6, <2>2, <3>1, <3>2
  <2>3. QED
    BY <2>1, <2>2
<1>8. QED
  BY <1>2, <1>6, <1>7, SeqEqual

(* A common part, as the property says it and as it is said here.           *)
LEMMA CommonIs ==
  ASSUME NEW a, NEW b, NEW k
  PROVE  Common(a, b, k) <=> CommonTo(Len(b), Len(a), k, a, b)
<1>1. ASSUME Common(a, b, k) PROVE CommonTo(Len(b), Len(a), k, a, b)
  <2>1. PICK f \in Increasing(k, Len(a)), g \in Increasing(k, Len(b)) : \A n \in 1 .. k : a[f[n]] = b[g[n]]
    BY <1>1 DEF Common
  <2>2. Places(g, f, Len(b), Len(a), k, a, b)
    BY <2>1 DEF Places
  <2>3. QED
    BY <2>2 DEF CommonTo
<1>2. ASSUME CommonTo(Len(b), Len(a), k, a, b) PROVE Common(a, b, k)
  <2>1. PICK f, g : Places(f, g, Len(b), Len(a), k, a, b)
    BY <1>2 DEF CommonTo
  <2>2. f \in Increasing(k, Len(b)) /\ g \in Increasing(k, Len(a)) /\ \A n \in 1 .. k : a[g[n]] = b[f[n]]
    BY <2>1 DEF Places
  <2>3. QED
    BY <2>2 DEF Common
<1>3. QED
  BY <1>1, <1>2

(* It is no longer than either array.                                       *)
LEMMA CommonIsNoLonger ==
  ASSUME NEW current, NEW old, NEW i \in Nat, NEW j \in Nat, NEW k \in Nat,
         CommonTo(i, j, k, current, old)
  PROVE  k <= i /\ k <= j
<1>1. PICK f, g : Places(f, g, i, j, k, current, old)
  BY DEF CommonTo
<1>2. f \in Increasing(k, i) /\ g \in Increasing(k, j)
  BY <1>1 DEF Places
<1>3. CASE k = 0
  BY <1>3
<1>4. CASE k # 0
  <2>1. k \in 1 .. k
    BY <1>4
  <2>2. f[k] \in 1 .. i /\ g[k] \in 1 .. j
    BY <1>2, <2>1 DEF Increasing
  <2>3. k <= f[k] /\ k <= g[k]
    BY <1>2, <2>1, IncreasingGrows
  <2>4. QED
    BY <2>2, <2>3
<1>5. QED
  BY <1>3, <1>4

(* The edits between the middles are all that the longest common part of    *)
(* the whole arrays leaves.                                                 *)
LEMMA MiddleIsAll ==
  ASSUME NEW E, NEW current \in Seq(E), NEW old \in Seq(E), NEW p, NEW q, Ends(p, q, current, old),
         NEW now, NEW was, IsPart(now, current, p, Len(current) - q, E), IsPart(was, old, p, Len(old) - q, E)
  PROVE  EditDistances(now, was)[<<Len(was), Len(now)>>]
            = Len(current) + Len(old) - 2 * LongestCommon(current, old)
<1>1. Len(current) \in Nat /\ Len(old) \in Nat
  BY LenProperties
<1>2. PICK m, n : m = Len(was) /\ n = Len(now)
  OBVIOUS
<1>3. /\ p \in Nat /\ q \in Nat /\ p + q <= Len(current) /\ p + q <= Len(old)
      /\ \A k \in 1 .. p : current[k] = old[k]
      /\ \A k \in 1 .. q : current[Len(current) - q + k] = old[Len(old) - q + k]
  BY DEF Ends
<1>4. /\ now \in Seq(E) /\ n = Len(current) - q - p
      /\ \A k \in 1 .. Len(current) - q - p : now[k] = current[p + k]
      /\ was \in Seq(E) /\ m = Len(old) - q - p
      /\ \A k \in 1 .. Len(old) - q - p : was[k] = old[p + k]
  BY <1>2 DEF IsPart
<1>5. /\ m \in Nat /\ n \in Nat /\ p + m + q = Len(old) /\ p + n + q = Len(current)
      /\ p + m = Len(old) - q /\ p + n = Len(current) - q
  BY <1>1, <1>3, <1>4
<1>6. PICK e : e = EditDistances(now, was)[<<m, n>>]
  OBVIOUS
<1>7. /\ \E k \in Nat : CommonTo(m, n, k, now, was) /\ e = m + n - 2 * k
      /\ \A k \in Nat : CommonTo(m, n, k, now, was) => e <= m + n - 2 * k
  <2>1. m \in 0 .. Len(was) /\ n \in 0 .. Len(now)
    BY <1>2, <1>5
  <2>2. IsShortest(EditDistances(now, was), m, n, now, was)
    BY <1>4, <2>1, DistanceIsShortest
  <2>3. QED
    BY <1>6, <2>2 DEF IsShortest
<1>8. PICK k \in Nat : CommonTo(m, n, k, now, was) /\ e = m + n - 2 * k
  BY <1>7
<1>9. PICK K : K = p + k + q
  OBVIOUS
<1>10. /\ \A r \in 1 .. n : now[r] = current[p + r]
       /\ \A r \in 1 .. m : was[r] = old[p + r]
       /\ \A r \in 1 .. q : current[p + n + r] = old[p + m + r]
  BY <1>3, <1>4, <1>5
<1>11. CommonTo(Len(old), Len(current), K, current, old) /\ K \in Nat
  <2>1. CommonTo(p + m + q, p + n + q, p + k + q, current, old)
    BY <1>3, <1>5, <1>8, <1>10, CommonWhole
  <2>2. QED
    BY <1>3, <1>5, <1>9, <2>1
<1>12. Common(current, old, K) /\ K \in 0 .. Len(current)
  <2>1. K <= Len(current)
    BY <1>1, <1>11, CommonIsNoLonger
  <2>2. QED
    BY <1>1, <1>11, <2>1, CommonIs
<1>13. ASSUME NEW l \in 0 .. Len(current), Common(current, old, l) PROVE l <= K
  <2>1. CASE l < p + q
    BY <1>3, <1>9, <2>1
  <2>2. CASE p + q <= l
    <3>1. l \in Nat /\ CommonTo(Len(old), Len(current), l, current, old)
      BY <1>1, <1>13, CommonIs
    <3>2. CommonTo(m, n, l - p - q, now, was)
      <4>1. Len(old) = p + m + q /\ Len(current) = p + n + q
        BY <1>5
      <4>2. QED
        BY <1>3, <1>5, <1>10, <2>2, <3>1, <4>1, CommonMiddle
    <3>3. PICK r : r = l - p - q
      OBVIOUS
    <3>4. r \in Nat
      BY <1>3, <2>2, <3>3
    <3>5. e <= m + n - 2 * r
      BY <1>7, <3>2, <3>3, <3>4
    <3>6. r <= k
      BY <1>5, <1>8, <3>4, <3>5
    <3>7. QED
      BY <1>3, <1>9, <3>3, <3>4, <3>6
  <2>3. QED
    BY <1>3, <2>1, <2>2
<1> DEFINE S == {l \in 0 .. Len(current) : Common(current, old, l)}
<1>14. LongestCommon(current, old) = Max(S)
  BY DEF LongestCommon
<1>15. K \in S /\ \A l \in S : l <= K
  BY <1>12, <1>13
<1>16. Max(S) = K
  <2>1. S \in SUBSET (0 .. Len(current)) /\ S # {}
    BY <1>15
  <2>2. Max(S) \in S /\ Max(S) \in 0 .. Len(current) /\ \A l \in S : l <= Max(S)
    <3> HIDE DEF S
    <3>1. QED
      BY <1>1, <2>1, MaxOfBounded
  <2>3. Max(S) <= K /\ K <= Max(S)
    BY <1>15, <2>2
  <2>4. QED
    BY <1>11, <2>2, <2>3
<1>17. e = Len(current) + Len(old) - 2 * K
  BY <1>1, <1>3, <1>5, <1>8, <1>9
<1>18. QED
  BY <1>2, <1>6, <1>14, <1>16, <1>17

-----------------------------------------------------------------------------
(* cloud-dashboard.js:13797-14025: whatever two arrays hold and however     *)
(* long they are, the splices that calculateSplices finds, made one after   *)
(* another, turn the old array into the current one; each removes exactly   *)
(* the elements it says, where it says; and together they remove and add no *)
(* more than the arrays differ by, so that no element that can stay is      *)
(* taken out and put in again.                                              *)
THEOREM CalculatedAreExact ==
  ASSUME NEW E, NEW current \in Seq(E), NEW old \in Seq(E)
  PROVE  LET splices == CalculateSplices(current, old)
         IN  /\ AllSplices(splices, current, old) = current
             /\ Matches(splices, current, old)
             /\ Edits(splices) = Len(current) + Len(old) - 2 * LongestCommon(current, old)
<1>1. PICK p, q : p = SharedLengths(current, old).prefix /\ q = SharedLengths(current, old).suffix
  OBVIOUS
<1>2. Ends(p, q, current, old)
  BY <1>1, EndsAreShared
<1>3. PICK now, was : /\ now = SubSeq(current, p + 1, Len(current) - q)
                      /\ was = SubSeq(old, p + 1, Len(old) - q)
  OBVIOUS
<1>4. PICK T, e : T = CalculateSplices(current, old) /\ e = EditDistances(now, was)[<<Len(was), Len(now)>>]
  OBVIOUS
<1>5. /\ IsPart(now, current, p, Len(current) - q, E)
      /\ IsPart(was, old, p, Len(old) - q, E)
      /\ Leads(T, current, old, Len(current) - q, Len(old) - q, e, E)
  BY <1>1, <1>3, <1>4, CalculatedLead
<1>6. Mixed(current, Len(current) - q, old, Len(old) - q) = current
  BY <1>2, MixedToTheEnd
<1>7. e = Len(current) + Len(old) - 2 * LongestCommon(current, old)
  BY <1>2, <1>4, <1>5, MiddleIsAll
<1>8. /\ AllSplices(T, current, old) = current /\ Matches(T, current, old) /\ Edits(T) = e
  BY <1>5, <1>6 DEF Leads
<1>9. QED
  BY <1>4, <1>7, <1>8

(* cloud-dashboard.js:14263-14284: if no element was there twice, what      *)
(* there was without what the splices remove, with what they add, is what   *)
(* there is.                                                                *)
LEMMA CalculatedTell ==
  ASSUME NEW E, NEW current \in Seq(E), NEW old \in Seq(E), IsInjective(old)
  PROVE  LET splices == CalculateSplices(current, old)
         IN  Range(current) = (Range(old) \ Removed(splices)) \cup Added(splices, current)
<1>1. PICK p, q : p = SharedLengths(current, old).prefix /\ q = SharedLengths(current, old).suffix
  OBVIOUS
<1>2. Ends(p, q, current, old)
  BY <1>1, EndsAreShared
<1>3. PICK now, was : /\ now = SubSeq(current, p + 1, Len(current) - q)
                      /\ was = SubSeq(old, p + 1, Len(old) - q)
  OBVIOUS
<1>4. PICK T, e : T = CalculateSplices(current, old) /\ e = EditDistances(now, was)[<<Len(was), Len(now)>>]
  OBVIOUS
<1>5. Leads(T, current, old, Len(current) - q, Len(old) - q, e, E)
  BY <1>1, <1>3, <1>4, CalculatedLead
<1>6. Told(T, current, Len(current) - q, old, Len(old) - q)
  BY <1>5 DEF Leads
<1>7. Len(current) \in Nat /\ Len(old) \in Nat
  BY LenProperties
<1>8. /\ q \in Nat /\ q <= Len(current) /\ q <= Len(old)
      /\ \A k \in 1 .. q : current[Len(current) - q + k] = old[Len(old) - q + k]
  BY <1>2, <1>7 DEF Ends
<1>9. QED
  BY <1>4, <1>6, <1>8, ToldOfAll

-----------------------------------------------------------------------------
(* The table by which FlattenSeq puts sequences together; there is one.     *)
FlattenTable(f, n, seqs) == [i \in 1 .. n |-> IF i = 1 THEN seqs[i] ELSE f[i - 1] \o seqs[i]]

(* By induction over the rows.                                              *)
LEMMA FlattenTableExists ==
  ASSUME NEW N \in Nat, NEW seqs
  PROVE  \E f : f = FlattenTable(f, N, seqs)
<1> DEFINE S == {n \in Nat : \E f : f = FlattenTable(f, n, seqs)}
<1>1. 0 \in S
  <2>1. PICK f : f = [i \in 1 .. 0 |-> seqs[i]]
    OBVIOUS
  <2>2. \A i \in 1 .. 0 : FALSE
    OBVIOUS
  <2>3. f = FlattenTable(f, 0, seqs)
    BY <2>1, <2>2 DEF FlattenTable
  <2>4. QED
    BY <2>3
<1>2. ASSUME NEW n \in Nat, n \in S PROVE n + 1 \in S
  <2>1. PICK f : f = FlattenTable(f, n, seqs)
    BY <1>2
  <2>2. PICK last : last = IF n + 1 = 1 THEN seqs[n + 1] ELSE f[n] \o seqs[n + 1]
    OBVIOUS
  <2>3. PICK g : g = [i \in 1 .. n + 1 |-> IF i <= n THEN f[i] ELSE last]
    OBVIOUS
  <2>4. ASSUME NEW i \in 1 .. n + 1
        PROVE  g[i] = IF i = 1 THEN seqs[i] ELSE g[i - 1] \o seqs[i]
    <3>1. CASE i <= n
      <4>1. g[i] = f[i] /\ i \in 1 .. n
        BY <2>3, <3>1
      <4>2. i # 1 => i - 1 \in 1 .. n + 1 /\ i - 1 <= n
        OBVIOUS
      <4>3. i # 1 => g[i - 1] = f[i - 1]
        BY <2>3, <4>2
      <4>4. f[i] = IF i = 1 THEN seqs[i] ELSE f[i - 1] \o seqs[i]
        BY <2>1, <4>1 DEF FlattenTable
      <4>5. QED
        BY <4>1, <4>3, <4>4
    <3>2. CASE i = n + 1
      <4>1. g[i] = last
        BY <2>3, <3>2
      <4>2. i - 1 = n /\ (i = 1 <=> n + 1 = 1)
        BY <3>2
      <4>3. i # 1 => n \in 1 .. n + 1 /\ n <= n
        BY <3>2
      <4>4. i # 1 => g[n] = f[n]
        BY <2>3, <4>3
      <4>5. QED
        BY <2>2, <3>2, <4>1, <4>2, <4>4
    <3>3. QED
      BY <3>1, <3>2
  <2>5. g = FlattenTable(g, n + 1, seqs)
    BY <2>3, <2>4 DEF FlattenTable
  <2>6. QED
    BY <2>5
<1>3. Nat \subseteq S
  <2> HIDE DEF S
  <2>1. QED
    BY <1>1, <1>2, SetInduction
<1>4. QED
  BY <1>3

(* What FlattenSeq puts together is the last row of the table.              *)
LEMMA FlattenIs ==
  ASSUME NEW seqs, Len(seqs) \in Nat \ {0}
  PROVE  \E f : /\ f = FlattenTable(f, Len(seqs), seqs)
                /\ FlattenSeq(seqs) = f[Len(seqs)]
<1>1. PICK f : f = CHOOSE x : x = FlattenTable(x, Len(seqs), seqs)
  OBVIOUS
<1>2. f = FlattenTable(f, Len(seqs), seqs)
  BY <1>1, FlattenTableExists
<1>3. FlattenSeq(seqs) = f[Len(seqs)]
  BY <1>1 DEF FlattenSeq, FlattenTable
<1>4. QED
  BY <1>2, <1>3

(* Sequences of elements that are nowhere twice.                            *)
Once(s, E) == s \in Seq(E) /\ IsInjective(s)

(* u is one sequence after the other, and has the elements of both.         *)
IsConcat(u, s, t) == u = s \o t

Both(u, s, t) == Range(u) = Range(s) \cup Range(t)

(* One after the other, two of them with nothing in common are one.         *)
LEMMA OnceConcat ==
  ASSUME NEW E, NEW s, NEW t, Once(s, E), Once(t, E), Range(s) \cap Range(t) = {},
         NEW u, IsConcat(u, s, t)
  PROVE  Once(u, E) /\ Both(u, s, t)
<1>1. PICK m, n : u = s \o t /\ m = Len(s) /\ n = Len(t)
  BY DEF IsConcat
<1>2. /\ s \in Seq(E) /\ t \in Seq(E)
      /\ \A i, j \in DOMAIN s : s[i] = s[j] => i = j
      /\ \A i, j \in DOMAIN t : t[i] = t[j] => i = j
  BY DEF Once, IsInjective
<1>3. m \in Nat /\ n \in Nat /\ DOMAIN s = 1 .. m /\ DOMAIN t = 1 .. n
  BY <1>1, <1>2, LenProperties
<1>4. /\ u \in Seq(E) /\ Len(u) = m + n /\ DOMAIN u = 1 .. m + n
      /\ \A i \in 1 .. m + n : u[i] = IF i <= m THEN s[i] ELSE t[i - m]
  BY <1>1, <1>2, <1>3, ConcatProperties, LenProperties
<1>5. /\ \A i \in 1 .. m : i \in 1 .. m + n /\ i <= m
      /\ \A j \in 1 .. n : j + m \in 1 .. m + n /\ ~(j + m <= m) /\ (j + m) - m = j
      /\ \A i \in 1 .. m + n : i <= m => i \in 1 .. m
      /\ \A i \in 1 .. m + n : ~(i <= m) => i - m \in 1 .. n
  BY <1>3
<1>6. \A i \in 1 .. m : \A j \in 1 .. n : s[i] # t[j]
  BY <1>3 DEF Range
<1>7. ASSUME NEW i \in 1 .. m + n, NEW j \in 1 .. m + n, u[i] = u[j] PROVE i = j
  <2>1. CASE i <= m /\ j <= m
    <3>1. i \in 1 .. m /\ j \in 1 .. m /\ s[i] = s[j]
      BY <1>4, <1>5, <1>7, <2>1
    <3>2. QED
      BY <1>2, <1>3, <3>1
  <2>2. CASE ~(i <= m) /\ ~(j <= m)
    <3>1. i - m \in 1 .. n /\ j - m \in 1 .. n /\ t[i - m] = t[j - m]
      BY <1>4, <1>5, <1>7, <2>2
    <3>2. i - m = j - m
      BY <1>2, <1>3, <3>1
    <3>3. QED
      BY <1>3, <3>2
  <2>3. CASE i <= m /\ ~(j <= m)
    BY <1>4, <1>5, <1>6, <1>7, <2>3
  <2>4. CASE ~(i <= m) /\ j <= m
    BY <1>4, <1>5, <1>6, <1>7, <2>4
  <2>5. QED
    BY <2>1, <2>2, <2>3, <2>4
<1>8. Range(u) = Range(s) \cup Range(t)
  <2>1. ASSUME NEW i \in 1 .. m + n PROVE u[i] \in Range(s) \cup Range(t)
    <3>1. CASE i <= m
      <4>1. u[i] = s[i] /\ i \in 1 .. m
        BY <1>4, <1>5, <3>1
      <4>2. QED
        BY <1>3, <4>1 DEF Range
    <3>2. CASE ~(i <= m)
      <4>1. u[i] = t[i - m] /\ i - m \in 1 .. n
        BY <1>4, <1>5, <3>2
      <4>2. QED
        BY <1>3, <4>1 DEF Range
    <3>3. QED
      BY <3>1, <3>2
  <2>2. ASSUME NEW i \in 1 .. m PROVE s[i] \in Range(u)
    BY <1>4, <1>5 DEF Range
  <2>3. ASSUME NEW j \in 1 .. n PROVE t[j] \in Range(u)
    <3>1. u[j + m] = t[j] /\ j + m \in 1 .. m + n
      BY <1>4, <1>5
    <3>2. QED
      BY <1>4, <3>1 DEF Range
  <2>4. Range(u) \subseteq Range(s) \cup Range(t)
    BY <1>4, <2>1 DEF Range
  <2>5. Range(s) \subseteq Range(u)
    BY <1>3, <2>2 DEF Range
  <2>6. Range(t) \subseteq Range(u)
    BY <1>3, <2>3 DEF Range
  <2>7. QED
    BY <2>4, <2>5, <2>6
<1>9. IsInjective(u)
  BY <1>4, <1>7 DEF IsInjective
<1>10. QED
  BY <1>1, <1>4, <1>8, <1>9 DEF Once, Both

(* Put together, such sequences with nothing in common are one.             *)
LEMMA OnceFlattened ==
  ASSUME NEW E, NEW seqs, NEW N \in Nat \ {0}, Len(seqs) = N,
         \A i \in 1 .. N : Once(seqs[i], E),
         \A i, j \in 1 .. N : i # j => Range(seqs[i]) \cap Range(seqs[j]) = {}
  PROVE  Once(FlattenSeq(seqs), E)
<1>1. PICK f : f = FlattenTable(f, N, seqs) /\ FlattenSeq(seqs) = f[N]
  BY FlattenIs
<1>2. \A i \in 1 .. N : f[i] = IF i = 1 THEN seqs[i] ELSE f[i - 1] \o seqs[i]
  BY <1>1 DEF FlattenTable
<1> DEFINE Good(n) == Once(f[n], E) /\ \A x \in Range(f[n]) : \E i \in 1 .. n : x \in Range(seqs[i])
           S == {n \in 0 .. N : n = 0 \/ Good(n)}
<1>3. 0 \in S
  OBVIOUS
<1>4. ASSUME NEW n \in 0 .. N - 1, n \in S PROVE n + 1 \in S
  <2>1. n + 1 \in 1 .. N /\ n + 1 \in 0 .. N /\ (n + 1) - 1 = n
    OBVIOUS
  <2>2. CASE n = 0
    <3>1. f[n + 1] = seqs[n + 1] /\ n + 1 \in 1 .. n + 1
      BY <1>2, <2>1, <2>2
    <3>2. Good(n + 1)
      BY <2>1, <3>1
    <3>3. QED
      BY <2>1, <3>2
  <2>3. CASE n # 0
    <3>1. Good(n)
      BY <1>4, <2>3
    <3>2. f[n + 1] = f[n] \o seqs[n + 1]
      <4>1. n + 1 # 1
        BY <2>3
      <4>2. QED
        BY <1>2, <2>1, <4>1
    <3>3. \A i \in 1 .. n : i \in 1 .. N /\ i # n + 1 /\ i \in 1 .. n + 1
      OBVIOUS
    <3>4. Range(f[n]) \cap Range(seqs[n + 1]) = {}
      BY <2>1, <3>1, <3>3
    <3>5. Once(f[n + 1], E) /\ Range(f[n + 1]) = Range(f[n]) \cup Range(seqs[n + 1])
      <4>1. PICK x, y, z : x = f[n] /\ y = seqs[n + 1] /\ z = f[n + 1]
        OBVIOUS
      <4>2. Once(x, E) /\ Once(y, E) /\ Range(x) \cap Range(y) = {}
        BY <2>1, <3>1, <3>4, <4>1
      <4>3. IsConcat(z, x, y)
        BY <3>2, <4>1 DEF IsConcat
      <4>4. Once(z, E) /\ Both(z, x, y)
        BY <4>2, <4>3, OnceConcat
      <4>5. QED
        BY <4>1, <4>4 DEF Both
    <3>6. n + 1 \in 1 .. n + 1
      OBVIOUS
    <3>7. Good(n + 1)
      BY <3>1, <3>3, <3>5, <3>6
    <3>8. QED
      BY <2>1, <3>7
  <2>4. QED
    BY <2>2, <2>3
<1>5. 0 .. N \subseteq S
  <2> HIDE DEF S
  <2>1. QED
    BY <1>3, <1>4, BoundedInduction
<1>6. QED
  BY <1>1, <1>5

-----------------------------------------------------------------------------
(* The bounds of the nodes leave room for a slot.                           *)
NodesConstants == MaxNodes \in Nat \ {0}

(* The nodes that are there are nowhere twice, and none is a slot.          *)
LEMMA FlattenedOnce ==
  ASSUME children \in Lists, assigned \in Assignments, Range(children) \cap Range(assigned) = {}
  PROVE  Once(FlattenedNodes, Nodes)
<1>1. PICK n \in Nat : /\ children \in [1 .. n -> Nodes \cup {Slot}]
                       /\ \A i, j \in 1 .. n : children[i] = children[j] => i = j
  BY DEF Lists
<1>2. Once(assigned, Nodes)
  <2>1. assigned \in Lists /\ \A i \in DOMAIN assigned : assigned[i] # Slot
    BY DEF Assignments
  <2>2. PICK m \in Nat : /\ assigned \in [1 .. m -> Nodes \cup {Slot}]
                         /\ \A i, j \in 1 .. m : assigned[i] = assigned[j] => i = j
    BY <2>1 DEF Lists
  <2>3. assigned \in [1 .. m -> Nodes]
    BY <2>1, <2>2
  <2>4. QED
    BY <2>2, <2>3 DEF Once, IsInjective
<1>3. PICK seqs : seqs = [i \in DOMAIN children |-> IF children[i] = Slot THEN assigned ELSE <<children[i]>>]
  OBVIOUS
<1>4. /\ DOMAIN seqs = 1 .. n /\ Len(seqs) = n
      /\ \A i \in 1 .. n : seqs[i] = IF children[i] = Slot THEN assigned ELSE <<children[i]>>
  <2>1. DOMAIN seqs = 1 .. n
    BY <1>1, <1>3
  <2>2. Len(seqs) = n
    BY <1>1, <1>3
  <2>3. QED
    BY <1>1, <1>3, <2>1, <2>2
<1>5. FlattenedNodes = FlattenSeq(seqs)
  BY <1>3 DEF FlattenedNodes
<1>6. ASSUME NEW x \in Nodes PROVE Once(<<x>>, Nodes) /\ Range(<<x>>) = {x}
  BY DEF Once, IsInjective, Range
<1>7. ASSUME NEW i \in 1 .. n
      PROVE  /\ Once(seqs[i], Nodes)
             /\ children[i] = Slot => Range(seqs[i]) = Range(assigned)
             /\ children[i] # Slot => Range(seqs[i]) = {children[i]}
  <2>1. CASE children[i] = Slot
    BY <1>2, <1>4, <2>1
  <2>2. CASE children[i] # Slot
    <3>1. children[i] \in Nodes
      BY <1>1, <2>2
    <3>2. QED
      BY <1>4, <1>6, <2>2, <3>1
  <2>3. QED
    BY <2>1, <2>2
<1>8. ASSUME NEW i \in 1 .. n, NEW j \in 1 .. n, i # j
      PROVE  Range(seqs[i]) \cap Range(seqs[j]) = {}
  <2>1. children[i] # children[j] /\ children[i] \in Range(children) /\ children[j] \in Range(children)
    BY <1>1, <1>8 DEF Range
  <2>2. children[i] \notin Range(assigned) /\ children[j] \notin Range(assigned)
    BY <2>1
  <2>3. QED
    BY <1>7, <2>1, <2>2
<1>9. CASE n = 0
  <2>1. FlattenSeq(seqs) = seqs
    BY <1>4, <1>9 DEF FlattenSeq
  <2>2. seqs = <<>>
    BY <1>3, <1>4, <1>9
  <2>3. QED
    BY <1>5, <2>1, <2>2 DEF Once, IsInjective
<1>10. CASE n # 0
  <2>1. n \in Nat \ {0} /\ \A i \in 1 .. n : Once(seqs[i], Nodes)
    BY <1>7, <1>10
  <2>2. QED
    BY <1>4, <1>5, <1>8, <2>1, OnceFlattened
<1>11. QED
  BY <1>9, <1>10

(* Without a slot, what a slot would be assigned does not matter.           *)
LEMMA UnslottedNodes ==
  ASSUME ~HasSlot, UNCHANGED children
  PROVE  FlattenedNodes' = FlattenedNodes
<1>1. \A i \in DOMAIN children : children[i] # Slot
  BY DEF HasSlot, Range
<1>2. [i \in DOMAIN children |-> IF children[i] = Slot THEN assigned' ELSE <<children[i]>>]
        = [i \in DOMAIN children |-> IF children[i] = Slot THEN assigned ELSE <<children[i]>>]
  BY <1>1
<1>3. QED
  BY <1>2 DEF FlattenedNodes

(* A node is a child or assigned, not both, and nowhere twice.              *)
Apart ==
    /\ children \in Lists /\ assigned \in Assignments
    /\ Range(children) \cap Range(assigned) = {}

(* A slot is listened to once the records of the children are processed.    *)
SlotIsListened ==
    /\ connected /\ ~records => listened = HasSlot
    /\ ~connected => ~records

(* What is scheduled is going to be done, or something was missed.          *)
ScheduledIsDone == scheduled => task \/ missed

(* What differs from what was told is going to be told.                     *)
DifferenceIsTold ==
    ~records /\ ~task /\ ~missed /\ effective # FlattenedNodes => event /\ HasSlot

NodesInv ==
    /\ Apart
    /\ {records, event, listened, scheduled, task, connected, missed} \subseteq BOOLEAN
    /\ Once(effective, Nodes) /\ ToldAddsUp
    /\ SlotIsListened /\ ScheduledIsDone /\ DifferenceIsTold

(* The invariant says what the properties say,                              *)
LEMMA NodesInvImplies ==
  ASSUME NodesInv
  PROVE  FlatTypeOK /\ ToldAddsUp /\ ChangesReported
<1>1. effective \in Seq(Nodes) /\ known \subseteq Nodes
  <2>1. effective \in Seq(Nodes) /\ known = Range(effective)
    BY DEF NodesInv, Once, ToldAddsUp
  <2>2. QED
    BY <2>1 DEF Range
<1>2. QED
  BY <1>1 DEF NodesInv, Apart, FlatTypeOK, DifferenceIsTold, ChangesReported

(* holds at first,                                                          *)
LEMMA NodesStart ==
  ASSUME NodesConstants, FlatInit
  PROVE  NodesInv
<1>1. <<>> \in [1 .. 0 -> Nodes \cup {Slot}] /\ <<Slot>> \in [1 .. 1 -> Nodes \cup {Slot}]
  OBVIOUS
<1>2. 0 \in 0 .. MaxNodes /\ 1 \in 0 .. MaxNodes
  BY DEF NodesConstants
<1>3. <<>> \in Lists
  <2>1. \A i, j \in 1 .. 0 : <<>>[i] = <<>>[j] => i = j
    OBVIOUS
  <2>2. QED
    BY <1>1, <1>2, <2>1 DEF Lists
<1>4. <<Slot>> \in Lists
  <2>1. \A i, j \in 1 .. 1 : <<Slot>>[i] = <<Slot>>[j] => i = j
    OBVIOUS
  <2>2. QED
    BY <1>1, <1>2, <2>1 DEF Lists
<1>5. Range(<<>>) = {} /\ DOMAIN <<>> = {}
  BY DEF Range
<1>6. Apart
  BY <1>3, <1>4, <1>5 DEF FlatInit, Apart, Assignments
<1>7. Once(effective, Nodes) /\ ToldAddsUp
  BY <1>5 DEF FlatInit, Once, ToldAddsUp, IsInjective
<1>8. {records, event, listened, scheduled, task, connected, missed} \subseteq BOOLEAN
  <2>1. HasSlot \in BOOLEAN
    BY DEF HasSlot
  <2>2. QED
    BY <2>1 DEF FlatInit
<1>9. QED
  BY <1>6, <1>7, <1>8 DEF NodesInv, FlatInit, SlotIsListened, ScheduledIsDone, DifferenceIsTold

(* when the children change,                                                *)
LEMMA MoveChildrenPreserves ==
  ASSUME NodesInv, NEW list \in Lists, MoveChildren(list)
  PROVE  NodesInv'
BY DEF NodesInv, MoveChildren, Apart, Once, ToldAddsUp, SlotIsListened, ScheduledIsDone, DifferenceIsTold

(* and when other nodes are assigned: the slot is told, if there is one.    *)
LEMMA AssignPreserves ==
  ASSUME NodesInv, NEW list \in Assignments, Assign(list)
  PROVE  NodesInv'
<1>1. Apart'
  BY DEF NodesInv, Assign, Apart
<1>2. HasSlot' = HasSlot /\ UNCHANGED children
  BY DEF Assign, HasSlot
<1>3. DifferenceIsTold'
  <2>1. CASE HasSlot
    BY <1>2, <2>1 DEF Assign, DifferenceIsTold
  <2>2. CASE ~HasSlot
    <3>1. FlattenedNodes' = FlattenedNodes
      BY <1>2, <2>2, UnslottedNodes
    <3>2. QED
      BY <1>2, <3>1 DEF NodesInv, Assign, DifferenceIsTold
  <2>3. QED
    BY <2>1, <2>2
<1>4. QED
  BY <1>1, <1>2, <1>3 DEF NodesInv, Assign, Once, ToldAddsUp, SlotIsListened, ScheduledIsDone, HasSlot

(* What a flush tells is what it found.                                     *)
LEMMA FlushTells ==
  ASSUME NodesInv, FlushNodes
  PROVE  Once(effective', Nodes) /\ ToldAddsUp' /\ UNCHANGED FlattenedNodes
<1>1. PICK flat, splices : flat = FlattenedNodes /\ splices = CalculateSplices(flat, effective)
  OBVIOUS
<1>2. Once(flat, Nodes) /\ Once(effective, Nodes)
  BY <1>1, FlattenedOnce DEF NodesInv, Apart
<1>3. Range(flat) = (Range(effective) \ Removed(splices)) \cup Added(splices, flat)
  BY <1>1, <1>2, CalculatedTell DEF Once
<1>4. known' = (known \ Removed(splices)) \cup Added(splices, flat)
  BY <1>1 DEF FlushNodes, Report
<1>5. effective' = flat /\ known = Range(effective)
  BY <1>1 DEF FlushNodes, NodesInv, ToldAddsUp
<1>6. UNCHANGED FlattenedNodes
  BY DEF FlushNodes, FlattenedNodes
<1>7. QED
  BY <1>2, <1>3, <1>4, <1>5, <1>6 DEF ToldAddsUp

(* After a flush nothing differs.                                           *)
LEMMA FlushPreserves ==
  ASSUME NodesInv, FlushNodes, connected, task' \in BOOLEAN
  PROVE  NodesInv'
<1>1. Once(effective', Nodes) /\ ToldAddsUp' /\ UNCHANGED FlattenedNodes
  BY FlushTells
<1>2. effective' = FlattenedNodes'
  BY <1>1 DEF FlushNodes
<1>3. HasSlot' = HasSlot /\ HasSlot \in BOOLEAN
  BY DEF FlushNodes, HasSlot
<1>4. Apart'
  BY DEF NodesInv, FlushNodes, Apart
<1>5. {records, event, listened, scheduled, task, connected, missed}' \subseteq BOOLEAN
  BY <1>3 DEF NodesInv, FlushNodes
<1>6. SlotIsListened'
  BY <1>3 DEF NodesInv, FlushNodes, SlotIsListened
<1>7. QED
  BY <1>1, <1>2, <1>4, <1>5, <1>6 DEF NodesInv, FlushNodes, ScheduledIsDone, DifferenceIsTold

(* No step breaks it.                                                       *)
LEMMA NodesPreserve ==
  ASSUME NodesInv, [FlatNext]_flatVars
  PROVE  NodesInv'
<1>1. ASSUME NEW list \in Lists, MoveChildren(list) PROVE NodesInv'
  BY <1>1, MoveChildrenPreserves
<1>2. ASSUME NEW list \in Assignments, Assign(list) PROVE NodesInv'
  BY <1>2, AssignPreserves
<1>3. CASE DeliverRecords
  <2>1. connected /\ FlushNodes /\ task' \in BOOLEAN
    BY <1>3 DEF DeliverRecords, NodesInv, SlotIsListened
  <2>2. QED
    BY <2>1, FlushPreserves
<1>4. CASE SlotChange
  <2>1. HasSlot' = HasSlot /\ UNCHANGED FlattenedNodes
    BY <1>4 DEF SlotChange, HasSlot, FlattenedNodes
  <2>2. /\ event \in BOOLEAN /\ listened \in BOOLEAN /\ scheduled \in BOOLEAN /\ task \in BOOLEAN
        /\ missed \in BOOLEAN /\ connected \in BOOLEAN /\ records \in BOOLEAN
    BY DEF NodesInv
  <2>3. {records, event, listened, scheduled, task, connected, missed}' \subseteq BOOLEAN
    BY <1>4, <2>2 DEF SlotChange
  <2>4. Apart' /\ Once(effective', Nodes) /\ ToldAddsUp'
    BY <1>4 DEF SlotChange, NodesInv, Apart, ToldAddsUp
  <2>5. SlotIsListened'
    BY <1>4, <2>1 DEF SlotChange, NodesInv, SlotIsListened
  <2>6. ScheduledIsDone'
    BY <1>4, <2>2 DEF SlotChange, NodesInv, ScheduledIsDone
  <2>7. ASSUME ~task', ~missed', HasSlot PROVE FALSE
    <3>1. listened /\ connected
      BY <1>4, <2>2, <2>7 DEF SlotChange, NodesInv, SlotIsListened
    <3>2. scheduled /\ ~task /\ ~missed
      BY <1>4, <2>2, <2>7, <3>1 DEF SlotChange
    <3>3. QED
      BY <3>2 DEF NodesInv, ScheduledIsDone
  <2>8. ASSUME ~task', ~missed', ~HasSlot PROVE effective = FlattenedNodes
    <3>1. ~task /\ ~missed /\ ~records
      BY <1>4, <2>2, <2>8 DEF SlotChange
    <3>2. QED
      BY <2>8, <3>1 DEF NodesInv, DifferenceIsTold
  <2>9. DifferenceIsTold'
    <3>1. UNCHANGED effective
      BY <1>4 DEF SlotChange
    <3>2. QED
      BY <2>1, <2>7, <2>8, <3>1 DEF DifferenceIsTold
  <2>10. QED
    BY <2>3, <2>4, <2>5, <2>6, <2>9 DEF NodesInv
<1>5. CASE RunTask
  <2>1. CASE connected /\ FlushNodes
    <3>1. task' \in BOOLEAN
      BY <1>5 DEF RunTask
    <3>2. QED
      BY <2>1, <3>1, FlushPreserves
  <2>2. CASE ~(connected /\ FlushNodes)
    <3>1. /\ task' = FALSE /\ missed' = TRUE
          /\ UNCHANGED <<children, assigned, records, event, listened, effective,
                         scheduled, connected, known>>
      BY <1>5, <2>2 DEF RunTask
    <3>2. HasSlot' = HasSlot
      BY <3>1 DEF HasSlot
    <3>3. {records, event, listened, scheduled, task, connected, missed}' \subseteq BOOLEAN
      BY <3>1 DEF NodesInv
    <3>4. Apart' /\ Once(effective', Nodes) /\ ToldAddsUp'
      BY <3>1 DEF NodesInv, Apart, ToldAddsUp
    <3>5. SlotIsListened' /\ ScheduledIsDone' /\ DifferenceIsTold'
      BY <3>1, <3>2 DEF NodesInv, SlotIsListened, ScheduledIsDone, DifferenceIsTold
    <3>6. QED
      BY <3>3, <3>4, <3>5 DEF NodesInv
  <2>3. QED
    BY <2>1, <2>2
<1>6. CASE Disconnect
  <2>1. HasSlot' = HasSlot /\ UNCHANGED FlattenedNodes
    BY <1>6 DEF Disconnect, HasSlot, FlattenedNodes
  <2>2. QED
    BY <1>6, <2>1 DEF Disconnect, NodesInv, Apart, Once, ToldAddsUp, SlotIsListened,
                      ScheduledIsDone, DifferenceIsTold
<1>7. CASE Connect
  <2>1. HasSlot' = HasSlot /\ UNCHANGED FlattenedNodes /\ HasSlot \in BOOLEAN
    BY <1>7 DEF Connect, HasSlot, FlattenedNodes
  <2>2. QED
    BY <1>7, <2>1 DEF Connect, NodesInv, Apart, Once, ToldAddsUp, SlotIsListened,
                      ScheduledIsDone, DifferenceIsTold
<1>8. CASE UNCHANGED flatVars
  BY <1>8 DEF flatVars, NodesInv, Apart, Once, ToldAddsUp, SlotIsListened, ScheduledIsDone,
              DifferenceIsTold, HasSlot, FlattenedNodes
<1>9. QED
  BY <1>1, <1>2, <1>3, <1>4, <1>5, <1>6, <1>7, <1>8 DEF FlatNext

(* cloud-dashboard.js:14168-14284: whatever the nodes are and however many, *)
(* and in whichever order records, slotchanges and flushes come, what the   *)
(* callback was told adds up to the nodes it was told of last, and with     *)
(* nothing left to deliver those are the nodes there are.                   *)
THEOREM NodesAreReported ==
  ASSUME NodesConstants
  PROVE  FlatSpec => [](FlatTypeOK /\ ToldAddsUp /\ ChangesReported)
<1>1. FlatInit => NodesInv
  BY NodesStart
<1>2. NodesInv /\ [FlatNext]_flatVars => NodesInv'
  BY NodesPreserve
<1>3. NodesInv => FlatTypeOK /\ ToldAddsUp /\ ChangesReported
  BY NodesInvImplies
<1>4. QED
  BY <1>1, <1>2, <1>3, PTL DEF FlatSpec

-----------------------------------------------------------------------------
(* What is selected of an array: items and indices, -1 of those gone.       *)
Entries == [item : Pool, idx : Int]

(* The table by which the items that are not gone are taken; there is one.  *)
RemainingTable(upto, N, map) ==
    [n \in 0 .. N |-> IF n = 0 THEN <<>>
                      ELSE IF map[n].idx >= 0 THEN Append(upto[n - 1], map[n])
                      ELSE upto[n - 1]]

LEMMA RemainingTableExists ==
  ASSUME NEW N \in Nat, NEW map
  PROVE  \E f : f = RemainingTable(f, N, map)
<1> DEFINE S == {n \in Nat : \E f : f = RemainingTable(f, n, map)}
<1>1. 0 \in S
  <2>1. PICK f : f = [n \in 0 .. 0 |-> <<>>]
    OBVIOUS
  <2>2. \A n \in 0 .. 0 : n = 0
    OBVIOUS
  <2>3. f = RemainingTable(f, 0, map)
    BY <2>1, <2>2 DEF RemainingTable
  <2>4. QED
    BY <2>3
<1>2. ASSUME NEW n \in Nat, n \in S PROVE n + 1 \in S
  <2>1. PICK f : f = RemainingTable(f, n, map)
    BY <1>2
  <2>2. PICK v : v = IF map[n + 1].idx >= 0 THEN Append(f[n], map[n + 1]) ELSE f[n]
    OBVIOUS
  <2>3. PICK g : g = [k \in 0 .. n + 1 |-> IF k <= n THEN f[k] ELSE v]
    OBVIOUS
  <2>4. ASSUME NEW k \in 0 .. n + 1
        PROVE  g[k] = IF k = 0 THEN <<>>
                      ELSE IF map[k].idx >= 0 THEN Append(g[k - 1], map[k])
                      ELSE g[k - 1]
    <3>1. CASE k <= n
      <4>1. g[k] = f[k] /\ k \in 0 .. n
        BY <2>3, <3>1
      <4>2. k # 0 => k - 1 \in 0 .. n + 1 /\ k - 1 <= n
        OBVIOUS
      <4>3. k # 0 => g[k - 1] = f[k - 1]
        BY <2>3, <4>2
      <4>4. f[k] = IF k = 0 THEN <<>>
                   ELSE IF map[k].idx >= 0 THEN Append(f[k - 1], map[k])
                   ELSE f[k - 1]
        BY <2>1, <4>1 DEF RemainingTable
      <4>5. QED
        BY <4>1, <4>3, <4>4
    <3>2. CASE k = n + 1
      <4>1. g[k] = v /\ g[n] = f[n]
        BY <2>3, <3>2
      <4>2. k # 0 /\ k - 1 = n
        BY <3>2
      <4>3. QED
        BY <2>2, <3>2, <4>1, <4>2
    <3>3. QED
      BY <3>1, <3>2
  <2>5. g = RemainingTable(g, n + 1, map)
    BY <2>3, <2>4 DEF RemainingTable
  <2>6. QED
    BY <2>5
<1>3. Nat \subseteq S
  <2> HIDE DEF S
  <2>1. QED
    BY <1>1, <1>2, SetInduction
<1>4. QED
  BY <1>3

(* No item is there twice.                                                  *)
Distinct(map) == \A j, k \in 1 .. Len(map) : map[j].item = map[k].item => j = k

AllThere(map) == \A k \in 1 .. Len(map) : map[k].idx >= 0

(* What remains of the first n items of a map.                              *)
RemainsOf(r, n, map) ==
    /\ r \in Seq(Entries) /\ Len(r) <= n
    /\ \A k \in 1 .. Len(r) : r[k].idx >= 0 /\ \E j \in 1 .. n : r[k] = map[j]
    /\ Distinct(map) => Distinct(r)
    /\ AllThere(map) => Len(r) = n /\ \A k \in 1 .. n : r[k] = map[k]

LEMMA RemainsGrows ==
  ASSUME NEW map \in Seq(Entries), NEW n \in 0 .. Len(map) - 1, NEW r, RemainsOf(r, n, map)
  PROVE  RemainsOf(IF map[n + 1].idx >= 0 THEN Append(r, map[n + 1]) ELSE r, n + 1, map)
<1>1. Len(map) \in Nat /\ n \in Nat /\ n + 1 \in 1 .. Len(map) /\ map[n + 1] \in Entries
  OBVIOUS
<1>2. r \in Seq(Entries) /\ Len(r) \in Nat /\ Len(r) <= n
  BY DEF RemainsOf
<1>3. CASE map[n + 1].idx >= 0
  <2>1. PICK t : t = Append(r, map[n + 1])
    OBVIOUS
  <2>2. /\ t \in Seq(Entries) /\ Len(t) = Len(r) + 1 /\ t[Len(r) + 1] = map[n + 1]
        /\ \A k \in 1 .. Len(r) : t[k] = r[k]
    BY <1>1, <1>2, <2>1
  <2>3. \A k \in 1 .. Len(t) : k \in 1 .. Len(r) \/ k = Len(r) + 1
    BY <1>2, <2>2
  <2>4. ASSUME NEW k \in 1 .. Len(t)
        PROVE  t[k].idx >= 0 /\ \E j \in 1 .. n + 1 : t[k] = map[j]
    <3>1. CASE k = Len(r) + 1
      BY <1>1, <1>3, <2>2, <3>1
    <3>2. CASE k \in 1 .. Len(r)
      <4>1. PICK j \in 1 .. n : r[k] = map[j]
        BY <3>2 DEF RemainsOf
      <4>2. j \in 1 .. n + 1
        BY <1>1
      <4>3. QED
        BY <2>2, <3>2, <4>1, <4>2 DEF RemainsOf
    <3>3. QED
      BY <2>3, <3>1, <3>2
  <2>5. ASSUME Distinct(map) PROVE Distinct(t)
    <3>1. ASSUME NEW k \in 1 .. Len(r) PROVE r[k].item # map[n + 1].item
      <4>1. PICK j \in 1 .. n : r[k] = map[j]
        BY DEF RemainsOf
      <4>2. j \in 1 .. Len(map) /\ j # n + 1
        BY <1>1
      <4>3. QED
        BY <1>1, <2>5, <4>1, <4>2 DEF Distinct
    <3>2. Distinct(r)
      BY <2>5 DEF RemainsOf
    <3>3. QED
      BY <1>2, <2>2, <2>3, <3>1, <3>2 DEF Distinct
  <2>6. ASSUME AllThere(map) PROVE Len(t) = n + 1 /\ \A k \in 1 .. n + 1 : t[k] = map[k]
    <3>1. Len(r) = n /\ \A k \in 1 .. n : r[k] = map[k]
      BY <2>6 DEF RemainsOf
    <3>2. \A k \in 1 .. n + 1 : k \in 1 .. n \/ k = n + 1
      BY <1>1
    <3>3. QED
      BY <2>2, <3>1, <3>2
  <2>7. RemainsOf(t, n + 1, map)
    BY <1>1, <1>2, <2>2, <2>4, <2>5, <2>6 DEF RemainsOf
  <2>8. QED
    BY <1>3, <2>1, <2>7
<1>4. CASE ~(map[n + 1].idx >= 0)
  <2>1. ~AllThere(map)
    BY <1>1, <1>4 DEF AllThere
  <2>2. \A j \in 1 .. n : j \in 1 .. n + 1
    BY <1>1
  <2>3. RemainsOf(r, n + 1, map)
    BY <1>1, <1>2, <2>1, <2>2 DEF RemainsOf
  <2>4. QED
    BY <1>4, <2>3
<1>5. QED
  BY <1>3, <1>4

(* They are these.                                                          *)
LEMMA RemainingIs ==
  ASSUME NEW map \in Seq(Entries)
  PROVE  RemainsOf(Remaining(map), Len(map), map)
<1> DEFINE Body(f) == RemainingTable(f, Len(map), map)
           upto == CHOOSE f : f = Body(f)
           S == {n \in 0 .. Len(map) : RemainsOf(upto[n], n, map)}
<1>1. Len(map) \in Nat
  OBVIOUS
<1>2. Remaining(map) = upto[Len(map)]
  BY DEF Remaining, RemainingTable
<1>3. \E f : f = Body(f)
  BY <1>1, RemainingTableExists
<1>4. upto = Body(upto)
  <2> HIDE DEF Body
  <2>1. QED
    BY <1>3
<1>5. PICK g : g = upto
  OBVIOUS
<1>6. g = RemainingTable(g, Len(map), map)
  BY <1>4, <1>5
<1>7. 0 \in S
  <2>1. g[0] = <<>>
    BY <1>1, <1>6 DEF RemainingTable
  <2>2. RemainsOf(<<>>, 0, map)
    BY DEF RemainsOf, Distinct
  <2>3. QED
    BY <1>1, <1>5, <2>1, <2>2
<1>8. ASSUME NEW n \in 0 .. Len(map) - 1, n \in S PROVE n + 1 \in S
  <2>1. n + 1 \in 0 .. Len(map) /\ n + 1 # 0 /\ (n + 1) - 1 = n
    BY <1>1
  <2>2. RemainsOf(g[n], n, map)
    BY <1>5, <1>8
  <2>3. g[n + 1] = IF map[n + 1].idx >= 0 THEN Append(g[n], map[n + 1]) ELSE g[n]
    BY <1>6, <2>1 DEF RemainingTable
  <2>4. RemainsOf(g[n + 1], n + 1, map)
    BY <2>2, <2>3, RemainsGrows
  <2>5. QED
    BY <1>5, <2>1, <2>4
<1>9. 0 .. Len(map) \subseteq S
  <2> HIDE DEF S
  <2>1. QED
    BY <1>1, <1>7, <1>8, BoundedInduction
<1>10. Len(map) \in 0 .. Len(map)
  BY <1>1
<1>11. QED
  BY <1>2, <1>9, <1>10

(* All of a map remains if nothing is gone.                                 *)
LEMMA AllRemain ==
  ASSUME NEW map \in Seq(Entries), AllThere(map)
  PROVE  Remaining(map) = map
<1>1. PICK r : r = Remaining(map)
  OBVIOUS
<1>2. RemainsOf(r, Len(map), map)
  BY <1>1, RemainingIs
<1>3. r \in Seq(Entries) /\ Len(r) = Len(map) /\ \A k \in 1 .. Len(map) : r[k] = map[k]
  BY <1>2 DEF RemainsOf
<1>4. QED
  BY <1>1, <1>3, SeqEqual

(* Indices lead to the items in an array, but for those that are gone.      *)
Points(map, a) ==
    \A k \in 1 .. Len(map) :
        map[k].idx >= 0 => map[k].idx + 1 \in 1 .. Len(a) /\ a[map[k].idx + 1] = map[k].item

(* The same items, perhaps with other indices.                              *)
SameItems(map, was) ==
    /\ map \in Seq(Entries) /\ Len(map) = Len(was)
    /\ \A k \in 1 .. Len(map) : map[k].item = was[k].item

(* The elements of one sequence and then those of another.                  *)
IsJoined(t, x, y) ==
    /\ \A i \in 1 .. Len(x) : t[i] = x[i]
    /\ \A i \in 1 .. Len(y) : t[Len(x) + i] = y[i]

(* The length and the elements of a sequence made of two parts,             *)
LEMMA TwoParts ==
  ASSUME NEW E, NEW x \in Seq(E), NEW y \in Seq(E)
  PROVE  x \o y \in Seq(E) /\ Len(x \o y) = Len(x) + Len(y) /\ IsJoined(x \o y, x, y)
<1>1. Len(x) \in Nat /\ Len(y) \in Nat
  OBVIOUS
<1>2. /\ x \o y \in Seq(E) /\ Len(x \o y) = Len(x) + Len(y)
      /\ \A i \in 1 .. Len(x) + Len(y) : (x \o y)[i] = IF i <= Len(x) THEN x[i] ELSE y[i - Len(x)]
  BY ConcatProperties
<1>3. \A i \in 1 .. Len(x) : i \in 1 .. Len(x) + Len(y) /\ i <= Len(x)
  BY <1>1
<1>4. \A i \in 1 .. Len(y) :
         Len(x) + i \in 1 .. Len(x) + Len(y) /\ ~(Len(x) + i <= Len(x)) /\ (Len(x) + i) - Len(x) = i
  BY <1>1
<1>5. QED
  BY <1>2, <1>3, <1>4 DEF IsJoined

(* and of three.                                                            *)
LEMMA ThreeParts ==
  ASSUME NEW E, NEW x \in Seq(E), NEW y \in Seq(E), NEW z \in Seq(E), NEW t, t = x \o y \o z
  PROVE  /\ t \in Seq(E) /\ Len(t) = Len(x) + Len(y) + Len(z)
         /\ \A i \in 1 .. Len(x) : t[i] = x[i]
         /\ \A i \in 1 .. Len(y) : t[Len(x) + i] = y[i]
         /\ \A i \in 1 .. Len(z) : t[Len(x) + Len(y) + i] = z[i]
<1>1. PICK u : u = x \o y /\ t = u \o z
  OBVIOUS
<1>2. u \in Seq(E) /\ Len(u) = Len(x) + Len(y) /\ IsJoined(u, x, y)
  BY <1>1, TwoParts
<1>3. t \in Seq(E) /\ Len(t) = Len(u) + Len(z) /\ IsJoined(t, u, z)
  BY <1>1, <1>2, TwoParts
<1>4. Len(x) \in Nat /\ Len(y) \in Nat /\ Len(z) \in Nat
  OBVIOUS
<1>5. \A i \in 1 .. Len(x) : i \in 1 .. Len(u)
  BY <1>2, <1>4
<1>6. \A i \in 1 .. Len(y) : Len(x) + i \in 1 .. Len(u)
  BY <1>2, <1>4
<1>8. Len(t) = Len(x) + Len(y) + Len(z)
  BY <1>2, <1>3
<1>9. ASSUME NEW i \in 1 .. Len(z) PROVE t[Len(x) + Len(y) + i] = z[i]
  BY <1>2, <1>3 DEF IsJoined
<1>10. QED
  BY <1>2, <1>3, <1>5, <1>6, <1>8, <1>9 DEF IsJoined

(* The array a splice makes: of what it was before and behind it, and of    *)
(* the current elements in it.                                              *)
LEMMA AppliedIs ==
  ASSUME NEW E, NEW F, NEW a \in Seq(F), NEW s \in SplicesOver(E), NEW current
  PROVE  LET t == Applied(a, s, current)
             removed == Len(s.removed)
         IN  /\ \E D : t \in Seq(D)
             /\ \A i \in s.index .. s.index + s.addedCount - 1 : i + 1 \in 1 .. Len(t) /\ t[i + 1] = current[i + 1]
             /\ \A i \in 1 .. s.index : i \in 1 .. Len(t) /\ (i <= Len(a) => t[i] = a[i])
             /\ \A i \in 1 .. Len(a) : i > s.index + removed =>
                    i + s.addedCount - removed \in 1 .. Len(t) /\ t[i + s.addedCount - removed] = a[i]
<1>1. PICK n, m, r : n = s.index /\ m = s.addedCount /\ r = Len(s.removed)
  OBVIOUS
<1>2. n \in Nat /\ m \in Nat /\ r \in Nat /\ Len(a) \in Nat
  BY <1>1 DEF SplicesOver
<1>3. PICK D : D = {a[i] : i \in 1 .. n + Len(a)} \cup {current[i] : i \in 1 .. n + m}
  OBVIOUS
<1>4. PICK x, y, z : /\ x = SubSeq(a, 1, n) /\ y = SubSeq(current, n + 1, n + m)
                     /\ z = SubSeq(a, n + r + 1, Len(a))
  OBVIOUS
<1>5. x \in Seq(D) /\ Len(x) = n /\ \A i \in 1 .. n : x[i] = a[i]
  <2>1. \A i \in 1 .. n : a[i] \in D
    BY <1>2, <1>3
  <2>2. n - 1 + 1 = n /\ (n < 1 => n = 0) /\ \A i \in 1 .. n : 1 + i - 1 = i
    BY <1>2
  <2>3. /\ x \in Seq(D) /\ Len(x) = IF 1 <= n THEN n - 1 + 1 ELSE 0
        /\ \A i \in 1 .. n - 1 + 1 : x[i] = a[1 + i - 1]
    BY <1>2, <1>4, <2>1, SubSeqProperties
  <2>4. QED
    BY <1>2, <2>2, <2>3
<1>6. y \in Seq(D) /\ Len(y) = m /\ \A i \in 1 .. m : y[i] = current[n + i]
  <2>1. \A i \in n + 1 .. n + m : current[i] \in D
    BY <1>2, <1>3
  <2>2. (n + m) - (n + 1) + 1 = m /\ (~(n + 1 <= n + m) => m = 0) /\ \A i \in 1 .. m : (n + 1) + i - 1 = n + i
    BY <1>2
  <2>3. /\ y \in Seq(D) /\ Len(y) = IF n + 1 <= n + m THEN (n + m) - (n + 1) + 1 ELSE 0
        /\ \A i \in 1 .. (n + m) - (n + 1) + 1 : y[i] = current[(n + 1) + i - 1]
    BY <1>2, <1>4, <2>1, SubSeqProperties
  <2>4. QED
    BY <1>2, <2>2, <2>3
<1>7. PICK l : l = IF n + r <= Len(a) THEN Len(a) - n - r ELSE 0
  OBVIOUS
<1>8. z \in Seq(D) /\ Len(z) = l /\ \A i \in 1 .. l : z[i] = a[n + r + i]
  <2>1. \A i \in n + r + 1 .. Len(a) : a[i] \in D
    BY <1>2, <1>3
  <2>2. /\ (IF n + r + 1 <= Len(a) THEN Len(a) - (n + r + 1) + 1 ELSE 0) = l
        /\ \A i \in 1 .. l : i \in 1 .. Len(a) - (n + r + 1) + 1 /\ (n + r + 1) + i - 1 = n + r + i
    BY <1>2, <1>7
  <2>3. /\ z \in Seq(D) /\ Len(z) = IF n + r + 1 <= Len(a) THEN Len(a) - (n + r + 1) + 1 ELSE 0
        /\ \A i \in 1 .. Len(a) - (n + r + 1) + 1 : z[i] = a[(n + r + 1) + i - 1]
    BY <1>2, <1>4, <2>1, SubSeqProperties
  <2>4. QED
    BY <1>2, <2>2, <2>3
<1>9. PICK t : t = x \o y \o z
  OBVIOUS
<1>10. /\ t \in Seq(D) /\ Len(t) = n + m + l
       /\ \A i \in 1 .. n : t[i] = a[i]
       /\ \A i \in 1 .. m : t[n + i] = current[n + i]
       /\ \A i \in 1 .. l : t[n + m + i] = a[n + r + i]
  <2>1. x \in Seq(D) /\ y \in Seq(D) /\ z \in Seq(D)
    BY <1>5, <1>6, <1>8
  <2>2. /\ t \in Seq(D) /\ Len(t) = Len(x) + Len(y) + Len(z)
        /\ \A i \in 1 .. Len(x) : t[i] = x[i]
        /\ \A i \in 1 .. Len(y) : t[Len(x) + i] = y[i]
        /\ \A i \in 1 .. Len(z) : t[Len(x) + Len(y) + i] = z[i]
    BY <1>9, <2>1, ThreeParts
  <2>3. QED
    BY <1>5, <1>6, <1>8, <2>2
<1>11. t = Applied(a, s, current)
  BY <1>1, <1>4, <1>9 DEF Applied
<1>12. l \in Nat
  BY <1>2, <1>7
<1>13. ASSUME NEW i \in n .. n + m - 1 PROVE i + 1 \in 1 .. Len(t) /\ t[i + 1] = current[i + 1]
  <2>1. PICK k : k = i + 1 - n
    OBVIOUS
  <2>2. k \in 1 .. m /\ n + k = i + 1 /\ i + 1 \in 1 .. n + m + l
    BY <1>2, <1>12, <2>1
  <2>3. QED
    BY <1>10, <2>2
<1>14. \A i \in 1 .. n : i \in 1 .. Len(t) /\ t[i] = a[i]
  BY <1>2, <1>10, <1>12
<1>15. ASSUME NEW i \in 1 .. Len(a), i > n + r
       PROVE  i + m - r \in 1 .. Len(t) /\ t[i + m - r] = a[i]
  <2>1. PICK k : k = i - n - r
    OBVIOUS
  <2>2. i \in Int /\ n + r < i /\ i <= Len(a)
    BY <1>2, <1>15
  <2>3. n + r <= Len(a) /\ l = Len(a) - n - r
    BY <1>2, <1>7, <2>2
  <2>4. k \in Int /\ 1 <= k /\ k <= l
    BY <1>2, <2>1, <2>2, <2>3
  <2>5. k \in 1 .. l /\ n + r + k = i /\ n + m + k = i + m - r
    BY <1>2, <1>12, <2>1, <2>2, <2>4
  <2>6. i + m - r \in 1 .. n + m + l
    BY <1>2, <1>12, <2>4, <2>5
  <2>7. QED
    BY <1>10, <2>5, <2>6
<1>16. QED
  BY <1>1, <1>10, <1>11, <1>13, <1>14, <1>15

(* One splice: indices lead to the items in the array as it is after it.    *)
LEMMA SplicedPoints ==
  ASSUME NEW E, NEW F, NEW a \in Seq(F), NEW s \in SplicesOver(E), NEW items,
         NEW map \in Seq(Entries)
  PROVE  /\ SameItems(Spliced(map, s, items), map)
         /\ Points(map, a) => Points(Spliced(map, s, items), Applied(a, s, items))
<1>1. PICK n, m, r : n = s.index /\ m = s.addedCount /\ r = Len(s.removed)
  OBVIOUS
<1>2. n \in Nat /\ m \in Nat /\ r \in Nat /\ Len(a) \in Nat /\ Len(map) \in Nat
  BY <1>1 DEF SplicesOver
<1>3. PICK new : new = Spliced(map, s, items)
  OBVIOUS
<1>4. PICK t : t = Applied(a, s, items)
  OBVIOUS
<1>5. DOMAIN map = 1 .. Len(map) /\ \A k \in 1 .. Len(map) : map[k] \in Entries
  OBVIOUS
<1> DEFINE Of(k) == {i \in n .. n + m - 1 : items[i + 1] = map[k].item}
<1>6. /\ \E D : t \in Seq(D)
      /\ \A i \in n .. n + m - 1 : i + 1 \in 1 .. Len(t) /\ t[i + 1] = items[i + 1]
      /\ \A i \in 1 .. n : i \in 1 .. Len(t) /\ (i <= Len(a) => t[i] = a[i])
      /\ \A i \in 1 .. Len(a) : i > n + r => i + m - r \in 1 .. Len(t) /\ t[i + m - r] = a[i]
  BY <1>1, <1>4, AppliedIs
<1>7. ASSUME NEW k \in 1 .. Len(map)
      PROVE  /\ new[k] \in Entries /\ new[k].item = map[k].item
             /\ Points(map, a) /\ new[k].idx >= 0 =>
                   new[k].idx + 1 \in 1 .. Len(t) /\ t[new[k].idx + 1] = map[k].item
  <2>1. map[k] \in Entries /\ map[k].idx \in Int
    BY <1>5 DEF Entries
  <2>2. CASE Of(k) # {}
    <3>1. PICK i : i = CHOOSE j \in Of(k) : TRUE
      OBVIOUS
    <3>2. i \in Of(k)
      BY <2>2, <3>1
    <3>3. new[k] = [map[k] EXCEPT !.idx = i]
      BY <1>1, <1>3, <1>5, <2>2, <3>1 DEF Spliced
    <3>4. i \in n .. n + m - 1 /\ items[i + 1] = map[k].item /\ i \in Int
      BY <1>2, <3>2
    <3>5. new[k] \in Entries /\ new[k].idx = i /\ new[k].item = map[k].item
      BY <2>1, <3>3, <3>4 DEF Entries
    <3>6. QED
      BY <1>6, <3>4, <3>5
  <2>3. CASE Of(k) = {}
    <3>1. new[k] = Shifted(map, s)[k]
      BY <1>1, <1>3, <1>5, <2>3 DEF Spliced
    <3>2. CASE map[k].idx < n
      <4>1. new[k] = map[k]
        BY <1>1, <1>2, <1>5, <2>1, <3>1, <3>2 DEF Shifted
      <4>2. ASSUME Points(map, a), map[k].idx >= 0
            PROVE  map[k].idx + 1 \in 1 .. Len(t) /\ t[map[k].idx + 1] = map[k].item
        <5>1. map[k].idx + 1 \in 1 .. n
          BY <1>2, <2>1, <3>2, <4>2
        <5>2. map[k].idx + 1 \in 1 .. Len(a) /\ a[map[k].idx + 1] = map[k].item
          BY <4>2 DEF Points
        <5>3. map[k].idx + 1 <= Len(a)
          BY <5>2
        <5>4. QED
          BY <1>6, <5>1, <5>2, <5>3
      <4>3. QED
        BY <2>1, <4>1, <4>2
    <3>3. CASE map[k].idx >= n + r
      <4>1. ~(map[k].idx < n)
        BY <1>2, <2>1, <3>3
      <4>2. new[k] = [map[k] EXCEPT !.idx = @ + m - r]
        BY <1>1, <1>5, <3>1, <3>3, <4>1 DEF Shifted
      <4>3. new[k] \in Entries /\ new[k].idx = map[k].idx + m - r /\ new[k].item = map[k].item
        <5>1. PICK v : v = map[k].idx + m - r
          OBVIOUS
        <5>2. v \in Int
          BY <1>2, <2>1, <5>1
        <5>3. new[k] = [map[k] EXCEPT !.idx = v]
          BY <4>2, <5>1
        <5>4. QED
          BY <2>1, <5>1, <5>2, <5>3 DEF Entries
      <4>4. Points(map, a) => map[k].idx + 1 \in 1 .. Len(a) /\ a[map[k].idx + 1] = map[k].item
        BY <1>2, <2>1, <3>3 DEF Points
      <4>5. map[k].idx + 1 > n + r /\ (map[k].idx + 1) + m - r = new[k].idx + 1
        BY <1>2, <2>1, <3>3, <4>3
      <4>6. QED
        BY <1>6, <4>3, <4>4, <4>5
    <3>4. CASE ~(map[k].idx < n) /\ ~(map[k].idx >= n + r)
      <4>1. new[k] = [map[k] EXCEPT !.idx = -1]
        BY <1>1, <1>5, <3>1, <3>4 DEF Shifted
      <4>2. new[k] \in Entries /\ new[k].idx = -1 /\ new[k].item = map[k].item
        <5>1. PICK v \in Int : v = -1
          OBVIOUS
        <5>2. new[k] = [map[k] EXCEPT !.idx = v]
          BY <4>1, <5>1
        <5>3. QED
          BY <2>1, <5>1, <5>2 DEF Entries
      <4>3. QED
        BY <4>2
    <3>5. QED
      BY <3>2, <3>3, <3>4
  <2>4. QED
    BY <2>2, <2>3
<1>8. new \in Seq(Entries) /\ Len(new) = Len(map)
  <2>1. new = [k \in 1 .. Len(map) |-> new[k]]
    BY <1>3, <1>5 DEF Spliced
  <2>2. QED
    BY <1>2, <1>7, <2>1
<1>9. QED
  BY <1>3, <1>4, <1>7, <1>8 DEF SameItems, Points

(* The table of what a selection is after each splice; there is one.        *)
SplicedTable(after, N, splices, items) ==
    [n \in 0 .. N |-> IF n = 0 THEN selection ELSE Spliced(after[n - 1], splices[n], items)]

LEMMA SplicedTableExists ==
  ASSUME NEW N \in Nat, NEW splices, NEW items
  PROVE  \E f : f = SplicedTable(f, N, splices, items)
<1> DEFINE S == {n \in Nat : \E f : f = SplicedTable(f, n, splices, items)}
<1>1. 0 \in S
  <2>1. PICK f : f = [n \in 0 .. 0 |-> selection]
    OBVIOUS
  <2>2. \A n \in 0 .. 0 : n = 0
    OBVIOUS
  <2>3. f = SplicedTable(f, 0, splices, items)
    BY <2>1, <2>2 DEF SplicedTable
  <2>4. QED
    BY <2>3
<1>2. ASSUME NEW n \in Nat, n \in S PROVE n + 1 \in S
  <2>1. PICK f : f = SplicedTable(f, n, splices, items)
    BY <1>2
  <2>2. PICK g : g = [k \in 0 .. n + 1 |-> IF k <= n THEN f[k] ELSE Spliced(f[n], splices[n + 1], items)]
    OBVIOUS
  <2>3. ASSUME NEW k \in 0 .. n + 1
        PROVE  g[k] = IF k = 0 THEN selection ELSE Spliced(g[k - 1], splices[k], items)
    <3>1. CASE k <= n
      <4>1. g[k] = f[k] /\ k \in 0 .. n
        BY <2>2, <3>1
      <4>2. k # 0 => k - 1 \in 0 .. n + 1 /\ k - 1 <= n
        OBVIOUS
      <4>3. k # 0 => g[k - 1] = f[k - 1]
        BY <2>2, <4>2
      <4>4. f[k] = IF k = 0 THEN selection ELSE Spliced(f[k - 1], splices[k], items)
        BY <2>1, <4>1 DEF SplicedTable
      <4>5. QED
        BY <4>1, <4>3, <4>4
    <3>2. CASE k = n + 1
      <4>1. g[k] = Spliced(f[n], splices[n + 1], items) /\ g[n] = f[n]
        BY <2>2, <3>2
      <4>2. k # 0 /\ k - 1 = n
        BY <3>2
      <4>3. QED
        BY <3>2, <4>1, <4>2
    <3>3. QED
      BY <3>1, <3>2
  <2>4. g = SplicedTable(g, n + 1, splices, items)
    BY <2>2, <2>3 DEF SplicedTable
  <2>5. QED
    BY <2>4
<1>3. Nat \subseteq S
  <2> HIDE DEF S
  <2>1. QED
    BY <1>1, <1>2, SetInduction
<1>4. QED
  BY <1>3

(* All splices: the indices lead to the items in the array that they make.  *)
LEMMA AllSplicedPoints ==
  ASSUME NEW E, NEW splices \in Seq(SplicesOver(E)), NEW items, NEW old \in Seq(E),
         selection \in Seq(Entries)
  PROVE  /\ SameItems(AllSpliced(splices, items), selection)
         /\ Points(selection, old) =>
               Points(AllSpliced(splices, items), AllSplices(splices, items, old))
<1>1. PICK N : N = Len(splices)
  OBVIOUS
<1>2. N \in Nat /\ \A n \in 1 .. N : splices[n] \in SplicesOver(E)
  BY <1>1
<1>3. PICK h : h = ArraysTable(h, N, splices, items, old) /\ AllSplices(splices, items, old) = h[N]
  BY <1>1, <1>2, ArraysAre DEF AllSplices
<1> DEFINE Body(f) == SplicedTable(f, Len(splices), splices, items)
           after == CHOOSE f : f = Body(f)
<1>4. AllSpliced(splices, items) = after[Len(splices)]
  BY DEF AllSpliced, SplicedTable
<1>5. \E f : f = Body(f)
  BY <1>1, <1>2, SplicedTableExists
<1>6. after = Body(after)
  <2> HIDE DEF Body
  <2>1. QED
    BY <1>5
<1>7. PICK g : g = after
  OBVIOUS
<1>8. g = SplicedTable(g, N, splices, items) /\ AllSpliced(splices, items) = g[N]
  BY <1>1, <1>4, <1>6, <1>7
<1> HIDE DEF Body, after
<1> DEFINE S == {n \in 0 .. N : /\ SameItems(g[n], selection)
                                /\ \E F : h[n] \in Seq(F)
                                /\ Points(selection, old) => Points(g[n], h[n])}
<1>9. 0 \in S
  <2>1. g[0] = selection /\ h[0] = old
    BY <1>2, <1>3, <1>8 DEF SplicedTable, ArraysTable
  <2>2. QED
    BY <1>2, <2>1 DEF SameItems
<1>10. ASSUME NEW n \in 0 .. N - 1, n \in S PROVE n + 1 \in S
  <2>1. n + 1 \in 0 .. N /\ n + 1 # 0 /\ (n + 1) - 1 = n /\ n + 1 \in 1 .. N
    BY <1>2
  <2>2. PICK s : s = splices[n + 1]
    OBVIOUS
  <2>3. s \in SplicesOver(E)
    BY <1>2, <2>1, <2>2
  <2>4. g[n + 1] = Spliced(g[n], s, items)
    BY <1>8, <2>1, <2>2 DEF SplicedTable
  <2>5. h[n + 1] = Applied(h[n], s, items)
    BY <1>3, <2>1, <2>2 DEF ArraysTable
  <2>6. PICK F : h[n] \in Seq(F)
    BY <1>10
  <2>7. g[n] \in Seq(Entries)
    BY <1>10 DEF SameItems
  <2>8. \E D : h[n + 1] \in Seq(D)
    BY <2>3, <2>5, <2>6, AppliedIs
  <2>9. /\ SameItems(g[n + 1], g[n])
        /\ Points(g[n], h[n]) => Points(g[n + 1], h[n + 1])
    BY <2>3, <2>4, <2>5, <2>6, <2>7, SplicedPoints
  <2>10. SameItems(g[n + 1], selection)
    BY <1>10, <2>9 DEF SameItems
  <2>11. QED
    BY <1>10, <2>1, <2>8, <2>9, <2>10
<1>11. 0 .. N \subseteq S
  <2> HIDE DEF S
  <2>1. QED
    BY <1>2, <1>9, <1>10, BoundedInduction
<1>12. N \in 0 .. N
  BY <1>2
<1>13. QED
  BY <1>3, <1>8, <1>11, <1>12

-----------------------------------------------------------------------------
(* The items of a map.                                                      *)
LEMMA KeysAre ==
  ASSUME NEW map \in Seq(Entries)
  PROVE  /\ Keys(map) \in Seq(Pool) /\ Len(Keys(map)) = Len(map)
         /\ \A k \in 1 .. Len(map) : Keys(map)[k] = map[k].item
<1>1. DOMAIN map = 1 .. Len(map) /\ Len(map) \in Nat /\ \A k \in 1 .. Len(map) : map[k] \in Entries
  OBVIOUS
<1>2. \A k \in 1 .. Len(map) : map[k].item \in Pool
  BY <1>1 DEF Entries
<1>3. Keys(map) = [k \in 1 .. Len(map) |-> map[k].item]
  BY <1>1 DEF Keys
<1>4. QED
  BY <1>1, <1>2, <1>3

(* The map has what is selected, each item once; more than one, and found   *)
(* at its index, only if several may be selected.                           *)
SelectorInv ==
    /\ multi \in BOOLEAN /\ array \in Seq(Pool)
    /\ selection \in Seq(Entries) /\ Distinct(selection)
    /\ selected = Chosen(selection) /\ links = LinksOf(selection)
    /\ ~multi => Len(selection) <= 1
    /\ multi => AllThere(selection) /\ Points(selection, array)

(* No two items have the same index, and the links lead back from it.       *)
LEMMA LinksLead ==
  ASSUME multi, NEW map \in Seq(Entries), NEW a, AllThere(map), Distinct(map), Points(map, a)
  PROVE  /\ DOMAIN LinksOf(map) = {map[k].idx : k \in 1 .. Len(map)}
         /\ \A k \in 1 .. Len(map) : LinksOf(map)[map[k].idx] = k
         /\ \A j, k \in 1 .. Len(map) : map[j].idx = map[k].idx => j = k
<1>1. Remaining(map) = map
  BY AllRemain
<1>2. DOMAIN map = 1 .. Len(map)
  OBVIOUS
<1>3. PICK f : f = LinksOf(map)
  OBVIOUS
<1>4. f = [i \in {map[k].idx : k \in 1 .. Len(map)} |-> CHOOSE k \in 1 .. Len(map) : map[k].idx = i]
  BY <1>1, <1>2, <1>3 DEF LinksOf
<1>5. \A j, k \in 1 .. Len(map) : map[j].idx = map[k].idx => j = k
  BY DEF AllThere, Distinct, Points
<1>6. \A k \in 1 .. Len(map) : f[map[k].idx] = k
  BY <1>4, <1>5
<1>7. QED
  BY <1>3, <1>4, <1>5, <1>6

(* Splices that lead to the current array.                                  *)
LEMMA ApplyingKeeps ==
  ASSUME SelectorInv, NEW E, NEW splices \in Seq(SplicesOver(E)), array \in Seq(E),
         NEW items \in Seq(Pool),
         AllSplices(splices, items, array) = items, ApplySplices(splices, items),
         array' = items, multi' = multi
  PROVE  SelectorInv'
<1>1. PICK map, kept : map = AllSpliced(splices, items) /\ kept = Remaining(map)
  OBVIOUS
<1>2. /\ selection' = kept /\ links' = LinksOf(map)
      /\ selected' = IF kept = map THEN selected ELSE Chosen(kept)
  BY <1>1 DEF ApplySplices
<1>3. SameItems(map, selection) /\ (Points(selection, array) => Points(map, items))
  BY <1>1, AllSplicedPoints DEF SelectorInv
<1>4. map \in Seq(Entries)
  BY <1>3 DEF SameItems
<1>5. RemainsOf(kept, Len(map), map)
  BY <1>1, <1>4, RemainingIs
<1>6. kept \in Seq(Entries) /\ Len(kept) <= Len(selection)
  BY <1>3, <1>5 DEF RemainsOf, SameItems
<1>7. Distinct(map)
  BY <1>3 DEF SelectorInv, SameItems, Distinct
<1>8. Distinct(kept)
  BY <1>5, <1>7 DEF RemainsOf
<1>9. AllThere(kept)
  BY <1>5 DEF RemainsOf, AllThere
<1>10. Remaining(kept) = kept
  BY <1>6, <1>9, AllRemain
<1>11. LinksOf(map) = LinksOf(kept)
  BY <1>1, <1>10 DEF LinksOf
<1>12. ASSUME multi PROVE Points(kept, items)
  <2>1. Points(map, items)
    BY <1>3, <1>12 DEF SelectorInv
  <2>2. \A k \in 1 .. Len(kept) : \E j \in 1 .. Len(map) : kept[k] = map[j]
    BY <1>5 DEF RemainsOf
  <2>3. QED
    BY <2>1, <2>2 DEF Points
<1>13. selected' = Chosen(kept)
  <2>1. CASE kept = map
    <3>1. /\ DOMAIN map = 1 .. Len(map) /\ DOMAIN selection = 1 .. Len(selection)
          /\ Len(map) = Len(selection) /\ \A k \in 1 .. Len(map) : map[k].item = selection[k].item
      BY <1>3 DEF SameItems, SelectorInv
    <3>2. Keys(map) = Keys(selection)
      BY <3>1 DEF Keys
    <3>3. map = <<>> <=> selection = <<>>
      BY <1>4, <3>1 DEF SelectorInv
    <3>4. map # <<>> => 1 \in 1 .. Len(map)
      BY <1>4
    <3>5. Chosen(map) = Chosen(selection)
      BY <3>1, <3>2, <3>3, <3>4 DEF Chosen
    <3>6. QED
      BY <1>2, <2>1, <3>5 DEF SelectorInv
  <2>2. CASE kept # map
    BY <1>2, <2>2
  <2>3. QED
    BY <2>1, <2>2
<1>14. selected' = Chosen(selection)' /\ links' = LinksOf(selection)'
  BY <1>2, <1>11, <1>13 DEF Chosen, LinksOf
<1>15. selection' \in Seq(Entries) /\ Distinct(selection') /\ AllThere(selection')
  BY <1>2, <1>6, <1>8, <1>9
<1>16. ~multi' => Len(selection') <= 1
  BY <1>2, <1>6 DEF SelectorInv
<1>17. multi' => Points(selection', array')
  BY <1>2, <1>12
<1>18. multi' \in BOOLEAN /\ array' \in Seq(Pool)
  BY DEF SelectorInv
<1>19. QED
  BY <1>14, <1>15, <1>16, <1>17, <1>18 DEF SelectorInv

(* A sequence without its k-th element.                                     *)
IsWithout(w, s, k, E) ==
    /\ w \in Seq(E) /\ Len(w) = Len(s) - 1
    /\ \A j \in 1 .. Len(s) - 1 : w[j] = s[IF j < k THEN j ELSE j + 1]

LEMMA WithoutIs ==
  ASSUME NEW E, NEW s \in Seq(E), NEW k \in 1 .. Len(s)
  PROVE  IsWithout(Without(s, k), s, k, E)
<1>1. PICK x, y, w, n : x = SubSeq(s, 1, k - 1) /\ y = SubSeq(s, k + 1, Len(s)) /\ w = x \o y /\ n = Len(s)
  OBVIOUS
<1>2. n \in Nat /\ k \in 1 .. n
  BY <1>1
<1>3. x \in Seq(E) /\ Len(x) = k - 1 /\ \A i \in 1 .. k - 1 : x[i] = s[i]
  <2>1. 0 \in Nat /\ k - 1 \in Nat /\ 0 <= k - 1 /\ k - 1 <= Len(s) /\ 0 + 1 = 1 /\ (k - 1) - 0 = k - 1
    BY <1>1, <1>2
  <2>2. IsPart(SubSeq(s, 0 + 1, k - 1), s, 0, k - 1, E)
    BY <2>1, PartIs
  <2>3. QED
    BY <1>1, <2>1, <2>2 DEF IsPart
<1>4. y \in Seq(E) /\ Len(y) = n - k /\ \A i \in 1 .. n - k : y[i] = s[k + i]
  <2>1. IsPart(SubSeq(s, k + 1, n), s, k, n, E)
    BY <1>1, <1>2, PartIs
  <2>2. QED
    BY <1>1, <2>1 DEF IsPart
<1>5. w \in Seq(E) /\ Len(w) = n - 1 /\ IsJoined(w, x, y)
  <2>1. x \in Seq(E) /\ y \in Seq(E)
    BY <1>3, <1>4
  <2>2. w \in Seq(E) /\ Len(w) = Len(x) + Len(y) /\ IsJoined(w, x, y)
    BY <1>1, <2>1, TwoParts
  <2>3. (k - 1) + (n - k) = n - 1
    BY <1>2
  <2>4. QED
    BY <1>3, <1>4, <2>2, <2>3
<1>6. ASSUME NEW j \in 1 .. n - 1 PROVE w[j] = s[IF j < k THEN j ELSE j + 1]
  <2>1. CASE j < k
    BY <1>2, <1>3, <1>5, <2>1 DEF IsJoined
  <2>2. CASE ~(j < k)
    <3>1. PICK i : i = j - (k - 1)
      OBVIOUS
    <3>2. i \in 1 .. n - k /\ (k - 1) + i = j /\ k + i = j + 1
      BY <1>2, <2>2, <3>1
    <3>3. w[j] = y[i]
      BY <1>3, <1>4, <1>5, <3>2 DEF IsJoined
    <3>4. QED
      BY <1>4, <2>2, <3>2, <3>3
  <2>3. QED
    BY <2>1, <2>2
<1>7. QED
  BY <1>1, <1>5, <1>6 DEF Without, IsWithout

(* Deselected: what is left is selected as before.                          *)
LEMMA DeselectKeeps ==
  ASSUME SelectorInv, NEW item, Deselect(item), multi' = multi, array' \in Seq(Pool),
         multi => \A k \in 1 .. Len(selection) :
                     selection[k].item # item => Points(<<selection[k]>>, array')
  PROVE  SelectorInv'
<1>1. PICK k \in DOMAIN selection :
         /\ selection[k].item = item
         /\ selection' = Without(selection, k)
         /\ selected' = IF multi THEN Without(selected, links[selection[k].idx]) ELSE NoItem
         /\ links' = LinksOf(Without(selection, k))
  BY DEF Deselect
<1>2. PICK s, n, w : s = selection /\ n = Len(selection) /\ w = Without(selection, k)
  OBVIOUS
<1>3. s \in Seq(Entries) /\ n = Len(s) /\ n \in Nat /\ DOMAIN s = 1 .. n /\ k \in 1 .. n
  BY <1>1, <1>2 DEF SelectorInv
<1>4. IsWithout(w, s, k, Entries)
  BY <1>2, <1>3, WithoutIs
<1>5. w \in Seq(Entries) /\ Len(w) = n - 1 /\ \A j \in 1 .. n - 1 : w[j] = s[IF j < k THEN j ELSE j + 1]
  BY <1>3, <1>4 DEF IsWithout
<1>6. \A j \in 1 .. n - 1 : (IF j < k THEN j ELSE j + 1) \in 1 .. n /\ (IF j < k THEN j ELSE j + 1) # k
  BY <1>3
<1>7. Distinct(w)
  <2>1. ASSUME NEW i \in 1 .. n - 1, NEW j \in 1 .. n - 1, w[i].item = w[j].item PROVE i = j
    <3>1. (IF i < k THEN i ELSE i + 1) = (IF j < k THEN j ELSE j + 1)
      BY <1>2, <1>3, <1>5, <1>6, <2>1 DEF SelectorInv, Distinct
    <3>2. QED
      BY <1>3, <3>1
  <2>2. QED
    BY <1>5, <2>1 DEF Distinct
<1>8. ASSUME multi PROVE AllThere(w) /\ Points(w, array')
  <2>1. ASSUME NEW j \in 1 .. n - 1
        PROVE  /\ w[j].idx >= 0
               /\ w[j].idx + 1 \in 1 .. Len(array') /\ array'[w[j].idx + 1] = w[j].item
    <3>1. PICK i \in 1 .. n : w[j] = s[i] /\ i # k
      BY <1>5, <1>6
    <3>2. s[i].item # item /\ s[i].idx >= 0
      BY <1>1, <1>2, <1>3, <1>8, <3>1 DEF SelectorInv, Distinct, AllThere
    <3>3. Points(<<s[i]>>, array')
      BY <1>2, <1>3, <1>8, <3>1, <3>2
    <3>4. Len(<<s[i]>>) = 1 /\ <<s[i]>>[1] = s[i] /\ 1 \in 1 .. 1
      OBVIOUS
    <3>5. QED
      BY <3>1, <3>2, <3>3, <3>4 DEF Points
  <2>2. QED
    BY <1>5, <2>1 DEF AllThere, Points
<1>9. selected' = Chosen(w)
  <2>1. CASE multi
    <3>1. links[s[k].idx] = k
      BY <1>2, <1>3, <2>1, LinksLead DEF SelectorInv
    <3>2. PICK q : q = Keys(s)
      OBVIOUS
    <3>3. q \in Seq(Pool) /\ Len(q) = n /\ \A j \in 1 .. n : q[j] = s[j].item
      BY <1>3, <3>2, KeysAre
    <3>4. selected = q /\ selected' = Without(q, k)
      BY <1>1, <1>2, <2>1, <3>1, <3>2 DEF SelectorInv, Chosen
    <3>5. PICK v : v = Without(q, k)
      OBVIOUS
    <3>6. IsWithout(v, q, k, Pool)
      BY <1>3, <3>3, <3>5, WithoutIs
    <3>7. v \in Seq(Pool) /\ Len(v) = n - 1 /\ \A j \in 1 .. n - 1 : v[j] = q[IF j < k THEN j ELSE j + 1]
      BY <3>3, <3>6 DEF IsWithout
    <3>8. PICK u : u = Keys(w)
      OBVIOUS
    <3>9. u \in Seq(Pool) /\ Len(u) = n - 1 /\ \A j \in 1 .. n - 1 : u[j] = w[j].item
      BY <1>5, <3>8, KeysAre
    <3>10. \A j \in 1 .. n - 1 : u[j] = v[j]
      BY <1>5, <1>6, <3>3, <3>7, <3>9
    <3>11. u = v
      BY <3>7, <3>9, <3>10, SeqEqual
    <3>12. QED
      BY <2>1, <3>4, <3>5, <3>8, <3>11 DEF Chosen
  <2>2. CASE ~multi
    <3>1. n <= 1
      BY <1>2, <2>2 DEF SelectorInv
    <3>2. Len(w) = 0
      BY <1>3, <1>5, <3>1
    <3>3. w = <<>>
      BY <1>5, <3>2
    <3>4. QED
      BY <1>1, <2>2, <3>3 DEF Chosen
  <2>3. QED
    BY <2>1, <2>2
<1>10. selected' = Chosen(selection)' /\ links' = LinksOf(selection)'
  BY <1>1, <1>2, <1>9 DEF Chosen, LinksOf
<1>11. ~multi' => Len(selection') <= 1
  BY <1>1, <1>2, <1>3, <1>5 DEF SelectorInv
<1>12. multi' \in BOOLEAN
  BY DEF SelectorInv
<1>13. QED
  BY <1>1, <1>2, <1>5, <1>7, <1>8, <1>10, <1>11, <1>12 DEF SelectorInv

(* One item more, or another one.                                           *)
LEMMA SelectKeeps ==
  ASSUME SelectorInv, NEW idx \in Nat, idx < Len(array), ~IsSelected(array[idx + 1]),
         selection' = (IF multi THEN selection ELSE <<>>) \o <<[item |-> array[idx + 1], idx |-> idx]>>,
         links' = LinksOf(selection'),
         selected' = IF multi THEN Append(selected, array[idx + 1]) ELSE array[idx + 1],
         multi' = multi, array' = array
  PROVE  SelectorInv'
<1>1. PICK e, s, w : /\ e = [item |-> array[idx + 1], idx |-> idx]
                     /\ s = IF multi THEN selection ELSE <<>>
                     /\ w = Append(s, e)
  OBVIOUS
<1>2. array \in Seq(Pool) /\ idx + 1 \in 1 .. Len(array) /\ array[idx + 1] \in Pool
  BY DEF SelectorInv
<1>3. e \in Entries /\ e.item = array[idx + 1] /\ e.idx = idx
  BY <1>1, <1>2 DEF Entries
<1>4. s \in Seq(Entries) /\ Len(s) \in Nat
  BY <1>1 DEF SelectorInv
<1>5. w = selection'
  <2>1. s \o <<e>> = Append(s, e)
    BY <1>3, <1>4
  <2>2. QED
    BY <1>1, <2>1
<1>6. /\ w \in Seq(Entries) /\ Len(w) = Len(s) + 1 /\ w[Len(s) + 1] = e
      /\ \A k \in 1 .. Len(s) : w[k] = s[k]
  BY <1>1, <1>3, <1>4
<1>7. \A k \in 1 .. Len(w) : k \in 1 .. Len(s) \/ k = Len(s) + 1
  BY <1>4, <1>6
<1>8. \A k \in 1 .. Len(s) : s[k].item # e.item
  <2>1. CASE multi
    <3>1. /\ Keys(selection) \in Seq(Pool) /\ Len(Keys(selection)) = Len(selection)
          /\ \A k \in 1 .. Len(selection) : Keys(selection)[k] = selection[k].item
      BY KeysAre DEF SelectorInv
    <3>2. \A k \in 1 .. Len(selection) : Keys(selection)[k] \in Range(Keys(selection))
      BY <3>1 DEF Range
    <3>3. QED
      BY <1>1, <1>3, <2>1, <3>1, <3>2 DEF IsSelected
  <2>2. CASE ~multi
    BY <1>1, <2>2
  <2>3. QED
    BY <2>1, <2>2
<1>9. Distinct(s)
  BY <1>1 DEF SelectorInv, Distinct
<1>10. Distinct(w)
  BY <1>4, <1>6, <1>7, <1>8, <1>9 DEF Distinct
<1>11. ASSUME multi PROVE AllThere(w) /\ Points(w, array)
  <2>1. AllThere(s) /\ Points(s, array)
    BY <1>1, <1>11 DEF SelectorInv
  <2>2. ASSUME NEW k \in 1 .. Len(w)
        PROVE  w[k].idx >= 0 /\ w[k].idx + 1 \in 1 .. Len(array) /\ array[w[k].idx + 1] = w[k].item
    <3>1. CASE k \in 1 .. Len(s)
      <4>1. w[k] = s[k] /\ s[k].idx >= 0
        BY <1>6, <2>1, <3>1 DEF AllThere
      <4>2. QED
        BY <2>1, <3>1, <4>1 DEF Points
    <3>2. CASE k = Len(s) + 1
      <4>1. w[k] = e /\ idx >= 0
        BY <1>6, <3>2
      <4>2. QED
        BY <1>2, <1>3, <4>1
    <3>3. QED
      BY <1>7, <3>1, <3>2
  <2>3. QED
    BY <2>2 DEF AllThere, Points
<1>12. selected' = Chosen(w)
  <2>1. CASE multi
    <3>1. PICK q, u : q = Append(Keys(s), array[idx + 1]) /\ u = Keys(w)
      OBVIOUS
    <3>2. /\ Keys(s) \in Seq(Pool) /\ Len(Keys(s)) = Len(s)
          /\ \A k \in 1 .. Len(s) : Keys(s)[k] = s[k].item
      BY <1>4, KeysAre
    <3>3. /\ q \in Seq(Pool) /\ Len(q) = Len(s) + 1 /\ q[Len(s) + 1] = array[idx + 1]
          /\ \A k \in 1 .. Len(s) : q[k] = s[k].item
      BY <1>2, <3>1, <3>2
    <3>4. u \in Seq(Pool) /\ Len(u) = Len(w) /\ \A k \in 1 .. Len(w) : u[k] = w[k].item
      BY <1>6, <3>1, KeysAre
    <3>5. \A k \in 1 .. Len(w) : u[k] = q[k]
      BY <1>3, <1>6, <1>7, <3>3, <3>4
    <3>6. u = q
      BY <1>6, <3>3, <3>4, <3>5, SeqEqual
    <3>7. QED
      BY <1>1, <2>1, <3>1, <3>6 DEF SelectorInv, Chosen
  <2>2. CASE ~multi
    <3>1. Len(s) = 0
      BY <1>1, <2>2
    <3>2. Len(w) = 1 /\ w[1] = e /\ w # <<>>
      <4>1. Len(w) = 1 /\ w[1] = e
        BY <1>6, <3>1
      <4>2. Len(<<>>) = 0
        OBVIOUS
      <4>3. w = <<>> => Len(w) = Len(<<>>)
        OBVIOUS
      <4>4. QED
        BY <4>1, <4>2, <4>3
    <3>3. QED
      BY <1>3, <2>2, <3>2 DEF Chosen
  <2>3. QED
    BY <2>1, <2>2
<1>13. selected' = Chosen(selection)' /\ links' = LinksOf(selection)'
  BY <1>5, <1>12 DEF Chosen, LinksOf
<1>14. ~multi' => Len(selection') <= 1
  BY <1>1, <1>5, <1>6
<1>15. multi' \in BOOLEAN
  BY DEF SelectorInv
<1>16. QED
  BY <1>2, <1>5, <1>6, <1>10, <1>11, <1>13, <1>14, <1>15 DEF SelectorInv

(* An item is set: what was selected there is deselected.                   *)
LEMMA SetItemKeeps ==
  ASSUME SelectorInv, NEW idx \in Nat, NEW item \in Pool, SetItem(idx, item)
  PROVE  SelectorInv'
<1>1. PICK s : s = selection /\ s \in Seq(Entries) /\ DOMAIN s = 1 .. Len(s)
  BY DEF SelectorInv
<1>2. idx < Len(array) /\ array' = [array EXCEPT ![idx + 1] = item] /\ multi' = multi
  BY DEF SetItem
<1>3. array \in Seq(Pool) /\ Len(array) \in Nat
  BY DEF SelectorInv
<1>4. /\ array' \in Seq(Pool) /\ Len(array') = Len(array)
      /\ \A i \in 1 .. Len(array) : i # idx + 1 => array'[i] = array[i]
  BY <1>2, <1>3
<1>5. ASSUME multi, NEW k \in 1 .. Len(s), s[k].idx # idx
      PROVE  /\ s[k].idx + 1 \in 1 .. Len(array') /\ array'[s[k].idx + 1] = s[k].item
  <2>1. s[k].idx \in Int
    <3>1. s[k] \in Entries
      BY <1>1
    <3>2. QED
      BY <3>1 DEF Entries
  <2>2. s[k].idx + 1 \in 1 .. Len(array) /\ array[s[k].idx + 1] = s[k].item
    BY <1>1, <1>5 DEF SelectorInv, AllThere, Points
  <2>3. s[k].idx + 1 # idx + 1
    BY <1>5, <2>1
  <2>4. QED
    BY <1>4, <2>2, <2>3
<1>6. CASE idx \in DOMAIN links
  <2>1. multi
    <3>1. ~multi => links = <<>>
      BY DEF SelectorInv, LinksOf
    <3>2. DOMAIN <<>> = {}
      OBVIOUS
    <3>3. QED
      BY <1>6, <3>1, <3>2 DEF SelectorInv
  <2>2. /\ DOMAIN links = {s[k].idx : k \in 1 .. Len(s)}
        /\ \A k \in 1 .. Len(s) : links[s[k].idx] = k
        /\ \A j, k \in 1 .. Len(s) : s[j].idx = s[k].idx => j = k
    BY <1>1, <2>1, LinksLead DEF SelectorInv
  <2>3. PICK k \in 1 .. Len(s) : s[k].idx = idx
    BY <1>6, <2>2
  <2>4. links[idx] = k
    BY <2>2, <2>3
  <2>5. Deselect(s[k].item)
    BY <1>1, <1>6, <2>4 DEF SetItem
  <2>6. ASSUME NEW j \in 1 .. Len(s), s[j].item # s[k].item PROVE Points(<<s[j]>>, array')
    <3>1. s[j].idx # idx
      BY <2>2, <2>3, <2>6
    <3>2. s[j].idx + 1 \in 1 .. Len(array') /\ array'[s[j].idx + 1] = s[j].item
      BY <1>5, <2>1, <3>1
    <3>3. Len(<<s[j]>>) = 1 /\ \A i \in 1 .. 1 : <<s[j]>>[i] = s[j]
      OBVIOUS
    <3>4. QED
      BY <3>2, <3>3 DEF Points
  <2>7. QED
    BY <1>1, <1>2, <1>4, <2>5, <2>6, DeselectKeeps
<1>7. CASE idx \notin DOMAIN links
  <2>1. selection' = selection /\ selected' = selected /\ links' = links
    BY <1>7 DEF SetItem
  <2>2. ASSUME multi PROVE AllThere(s) /\ Points(s, array')
    <3>1. AllThere(s) /\ DOMAIN links = {s[k].idx : k \in 1 .. Len(s)}
      BY <1>1, <2>2, LinksLead DEF SelectorInv
    <3>2. \A k \in 1 .. Len(s) : s[k].idx # idx
      BY <1>7, <3>1
    <3>3. QED
      BY <1>5, <2>2, <3>1, <3>2 DEF Points
  <2>3. selected' = Chosen(selection)' /\ links' = LinksOf(selection)'
    BY <1>2, <2>1 DEF SelectorInv, Chosen, LinksOf
  <2>4. QED
    BY <1>1, <1>2, <1>4, <2>1, <2>2, <2>3 DEF SelectorInv
<1>8. QED
  BY <1>6, <1>7

(* Another array.                                                           *)
LEMMA SetArrayKeeps ==
  ASSUME SelectorInv, NEW items \in Seq(Pool), SetArray(items)
  PROVE  SelectorInv'
<1>1. PICK T : T = CalculateSplices(items, array)
  OBVIOUS
<1>2. array \in Seq(Pool)
  BY DEF SelectorInv
<1>3. T \in Seq(SplicesOver(Pool))
  BY <1>1, <1>2, CalculatedLead DEF Leads
<1>4. AllSplices(T, items, array) = items
  BY <1>1, <1>2, CalculatedAreExact
<1>5. array' = items /\ ApplySplices(T, items) /\ multi' = multi
  BY <1>1 DEF SetArray
<1>6. QED
  BY <1>2, <1>3, <1>4, <1>5, ApplyingKeeps

(* One splice, as it was made.                                              *)
LEMMA SpliceArrayKeeps ==
  ASSUME SelectorInv, NEW index \in Nat, NEW count \in Nat, NEW added \in Seq(Pool),
         SpliceArray(index, count, added)
  PROVE  SelectorInv'
<1>1. PICK items, s : /\ items = SubSeq(array, 1, index) \o added \o SubSeq(array, index + count + 1, Len(array))
                      /\ s = NewSplice(index, SubSeq(array, index + 1, index + count), Len(added))
  OBVIOUS
<1>2. /\ index + count <= Len(array) /\ array' = items /\ multi' = multi
      /\ ApplySplices(<<s>>, items)
  BY <1>1 DEF SpliceArray
<1>3. array \in Seq(Pool) /\ Len(array) \in Nat
  BY DEF SelectorInv
<1>4. PICK x, y, r : /\ x = SubSeq(array, 1, index) /\ y = SubSeq(array, index + count + 1, Len(array))
                     /\ r = SubSeq(array, index + 1, index + count)
  OBVIOUS
<1>5. x \in Seq(Pool) /\ Len(x) = index
  <2>1. 0 \in Nat /\ 0 <= index /\ index <= Len(array) /\ 0 + 1 = 1 /\ index - 0 = index
    BY <1>2, <1>3
  <2>2. IsPart(SubSeq(array, 0 + 1, index), array, 0, index, Pool)
    BY <1>3, <2>1, PartIs
  <2>3. QED
    BY <1>4, <2>1, <2>2 DEF IsPart
<1>6. y \in Seq(Pool) /\ r \in Seq(Pool) /\ Len(r) = count
  <2>1. index + count \in Nat /\ index <= index + count /\ Len(array) <= Len(array) /\ (index + count) - index = count
    BY <1>3
  <2>2. IsPart(SubSeq(array, index + count + 1, Len(array)), array, index + count, Len(array), Pool)
    BY <1>2, <1>3, <2>1, PartIs
  <2>3. IsPart(SubSeq(array, index + 1, index + count), array, index, index + count, Pool)
    BY <1>2, <1>3, <2>1, PartIs
  <2>4. QED
    BY <1>4, <2>1, <2>2, <2>3 DEF IsPart
<1>7. items = x \o added \o y
  BY <1>1, <1>4
<1>8. /\ items \in Seq(Pool) /\ Len(items) = index + Len(added) + Len(y)
      /\ \A i \in 1 .. Len(added) : items[index + i] = added[i]
  <2>1. /\ items \in Seq(Pool) /\ Len(items) = Len(x) + Len(added) + Len(y)
        /\ \A i \in 1 .. Len(added) : items[Len(x) + i] = added[i]
    <3>1. x \in Seq(Pool) /\ y \in Seq(Pool)
      BY <1>5, <1>6
    <3>2. QED
      BY <1>7, <3>1, ThreeParts
  <2>2. QED
    BY <1>5, <2>1
<1>9. PICK n : n = Len(added) /\ n \in Nat
  OBVIOUS
<1>10. SubSeq(items, index + 1, index + n) = added
  <2>1. index + n \in Nat /\ index <= index + n /\ index + n <= Len(items) /\ (index + n) - index = n
    BY <1>6, <1>8, <1>9
  <2>2. PICK u : u = SubSeq(items, index + 1, index + n)
    OBVIOUS
  <2>3. IsPart(u, items, index, index + n, Pool)
    BY <1>8, <2>1, <2>2, PartIs
  <2>4. u \in Seq(Pool) /\ Len(u) = n /\ \A i \in 1 .. n : u[i] = items[index + i]
    BY <2>1, <2>3 DEF IsPart
  <2>5. \A i \in 1 .. n : u[i] = added[i]
    BY <1>8, <1>9, <2>4
  <2>6. u = added
    BY <1>9, <2>4, <2>5, SeqEqual
  <2>7. QED
    BY <2>2, <2>6
<1>11. s.index = index /\ s.removed = r /\ s.addedCount = n /\ s \in SplicesOver(Pool)
  BY <1>1, <1>4, <1>6, <1>9 DEF NewSplice, SplicesOver
<1>12. Applied(array, s, items) = items
  BY <1>4, <1>6, <1>7, <1>10, <1>11 DEF Applied
<1>13. <<s>> \in Seq(SplicesOver(Pool)) /\ Len(<<s>>) = 1 /\ <<s>>[1] = s
  BY <1>11
<1>14. AllSplices(<<s>>, items, array) = items
  <2>1. PICK h : h = ArraysTable(h, 1, <<s>>, items, array) /\ AllSplices(<<s>>, items, array) = h[1]
    BY <1>13, ArraysAre DEF AllSplices
  <2>2. 0 \in 0 .. 1 /\ 1 \in 0 .. 1 /\ 1 # 0 /\ 1 - 1 = 0
    OBVIOUS
  <2>3. h[0] = array /\ h[1] = Applied(h[0], <<s>>[1], items)
    BY <2>1, <2>2 DEF ArraysTable
  <2>4. QED
    BY <1>12, <1>13, <2>1, <2>3
<1>15. QED
  BY <1>2, <1>3, <1>8, <1>13, <1>14, ApplyingKeeps

-----------------------------------------------------------------------------
(* The bound is a number.                                                   *)
SelectorConstants == MaxItems \in Nat

LEMMA ItemArraysAre ==
  ASSUME SelectorConstants
  PROVE  ItemArrays \subseteq Seq(Pool)
<1>1. SUFFICES ASSUME NEW s \in ItemArrays PROVE s \in Seq(Pool)
  OBVIOUS
<1>2. PICK n \in 0 .. MaxItems : s \in [1 .. n -> Pool]
  BY DEF ItemArrays
<1>3. n \in Nat
  BY DEF SelectorConstants
<1>4. QED
  BY <1>2, <1>3

(* Of nothing nothing is chosen.                                            *)
LEMMA NothingChosen ==
  selection = <<>> /\ links = <<>> /\ selected = (IF multi THEN <<>> ELSE NoItem) =>
      selected = Chosen(selection) /\ links = LinksOf(selection)
<1>1. PICK empty : empty = <<>>
  OBVIOUS
<1>2. empty \in Seq(Entries) /\ Len(empty) = 0
  BY <1>1
<1>3. DOMAIN empty = {}
  BY <1>2
<1>4. AllThere(empty)
  BY <1>2 DEF AllThere
<1>5. Remaining(empty) = empty
  BY <1>2, <1>4, AllRemain
<1>6. Keys(empty) = <<>>
  BY <1>3 DEF Keys
<1>7. LinksOf(empty) = <<>>
  BY <1>3, <1>5 DEF LinksOf
<1>8. Chosen(empty) = IF multi THEN <<>> ELSE NoItem
  BY <1>1, <1>6 DEF Chosen
<1>9. QED
  BY <1>1, <1>7, <1>8

(* Nothing is selected.                                                     *)
LEMMA SelectorStarts ==
  ASSUME SelectorConstants, SelectorInit
  PROVE  SelectorInv
<1>1. array \in Seq(Pool) /\ multi \in BOOLEAN
  BY ItemArraysAre DEF SelectorInit
<1>2. selection = <<>> /\ links = <<>> /\ selected = IF multi THEN <<>> ELSE NoItem
  BY DEF SelectorInit
<1>3. /\ selection \in Seq(Entries) /\ Len(selection) = 0 /\ Distinct(selection)
      /\ AllThere(selection) /\ Points(selection, array)
  BY <1>2 DEF Distinct, AllThere, Points
<1>4. selected = Chosen(selection) /\ links = LinksOf(selection)
  BY <1>2, NothingChosen
<1>5. QED
  BY <1>1, <1>3, <1>4 DEF SelectorInv

LEMMA SelectorSteps ==
  ASSUME SelectorConstants, SelectorInv, [SelectorNext]_selectorVars
  PROVE  SelectorInv'
<1>1. CASE UNCHANGED selectorVars
  BY <1>1 DEF selectorVars, SelectorInv, Distinct, AllThere, Points, Chosen, LinksOf
<1>2. ASSUME NEW items \in ItemArrays, SetArray(items) PROVE SelectorInv'
  BY <1>2, ItemArraysAre, SetArrayKeeps
<1>3. ASSUME NEW index \in 0 .. MaxItems, NEW count \in 0 .. MaxItems,
             NEW added \in {<<>>} \cup {<<p>> : p \in Pool}, SpliceArray(index, count, added)
      PROVE  SelectorInv'
  <2>1. index \in Nat /\ count \in Nat
    BY DEF SelectorConstants
  <2>2. added \in Seq(Pool)
    <3>1. <<>> \in Seq(Pool) /\ \A p \in Pool : <<p>> \in Seq(Pool)
      OBVIOUS
    <3>2. QED
      BY <3>1
  <2>3. QED
    BY <1>3, <2>1, <2>2, SpliceArrayKeeps
<1>4. CASE SetMulti
  <2>1. /\ multi' = ~multi /\ selection' = <<>> /\ links' = <<>>
        /\ selected' = (IF multi' THEN <<>> ELSE NoItem) /\ array' = array
    BY <1>4 DEF SetMulti
  <2>2. /\ selection' \in Seq(Entries) /\ Len(selection') = 0 /\ Distinct(selection')
        /\ AllThere(selection') /\ Points(selection', array')
    BY <2>1 DEF Distinct, AllThere, Points
  <2>3. (selected = Chosen(selection) /\ links = LinksOf(selection))'
    <3>1. (selection = <<>> /\ links = <<>> /\ selected = (IF multi THEN <<>> ELSE NoItem))'
      BY <2>1
    <3>2. QED
      BY <3>1, NothingChosen, PTL
  <2>4. QED
    BY <2>1, <2>2, <2>3 DEF SelectorInv
<1>5. ASSUME NEW item \in Pool, DeselectItem(item) PROVE SelectorInv'
  <2>1. Deselect(item) /\ multi' = multi /\ array' = array
    BY <1>5 DEF DeselectItem
  <2>2. ASSUME multi, NEW k \in 1 .. Len(selection) PROVE Points(<<selection[k]>>, array')
    <3>1. Len(<<selection[k]>>) = 1 /\ \A i \in 1 .. 1 : <<selection[k]>>[i] = selection[k]
      OBVIOUS
    <3>2. QED
      BY <2>1, <2>2, <3>1 DEF SelectorInv, Points
  <2>3. QED
    BY <2>1, <2>2, DeselectKeeps DEF SelectorInv
<1>6. ASSUME NEW idx \in 0 .. MaxItems - 1, SelectIndex(idx) PROVE SelectorInv'
  <2>1. idx \in Nat /\ idx < Len(array) /\ multi' = multi /\ array' = array
    BY <1>6 DEF SelectorConstants, SelectIndex
  <2>2. CASE ~IsSelected(array[idx + 1])
    BY <1>6, <2>1, <2>2, SelectKeeps DEF SelectIndex
  <2>3. CASE IsSelected(array[idx + 1])
    <3>1. Deselect(array[idx + 1])
      BY <1>6, <2>3 DEF SelectIndex
    <3>2. ASSUME multi, NEW k \in 1 .. Len(selection) PROVE Points(<<selection[k]>>, array')
      <4>1. Len(<<selection[k]>>) = 1 /\ \A i \in 1 .. 1 : <<selection[k]>>[i] = selection[k]
        OBVIOUS
      <4>2. QED
        BY <2>1, <3>2, <4>1 DEF SelectorInv, Points
    <3>3. QED
      BY <2>1, <3>1, <3>2, DeselectKeeps DEF SelectorInv
  <2>4. QED
    BY <2>2, <2>3
<1>7. ASSUME NEW idx \in 0 .. MaxItems - 1, NEW item \in Pool, SetItem(idx, item) PROVE SelectorInv'
  <2>1. idx \in Nat
    BY DEF SelectorConstants
  <2>2. QED
    BY <1>7, <2>1, SetItemKeeps
<1>8. QED
  BY <1>1, <1>2, <1>3, <1>4, <1>5, <1>6, <1>7 DEF SelectorNext

(* cloud-dashboard.js:18004-18108,18131-18213: however the array changes    *)
(* under it, and whatever is selected and deselected, in any order, the     *)
(* page is given the selected items in the order they were selected, one at *)
(* most if only one may be; each is found at its index, and the link from   *)
(* there leads to its place.                                                *)
THEOREM SelectedAreFound ==
  ASSUME SelectorConstants
  PROVE  SelectorSpec => [](SelectedAgrees /\ IndicesAgree)
<1>1. SelectorInit => SelectorInv
  BY SelectorStarts
<1>2. SelectorInv /\ [SelectorNext]_selectorVars => SelectorInv'
  BY SelectorSteps
<1>3. SelectorInv => SelectedAgrees /\ IndicesAgree
  <2>1. SUFFICES ASSUME SelectorInv PROVE SelectedAgrees /\ IndicesAgree
    OBVIOUS
  <2>2. DOMAIN selection = 1 .. Len(selection) /\ DOMAIN array = 1 .. Len(array)
    BY <2>1 DEF SelectorInv
  <2>3. SelectedAgrees
    BY <2>1 DEF SelectorInv, SelectedAgrees
  <2>4. IndicesAgree
    BY <2>1, <2>2 DEF SelectorInv, AllThere, Points, IndicesAgree
  <2>5. QED
    BY <2>3, <2>4
<1>4. QED
  BY <1>1, <1>2, <1>3, PTL DEF SelectorSpec
=============================================================================
