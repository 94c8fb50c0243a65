----------------------------- MODULE BindingProofs -----------------------------
(***************************************************************************)
(* Bindings, from the template to the value.  For any template, what is    *)
(* noted while it is parsed leads to its nodes; whichever copies of it are *)
(* stamped and removed, exactly those in the document are updated; and a   *)
(* value that is set anywhere gets everywhere, for any elements, bound in  *)
(* either direction, readied at once or late, however deep the calls nest. *)
(* What is told of one path is told of all that are linked with it, in a   *)
(* ring or not, and comes to an end.                                       *)
(***************************************************************************)
EXTENDS PropertyFlow, Templates, BoundTemplates, Paths, FiniteSetTheorems, SequenceTheorems, TLAPS

(* What is left of a sequence when the element at a place is taken out.     *)
LEMMA RemovedAt ==
  ASSUME NEW S, NEW s \in Seq(S), NEW k \in DOMAIN s
  PROVE  /\ RemoveAt(s, k) \in Seq(S) /\ Len(RemoveAt(s, k)) = Len(s) - 1
         /\ \A i \in 1 .. (Len(s) - 1) :
               RemoveAt(s, k)[i] = IF i < k THEN s[i] ELSE s[i + 1]
<1>1. k \in 1 .. Len(s) /\ Len(s) \in Nat
  OBVIOUS
<1> DEFINE left == SubSeq(s, 1, k - 1)
           right == SubSeq(s, k + 1, Len(s))
<1>2. left \in Seq(S) /\ Len(left) = k - 1 /\ \A i \in 1 .. (k - 1) : left[i] = s[i]
  BY <1>1
<1>3. /\ right \in Seq(S) /\ Len(right) = Len(s) - k
      /\ \A i \in 1 .. (Len(s) - k) : right[i] = s[k + i]
  BY <1>1
<1>4. RemoveAt(s, k) = left \o right
  BY DEF RemoveAt
<1> HIDE DEF left, right
<1>5. /\ left \o right \in Seq(S) /\ Len(left \o right) = Len(s) - 1
      /\ \A i \in 1 .. (Len(s) - 1) :
            (left \o right)[i] = IF i <= Len(left) THEN left[i] ELSE right[i - Len(left)]
  BY <1>1, <1>2, <1>3
<1>6. ASSUME NEW i \in 1 .. (Len(s) - 1)
      PROVE  (left \o right)[i] = IF i < k THEN s[i] ELSE s[i + 1]
  <2>1. CASE i < k
    BY <1>1, <1>2, <1>5, <2>1
  <2>2. CASE ~(i < k)
    <3>1. i - (k - 1) \in 1 .. (Len(s) - k) /\ k + (i - (k - 1)) = i + 1
      BY <1>1, <2>2
    <3>2. right[i - (k - 1)] = s[i + 1]
      BY <1>3, <3>1
    <3>3. QED
      BY <1>1, <1>2, <1>5, <2>2, <3>2
  <2>3. QED
    BY <2>1, <2>2
<1>7. QED
  BY <1>4, <1>5, <1>6

-----------------------------------------------------------------------------
(* The template and its parser.                                             *)

TemplatesConstants == \E m, n \in Nat : Outer = 1 .. m /\ Inner = 1 .. n

AnyId == {<<i>> : i \in Nat} \cup {<<i, j>> : i, j \in Nat} \cup {<<"wrapper", i>> : i \in Nat}

AnyPath == {<<i>> : i \in Nat} \cup {<<i, j>> : i, j \in Nat}

InnerNode == [id : AnyId, kind : Kinds, nodes : {<<>>}]

OuterNode ==
    {node \in [id : AnyId, kind : Kinds, nodes : Seq(InnerNode)] :
        IsElement(node.kind) \/ node.nodes = <<>>}

(* The parser is at a node, or behind the last, and counts the nodes before *)
(* it as they are by then.                                                  *)
InTemplate ==
    /\ dom \in Seq(OuterNode)
    /\ cursor \in [{1, 2} -> Nat] /\ place \in [{1, 2} -> Nat]
    /\ cursor[1] \in 1 .. (Len(dom) + 1) /\ place[1] = cursor[1] - 1
    /\ Inside => /\ cursor[1] <= Len(dom) /\ IsElement(dom[cursor[1]].kind)
                 /\ cursor[2] <= Len(dom[cursor[1]].nodes) + 1 /\ place[2] = cursor[2] - 1

(* The path leads to a node behind the place where the parser is.           *)
Leads(nodes, at, path, id) ==
    \/ \E i \in 1 .. Len(nodes) : path = <<i - 1>> /\ i < at[1] /\ nodes[i].id = id
    \/ \E i \in 1 .. Len(nodes) : \E j \in 1 .. Len(nodes[i].nodes) :
          /\ path = <<i - 1, j - 1>> /\ nodes[i].nodes[j].id = id
          /\ i < at[1] \/ (i = at[1] /\ j < at[2])

NotesLead ==
    /\ infos \in Seq([path : AnyPath, node : AnyId])
    /\ \A n \in DOMAIN infos : Leads(dom, cursor, infos[n].path, infos[n].node)
    /\ \A e \in effects : e.index \in DOMAIN infos /\ infos[e.index].node = e.node

ParseInv == InTemplate /\ NotesLead

(* Nothing behind the parser is changed.                                    *)
KeepsBehind ==
    /\ \A i \in 1 .. Len(dom) :
          i < cursor[1] => i \in 1 .. Len(dom') /\ dom'[i] = dom[i] /\ i < cursor'[1]
    /\ \A i \in 1 .. Len(dom) : i = cursor[1] =>
          \A j \in 1 .. Len(dom[i].nodes) : j < cursor[2] =>
             /\ i \in 1 .. Len(dom') /\ j \in 1 .. Len(dom'[i].nodes)
             /\ dom'[i].nodes[j] = dom[i].nodes[j]
             /\ i < cursor'[1] \/ (i = cursor'[1] /\ j < cursor'[2])

NotesNothing == UNCHANGED <<infos, effects>>

Notes(id, path) ==
    /\ id \in AnyId /\ path \in AnyPath
    /\ effects' = AddBinding(id) /\ infos' = Noted(id, path)
    /\ Leads(dom', cursor', path, id)

LEMMA LeadsOn ==
  ASSUME KeepsBehind, NEW path, NEW id, Leads(dom, cursor, path, id)
  PROVE  Leads(dom', cursor', path, id)
<1>1. CASE \E i \in 1 .. Len(dom) : path = <<i - 1>> /\ i < cursor[1] /\ dom[i].id = id
  BY <1>1 DEF KeepsBehind, Leads
<1>2. CASE \E i \in 1 .. Len(dom) : \E j \in 1 .. Len(dom[i].nodes) :
              /\ path = <<i - 1, j - 1>> /\ dom[i].nodes[j].id = id
              /\ i < cursor[1] \/ (i = cursor[1] /\ j < cursor[2])
  <2>1. PICK i \in 1 .. Len(dom) : \E j \in 1 .. Len(dom[i].nodes) :
              /\ path = <<i - 1, j - 1>> /\ dom[i].nodes[j].id = id
              /\ i < cursor[1] \/ (i = cursor[1] /\ j < cursor[2])
    BY <1>2
  <2>2. PICK j \in 1 .. Len(dom[i].nodes) :
              /\ path = <<i - 1, j - 1>> /\ dom[i].nodes[j].id = id
              /\ i < cursor[1] \/ (i = cursor[1] /\ j < cursor[2])
    BY <2>1
  <2>3. /\ i \in 1 .. Len(dom') /\ j \in 1 .. Len(dom'[i].nodes)
        /\ dom'[i].nodes[j] = dom[i].nodes[j]
        /\ i < cursor'[1] \/ (i = cursor'[1] /\ j < cursor'[2])
    BY <2>2 DEF KeepsBehind
  <2>4. QED
    BY <2>2, <2>3 DEF Leads
<1>3. QED
  BY <1>1, <1>2 DEF Leads

LEMMA NotesPreserved ==
  ASSUME NotesLead, KeepsBehind, NotesNothing \/ \E id, path : Notes(id, path)
  PROVE  NotesLead'
<1>1. CASE NotesNothing
  BY <1>1, LeadsOn DEF NotesLead, NotesNothing
<1>2. ASSUME NEW id, NEW path, Notes(id, path)
      PROVE  NotesLead'
  <2> DEFINE note == [path |-> path, node |-> id]
  <2>1. /\ note \in [path : AnyPath, node : AnyId] /\ note.path = path /\ note.node = id
        /\ infos' = Append(infos, note) /\ effects' = AddBinding(id)
        /\ Leads(dom', cursor', path, id)
    BY <1>2 DEF Notes, Noted
  <2>2. infos \in Seq([path : AnyPath, node : AnyId]) /\ Len(infos) \in Nat
    BY DEF NotesLead
  <2> HIDE DEF note
  <2>3. /\ infos' \in Seq([path : AnyPath, node : AnyId])
        /\ DOMAIN infos = 1 .. Len(infos) /\ DOMAIN infos' = 1 .. (Len(infos) + 1)
        /\ infos'[Len(infos) + 1] = note
        /\ \A n \in 1 .. Len(infos) : infos'[n] = infos[n]
    BY <2>1, <2>2
  <2>4. \A n \in DOMAIN infos' : Leads(dom', cursor', infos'[n].path, infos'[n].node)
    <3> SUFFICES ASSUME NEW n \in 1 .. (Len(infos) + 1)
                 PROVE  Leads(dom', cursor', infos'[n].path, infos'[n].node)
      BY <2>3
    <3>1. CASE n = Len(infos) + 1
      BY <2>1, <2>3, <3>1
    <3>2. CASE n \in 1 .. Len(infos)
      <4>1. Leads(dom, cursor, infos[n].path, infos[n].node)
        BY <2>3, <3>2 DEF NotesLead
      <4>2. QED
        BY <2>3, <3>2, <4>1, LeadsOn
    <3>3. QED
      BY <2>2, <3>1, <3>2
  <2>5. ASSUME NEW e \in effects'
        PROVE  e.index \in DOMAIN infos' /\ infos'[e.index].node = e.node
    <3>1. CASE e = [index |-> Len(infos) + 1, node |-> id]
      BY <2>1, <2>2, <2>3, <3>1
    <3>2. CASE e \in effects
      BY <2>2, <2>3, <3>2 DEF NotesLead
    <3>3. QED
      BY <2>1, <3>1, <3>2 DEF AddBinding
  <2>6. QED
    BY <2>3, <2>4, <2>5 DEF NotesLead
<1>3. QED
  BY <1>1, <1>2

(* The node the parser is at.                                               *)
LEMMA AtNode ==
  ASSUME InTemplate
  PROVE  /\ Len(dom) \in Nat /\ \A i \in 1 .. Len(dom) : dom[i] \in OuterNode
         /\ cursor[1] \in Nat /\ cursor[2] \in Nat /\ place[1] \in Nat /\ place[2] \in Nat
         /\ Inside => /\ cursor[1] \in 1 .. Len(dom) /\ Nodes = dom[cursor[1]].nodes
                      /\ Nodes \in Seq(InnerNode) /\ Here = cursor[2] /\ Level = 2
                      /\ Here \in 1 .. (Len(Nodes) + 1)
         /\ ~Inside => /\ Nodes = dom /\ Here = cursor[1] /\ Level = 1 /\ cursor[2] = 0
                       /\ Here \in 1 .. (Len(Nodes) + 1)
         /\ Len(Nodes) \in Nat /\ Here \in Nat
         /\ More => Here \in 1 .. Len(Nodes) /\ Node = Nodes[Here]
<1>1. /\ Len(dom) \in Nat /\ \A i \in 1 .. Len(dom) : dom[i] \in OuterNode
      /\ cursor[1] \in Nat /\ cursor[2] \in Nat /\ place[1] \in Nat /\ place[2] \in Nat
  BY DEF InTemplate
<1>2. CASE Inside
  <2>1. cursor[1] \in 1 .. Len(dom) /\ cursor[2] \in 1 .. (Len(dom[cursor[1]].nodes) + 1)
    BY <1>1, <1>2 DEF InTemplate, Inside
  <2>2. dom[cursor[1]].nodes \in Seq(InnerNode)
    BY <1>1, <2>1 DEF OuterNode
  <2>3. Nodes = dom[cursor[1]].nodes /\ Here = cursor[2] /\ Level = 2
    BY <1>2 DEF Nodes, Here, Level
  <2>4. QED
    BY <1>1, <1>2, <2>1, <2>2, <2>3 DEF More, Node
<1>3. CASE ~Inside
  <2>1. Nodes = dom /\ Here = cursor[1] /\ Level = 1 /\ cursor[2] = 0
    BY <1>1, <1>3 DEF Nodes, Here, Level, Inside
  <2>2. QED
    BY <1>1, <1>3, <2>1 DEF More, Node, InTemplate
<1>4. QED
  BY <1>2, <1>3

(* Two texts are joined, or a blank one is removed: there is one less, and   *)
(* those before it stay.                                                     *)
LEMMA ShorterPreserves ==
  ASSUME ParseInv, More, NEW nodes, Len(nodes) = Len(Nodes) - 1,
         Inside => nodes \in Seq(InnerNode), ~Inside => nodes \in Seq(OuterNode),
         \A i \in 1 .. (Here - 1) : nodes[i] = Nodes[i],
         dom' = WithNodes(nodes), UNCHANGED <<cursor, place, infos, effects>>
  PROVE  ParseInv'
<1>1. InTemplate /\ NotesLead
  BY DEF ParseInv
<1>2. CASE ~Inside
  <2>1. /\ dom' = nodes /\ nodes \in Seq(OuterNode) /\ Nodes = dom /\ Here = cursor[1]
        /\ cursor[2] = 0 /\ Len(dom) \in Nat /\ cursor[1] \in 1 .. Len(dom)
    BY <1>1, <1>2, AtNode DEF WithNodes
  <2>2. InTemplate'
    BY <1>1, <1>2, <2>1 DEF InTemplate, Inside
  <2>3. KeepsBehind
    <3>1. \A i \in 1 .. Len(dom) : i < cursor[1] => i \in 1 .. Len(dom') /\ dom'[i] = dom[i]
      BY <2>1
    <3>2. QED
      BY <2>1, <3>1 DEF KeepsBehind
  <2>4. QED
    BY <1>1, <2>2, <2>3, NotesPreserved DEF ParseInv, NotesNothing
<1>3. CASE Inside
  <2>1. /\ dom' = [dom EXCEPT ![cursor[1]].nodes = nodes]
        /\ nodes \in Seq(InnerNode) /\ Nodes = dom[cursor[1]].nodes /\ Here = cursor[2]
        /\ Len(dom) \in Nat /\ cursor[1] \in 1 .. Len(dom) /\ cursor[2] \in 1 .. Len(Nodes)
        /\ Len(Nodes) \in Nat /\ \A i \in 1 .. Len(dom) : dom[i] \in OuterNode
    BY <1>1, <1>3, AtNode DEF WithNodes
  <2>2. dom \in Seq(OuterNode) /\ IsElement(dom[cursor[1]].kind)
    BY <1>1, <1>3 DEF InTemplate
  <2> DEFINE new == [dom[cursor[1]] EXCEPT !.nodes = nodes]
  <2>3. /\ new \in OuterNode /\ new.nodes = nodes /\ new.kind = dom[cursor[1]].kind
    BY <2>1, <2>2 DEF OuterNode
  <2>4. dom' = [dom EXCEPT ![cursor[1]] = new]
    BY <2>1
  <2> HIDE DEF new
  <2>5. /\ dom' \in Seq(OuterNode) /\ Len(dom') = Len(dom) /\ dom'[cursor[1]] = new
        /\ \A i \in 1 .. Len(dom) : i # cursor[1] => dom'[i] = dom[i]
    BY <2>1, <2>2, <2>3, <2>4
  <2>6. InTemplate'
    BY <1>1, <1>3, <2>1, <2>2, <2>3, <2>5 DEF InTemplate, Inside
  <2>7. KeepsBehind
    <3>1. ASSUME NEW i \in 1 .. Len(dom), i < cursor[1]
          PROVE  i \in 1 .. Len(dom') /\ dom'[i] = dom[i] /\ i < cursor'[1]
      BY <2>1, <2>5, <3>1
    <3>2. ASSUME NEW j \in 1 .. Len(Nodes), j < cursor[2]
          PROVE  j \in 1 .. Len(nodes) /\ nodes[j] = Nodes[j]
      BY <2>1, <3>2
    <3>3. QED
      BY <2>1, <2>3, <2>5, <3>1, <3>2 DEF KeepsBehind
  <2>8. QED
    BY <1>1, <2>6, <2>7, NotesPreserved DEF ParseInv, NotesNothing
<1>4. QED
  BY <1>2, <1>3

(* Joining two texts gives a text with the identity of the first.           *)
LEMMA JoinShortens ==
  ASSUME NEW S, NEW s \in Seq(S), NEW k \in 1 .. Len(s), k < Len(s), NEW x \in S
  PROVE  LET t == RemoveAt(ReplaceAt(s, k, x), k + 1)
         IN  t \in Seq(S) /\ Len(t) = Len(s) - 1 /\ \A i \in 1 .. (k - 1) : t[i] = s[i]
<1> DEFINE r == ReplaceAt(s, k, x)
<1>1. /\ r \in Seq(S) /\ Len(r) = Len(s) /\ Len(s) \in Nat
      /\ \A i \in 1 .. Len(s) : i # k => r[i] = s[i]
  BY DEF ReplaceAt
<1> HIDE DEF r
<1>2. k + 1 \in DOMAIN r
  BY <1>1
<1>3. /\ RemoveAt(r, k + 1) \in Seq(S) /\ Len(RemoveAt(r, k + 1)) = Len(r) - 1
      /\ \A i \in 1 .. (Len(r) - 1) :
            RemoveAt(r, k + 1)[i] = IF i < k + 1 THEN r[i] ELSE r[i + 1]
  BY <1>1, <1>2, RemovedAt
<1>4. ASSUME NEW i \in 1 .. (k - 1)
      PROVE  RemoveAt(r, k + 1)[i] = s[i]
  <2>1. i \in 1 .. (Len(r) - 1) /\ i < k + 1 /\ i # k /\ i \in 1 .. Len(s)
    BY <1>1
  <2>2. QED
    BY <1>1, <1>3, <2>1
<1>5. QED
  BY <1>1, <1>3, <1>4 DEF r

LEMMA TextsJoined ==
  ASSUME NEW node, NEW other, node.kind \in Texts, other.kind \in Texts
  PROVE  /\ node \in InnerNode => Joined(node, other) \in InnerNode
         /\ node \in OuterNode => Joined(node, other) \in OuterNode
  BY DEF Joined, InnerNode, OuterNode, Texts, Kinds, IsElement

LEMMA JoinPreserves ==
  ASSUME ParseInv, JoinTexts
  PROVE  ParseInv'
<1>1. /\ More /\ Len(Nodes) \in Nat /\ Here \in 1 .. Len(Nodes) /\ Here < Len(Nodes)
      /\ Node = Nodes[Here] /\ UNCHANGED <<cursor, place, infos, effects>>
      /\ Node.kind \in Texts /\ Nodes[Here + 1].kind \in Texts
  BY AtNode DEF ParseInv, JoinTexts
<1> DEFINE joined == Joined(Node, Nodes[Here + 1])
           nodes == RemoveAt(ReplaceAt(Nodes, Here, joined), Here + 1)
<1>2. dom' = WithNodes(nodes)
  BY DEF JoinTexts
<1>3. ASSUME NEW S, Nodes \in Seq(S), joined \in S
      PROVE  /\ nodes \in Seq(S) /\ Len(nodes) = Len(Nodes) - 1
             /\ \A i \in 1 .. (Here - 1) : nodes[i] = Nodes[i]
  BY <1>1, <1>3, JoinShortens
<1>4. Inside => Nodes \in Seq(InnerNode)
  BY AtNode DEF ParseInv
<1>5. ~Inside => Nodes \in Seq(OuterNode)
  BY AtNode DEF ParseInv, InTemplate
<1>6. Inside => joined \in InnerNode
  <2>1. Inside => Node \in InnerNode
    BY <1>1, <1>4
  <2>2. QED
    BY <1>1, <2>1, TextsJoined
<1>7. ~Inside => joined \in OuterNode
  <2>1. ~Inside => Node \in OuterNode
    BY <1>1, <1>5
  <2>2. QED
    BY <1>1, <2>1, TextsJoined
<1> HIDE DEF joined, nodes
<1>8. QED
  BY <1>1, <1>2, <1>3, <1>4, <1>5, <1>6, <1>7, ShorterPreserves

LEMMA BlankPreserves ==
  ASSUME ParseInv, RemoveBlank
  PROVE  ParseInv'
<1>1. /\ More /\ Len(Nodes) \in Nat /\ Here \in 1 .. Len(Nodes)
      /\ UNCHANGED <<cursor, place, infos, effects>> /\ dom' = WithNodes(RemoveAt(Nodes, Here))
  BY AtNode DEF ParseInv, RemoveBlank
<1>2. ASSUME NEW S, Nodes \in Seq(S)
      PROVE  /\ RemoveAt(Nodes, Here) \in Seq(S) /\ Len(RemoveAt(Nodes, Here)) = Len(Nodes) - 1
             /\ \A i \in 1 .. (Here - 1) : RemoveAt(Nodes, Here)[i] = Nodes[i]
  <2>1. Here \in DOMAIN Nodes
    BY <1>1, <1>2
  <2>2. /\ RemoveAt(Nodes, Here) \in Seq(S) /\ Len(RemoveAt(Nodes, Here)) = Len(Nodes) - 1
        /\ \A i \in 1 .. (Len(Nodes) - 1) :
              RemoveAt(Nodes, Here)[i] = IF i < Here THEN Nodes[i] ELSE Nodes[i + 1]
    BY <1>2, <2>1, RemovedAt
  <2>3. \A i \in 1 .. (Here - 1) : i \in 1 .. (Len(Nodes) - 1) /\ i < Here
    BY <1>1
  <2>4. QED
    BY <2>2, <2>3
<1>3. /\ Inside => Nodes \in Seq(InnerNode)
      /\ ~Inside => Nodes \in Seq(OuterNode)
  BY AtNode DEF ParseInv, InTemplate
<1>4. QED
  BY <1>1, <1>2, <1>3, ShorterPreserves

(* The parser goes on to the next node; the one it leaves may be noted.     *)
LEMMA MovePreserves ==
  ASSUME ParseInv, Kept, Moved, dom' = dom,
         NotesNothing \/ (effects' = AddBinding(Node.id) /\ infos' = Noted(Node.id, Path))
  PROVE  ParseInv'
<1>1. InTemplate /\ NotesLead /\ Here \in 1 .. Len(Nodes) /\ Node = Nodes[Here]
  BY AtNode DEF ParseInv, Kept
<1>2. /\ cursor \in [{1, 2} -> Nat] /\ place \in [{1, 2} -> Nat]
      /\ cursor' = [cursor EXCEPT ![Level] = cursor[Level] + 1]
      /\ place' = [place EXCEPT ![Level] = place[Level] + 1]
  BY <1>1 DEF InTemplate, Moved
<1>3. CASE Inside
  <2>1. /\ cursor'[1] = cursor[1] /\ cursor'[2] = cursor[2] + 1
        /\ place'[1] = place[1] /\ place'[2] = place[2] + 1
        /\ cursor' \in [{1, 2} -> Nat] /\ place' \in [{1, 2} -> Nat]
        /\ cursor[1] \in 1 .. Len(dom) /\ Here = cursor[2] /\ Nodes = dom[cursor[1]].nodes
        /\ cursor[2] \in 1 .. Len(Nodes) /\ Len(dom) \in Nat /\ Len(Nodes) \in Nat
    BY <1>1, <1>2, <1>3, AtNode
  <2>2. InTemplate'
    BY <1>1, <1>3, <2>1 DEF InTemplate, Inside
  <2>3. KeepsBehind
    BY <2>1 DEF KeepsBehind
  <2>4. ASSUME infos' = Noted(Node.id, Path), effects' = AddBinding(Node.id)
        PROVE  Notes(Node.id, Path)
    <3>1. Path = <<cursor[1] - 1, cursor[2] - 1>>
      BY <1>1, <1>3 DEF Path, InTemplate
    <3>2. Path \in AnyPath
      BY <2>1, <3>1 DEF AnyPath
    <3>3. Node.id \in AnyId
      <4>1. Nodes \in Seq(InnerNode)
        BY <1>1, <1>3, AtNode
      <4>2. Node \in InnerNode
        BY <1>1, <4>1
      <4>3. QED
        BY <4>2 DEF InnerNode
    <3>4. Leads(dom', cursor', Path, Node.id)
      <4>1. /\ dom'[cursor[1]].nodes[cursor[2]] = Node /\ cursor[1] = cursor'[1]
            /\ cursor[2] \in 1 .. Len(dom'[cursor[1]].nodes) /\ cursor[2] < cursor'[2]
            /\ cursor[1] \in 1 .. Len(dom')
        BY <1>1, <2>1
      <4>2. QED
        BY <3>1, <4>1 DEF Leads
    <3>5. QED
      BY <2>4, <3>2, <3>3, <3>4 DEF Notes
  <2>5. QED
    BY <1>1, <2>2, <2>3, <2>4, NotesPreserved DEF ParseInv
<1>4. CASE ~Inside
  <2>1. /\ cursor'[1] = cursor[1] + 1 /\ cursor'[2] = 0
        /\ place'[1] = place[1] + 1
        /\ cursor' \in [{1, 2} -> Nat] /\ place' \in [{1, 2} -> Nat]
        /\ cursor[1] \in 1 .. Len(dom) /\ Node = dom[cursor[1]]
        /\ Len(dom) \in Nat /\ cursor[2] = 0
    BY <1>1, <1>2, <1>4, AtNode
  <2>2. InTemplate'
    BY <1>1, <2>1 DEF InTemplate, Inside
  <2>3. KeepsBehind
    BY <2>1 DEF KeepsBehind
  <2>4. ASSUME infos' = Noted(Node.id, Path), effects' = AddBinding(Node.id)
        PROVE  Notes(Node.id, Path)
    <3>1. Path = <<cursor[1] - 1>>
      BY <1>1, <1>4 DEF Path, InTemplate
    <3>2. Path \in AnyPath
      BY <2>1, <3>1 DEF AnyPath
    <3>3. Node.id \in AnyId
      BY <1>1, <2>1, AtNode DEF OuterNode
    <3>4. Leads(dom', cursor', Path, Node.id)
      BY <2>1, <3>1 DEF Leads
    <3>5. QED
      BY <2>4, <3>2, <3>3, <3>4 DEF Notes
  <2>5. QED
    BY <1>1, <2>2, <2>3, <2>4, NotesPreserved DEF ParseInv
<1>5. QED
  BY <1>3, <1>4

(* The parser goes into an element, or the one that a template is put into. *)
LEMMA EnterPreserves ==
  ASSUME ParseInv, Kept, ~Inside, NEW node \in OuterNode, IsElement(node.kind),
         dom' = [dom EXCEPT ![Here] = node],
         cursor' = [cursor EXCEPT ![2] = 1], place' = [place EXCEPT ![2] = 0], NotesNothing
  PROVE  ParseInv'
<1>1. /\ InTemplate /\ NotesLead /\ Here = cursor[1] /\ cursor[2] = 0
      /\ cursor[1] \in 1 .. Len(dom) /\ Len(dom) \in Nat
  BY AtNode DEF ParseInv, Kept
<1>2. /\ cursor \in [{1, 2} -> Nat] /\ place \in [{1, 2} -> Nat] /\ dom \in Seq(OuterNode)
  BY <1>1 DEF InTemplate
<1>3. /\ cursor'[1] = cursor[1] /\ cursor'[2] = 1 /\ place'[1] = place[1] /\ place'[2] = 0
      /\ cursor' \in [{1, 2} -> Nat] /\ place' \in [{1, 2} -> Nat]
  BY <1>2
<1>4. /\ dom' \in Seq(OuterNode) /\ Len(dom') = Len(dom) /\ dom'[cursor[1]] = node
      /\ \A i \in 1 .. Len(dom) : i # cursor[1] => dom'[i] = dom[i]
  BY <1>1, <1>2
<1>5. Len(node.nodes) \in Nat
  BY DEF OuterNode
<1>6. InTemplate'
  BY <1>1, <1>3, <1>4, <1>5 DEF InTemplate, Inside
<1>7. KeepsBehind
  <2>1. ASSUME NEW i \in 1 .. Len(dom), i < cursor[1]
        PROVE  i \in 1 .. Len(dom') /\ dom'[i] = dom[i] /\ i < cursor'[1]
    BY <1>1, <1>3, <1>4, <2>1
  <2>2. ASSUME NEW n \in Nat, NEW j \in 1 .. n
        PROVE  ~(j < cursor[2])
    BY <1>1
  <2>3. \A i \in 1 .. Len(dom) : Len(dom[i].nodes) \in Nat
    BY <1>1, AtNode DEF OuterNode
  <2>4. QED
    BY <2>1, <2>2, <2>3 DEF KeepsBehind
<1>8. QED
  BY <1>1, <1>6, <1>7, NotesPreserved DEF ParseInv

LEMMA WrapPreserves ==
  ASSUME ParseInv, WrapTemplate
  PROVE  ParseInv'
<1>1. Kept /\ ~Inside /\ Node.kind = "template" /\ NotesNothing
  BY DEF WrapTemplate, NotesNothing
<1>2. Here \in Nat /\ Node \in OuterNode
  BY <1>1, AtNode DEF ParseInv, Kept
<1>3. Node \in InnerNode
  BY <1>1, <1>2 DEF OuterNode, InnerNode, IsElement
<1> DEFINE wrapper == [id |-> <<"wrapper", Here>>, kind |-> "element", nodes |-> <<Node>>]
<1>4. wrapper.id \in AnyId
  BY <1>2 DEF AnyId
<1>5. wrapper \in OuterNode /\ IsElement(wrapper.kind)
  BY <1>3, <1>4 DEF OuterNode, IsElement, Kinds
<1>6. /\ dom' = [dom EXCEPT ![Here] = wrapper]
      /\ cursor' = [cursor EXCEPT ![2] = 1] /\ place' = [place EXCEPT ![2] = 0]
  BY DEF WrapTemplate
<1> HIDE DEF wrapper
<1>7. QED
  BY <1>1, <1>5, <1>6, EnterPreserves

LEMMA LeavePreserves ==
  ASSUME ParseInv, LeaveElement
  PROVE  ParseInv'
<1> DEFINE element == dom[cursor[1]]
<1>1. /\ InTemplate /\ NotesLead /\ Inside /\ Here = cursor[2] /\ Nodes = element.nodes
      /\ cursor[1] \in 1 .. Len(dom) /\ Len(dom) \in Nat /\ cursor[1] \in Nat
      /\ place[1] = cursor[1] - 1 /\ element \in OuterNode
      /\ Here \in Nat /\ Len(Nodes) \in Nat /\ Here > Len(Nodes)
  BY AtNode DEF ParseInv, LeaveElement, InTemplate, More
<1>2. /\ cursor' = <<cursor[1] + 1, 0>> /\ place' = <<place[1] + 1, 0>> /\ dom' = dom
      /\ \/ NotesNothing
         \/ effects' = AddBinding(element.id) /\ infos' = Noted(element.id, <<place[1]>>)
  BY DEF LeaveElement, NotesNothing
<1>3. /\ cursor'[1] = cursor[1] + 1 /\ cursor'[2] = 0 /\ place'[1] = cursor[1]
      /\ cursor' \in [{1, 2} -> Nat] /\ place' \in [{1, 2} -> Nat]
  BY <1>1, <1>2
<1>4. InTemplate'
  BY <1>1, <1>2, <1>3 DEF InTemplate, Inside
<1>5. KeepsBehind
  BY <1>1, <1>2, <1>3 DEF KeepsBehind
<1>6. ASSUME effects' = AddBinding(element.id), infos' = Noted(element.id, <<place[1]>>)
      PROVE  Notes(element.id, <<cursor[1] - 1>>)
  <2>1. cursor[1] - 1 \in Nat /\ element.id \in AnyId
    BY <1>1 DEF OuterNode
  <2>2. Leads(dom', cursor', <<cursor[1] - 1>>, element.id)
    BY <1>1, <1>2, <1>3 DEF Leads
  <2>3. QED
    BY <1>1, <1>6, <2>1, <2>2 DEF Notes, AnyPath
<1>7. QED
  BY <1>1, <1>2, <1>4, <1>5, <1>6, NotesPreserved DEF ParseInv

LEMMA ParseStarts ==
  ASSUME TemplatesConstants, ParseInit
  PROVE  ParseInv
<1>1. PICK m, n \in Nat : Outer = 1 .. m /\ Inner = 1 .. n
  BY DEF TemplatesConstants
<1>2. PICK kinds \in [Outer -> Kinds], inner \in [Inner -> Texts \cup {"boundElement"}] :
          dom = [i \in Outer |->
                   [id |-> <<i>>, kind |-> kinds[i],
                    nodes |-> IF IsElement(kinds[i])
                              THEN [j \in Inner |-> [id |-> <<i, j>>, kind |-> inner[j], nodes |-> <<>>]]
                              ELSE <<>>]]
  BY DEF ParseInit
<1>3. ASSUME NEW i \in Outer
      PROVE  dom[i] \in OuterNode
  <2> DEFINE nodes == [j \in Inner |-> [id |-> <<i, j>>, kind |-> inner[j], nodes |-> <<>>]]
  <2>1. ASSUME NEW j \in Inner
        PROVE  [id |-> <<i, j>>, kind |-> inner[j], nodes |-> <<>>] \in InnerNode
    <3>1. i \in Nat /\ j \in Nat
      BY <1>1
    <3>2. <<i, j>> \in AnyId
      BY <3>1 DEF AnyId
    <3>3. inner[j] \in Kinds
      BY <1>2 DEF Kinds, Texts
    <3>4. QED
      BY <3>2, <3>3 DEF InnerNode
  <2>2. nodes \in Seq(InnerNode)
    BY <1>1, <2>1
  <2>3. /\ dom[i].id = <<i>> /\ dom[i].kind = kinds[i]
        /\ dom[i] = [id |-> <<i>>, kind |-> kinds[i],
                     nodes |-> IF IsElement(kinds[i]) THEN nodes ELSE <<>>]
    BY <1>2
  <2> HIDE DEF nodes
  <2>4. <<i>> \in AnyId /\ kinds[i] \in Kinds
    BY <1>1, <1>2 DEF AnyId
  <2>5. QED
    BY <2>2, <2>3, <2>4 DEF OuterNode
<1>4. dom \in Seq(OuterNode) /\ Len(dom) \in Nat
  <2>1. DOMAIN dom = 1 .. m /\ dom = [i \in 1 .. m |-> dom[i]]
    BY <1>1, <1>2
  <2>2. QED
    BY <1>1, <1>3, <2>1
<1>5. /\ cursor = <<1, 0>> /\ place = <<0, 0>> /\ infos = <<>> /\ effects = {}
  BY DEF ParseInit
<1>6. InTemplate
  BY <1>4, <1>5 DEF InTemplate, Inside
<1>7. NotesLead
  BY <1>5 DEF NotesLead
<1>8. QED
  BY <1>6, <1>7 DEF ParseInv

LEMMA ParsePreserves ==
  ASSUME ParseInv, [ParseNext]_parseVars
  PROVE  ParseInv'
<1>1. CASE ParseNode \/ NestedTemplate
  BY <1>1, MovePreserves DEF ParseNode, NestedTemplate, NotesNothing
<1>2. CASE EnterElement
  <2>1. /\ Kept /\ ~Inside /\ IsElement(Node.kind) /\ NotesNothing
        /\ cursor' = [cursor EXCEPT ![2] = 1] /\ place' = [place EXCEPT ![2] = 0]
    BY <1>2 DEF EnterElement, NotesNothing
  <2>2. Node \in OuterNode /\ dom' = [dom EXCEPT ![Here] = Node]
    BY <1>2, <2>1, AtNode DEF ParseInv, InTemplate, EnterElement, Kept
  <2>3. QED
    BY <2>1, <2>2, EnterPreserves
<1>3. CASE UNCHANGED parseVars
  BY <1>3 DEF parseVars, ParseInv, InTemplate, NotesLead, Inside
<1>4. QED
  BY <1>1, <1>2, <1>3, JoinPreserves, BlankPreserves, WrapPreserves, LeavePreserves
     DEF ParseNext

LEMMA LeadsFinds ==
  ASSUME InTemplate, NEW path, NEW id, Leads(dom, cursor, path, id)
  PROVE  /\ path[1] + 1 \in DOMAIN dom
         /\ Len(path) = 2 => path[2] + 1 \in DOMAIN dom[path[1] + 1].nodes
         /\ FindTemplateNode(path).id = id
<1>1. /\ Len(dom) \in Nat /\ DOMAIN dom = 1 .. Len(dom)
      /\ \A i \in 1 .. Len(dom) : DOMAIN dom[i].nodes = 1 .. Len(dom[i].nodes)
                                  /\ Len(dom[i].nodes) \in Nat
  BY DEF InTemplate, OuterNode
<1>2. CASE \E i \in 1 .. Len(dom) : path = <<i - 1>> /\ i < cursor[1] /\ dom[i].id = id
  <2>1. PICK i \in 1 .. Len(dom) : path = <<i - 1>> /\ dom[i].id = id
    BY <1>2
  <2>2. Len(path) = 1 /\ path[1] + 1 = i
    BY <1>1, <2>1
  <2>3. QED
    BY <1>1, <2>1, <2>2 DEF FindTemplateNode
<1>3. CASE \E i \in 1 .. Len(dom) : \E j \in 1 .. Len(dom[i].nodes) :
              path = <<i - 1, j - 1>> /\ dom[i].nodes[j].id = id
  <2>1. PICK i \in 1 .. Len(dom) : \E j \in 1 .. Len(dom[i].nodes) :
              path = <<i - 1, j - 1>> /\ dom[i].nodes[j].id = id
    BY <1>3
  <2>2. PICK j \in 1 .. Len(dom[i].nodes) :
              path = <<i - 1, j - 1>> /\ dom[i].nodes[j].id = id
    BY <2>1
  <2>3. Len(path) = 2 /\ path[1] + 1 = i /\ path[2] + 1 = j
    BY <1>1, <2>2
  <2>4. QED
    BY <1>1, <2>2, <2>3 DEF FindTemplateNode
<1>4. QED
  BY <1>2, <1>3 DEF Leads

(* cloud-dashboard.js:8475-8490,8657-8724,9384: for templates of any size,  *)
(* every noted place leads to its node in the copies, and an effect updates *)
(* the node it was made for, as its index is that of a place noted with it. *)
THEOREM NotedAreFound ==
  ASSUME TemplatesConstants
  PROVE  ParseSpec => [](NotedIsFound /\ EffectsHitTheirNode)
<1>1. ParseInit => ParseInv
  BY ParseStarts
<1>2. ParseInv /\ [ParseNext]_parseVars => ParseInv'
  BY ParsePreserves
<1>3. ParseInv => NotedIsFound /\ EffectsHitTheirNode
  <2> SUFFICES ASSUME ParseInv
               PROVE  NotedIsFound /\ EffectsHitTheirNode
    OBVIOUS
  <2>1. DOMAIN infos = 1 .. Len(infos)
    BY DEF ParseInv, NotesLead
  <2>2. NotedIsFound
    BY <2>1, LeadsFinds DEF NotedIsFound, ParseInv, NotesLead
  <2>3. EffectsHitTheirNode
    BY <2>1 DEF EffectsHitTheirNode, ParseInv, NotesLead
  <2>4. QED
    BY <2>2, <2>3
<1>4. QED
  BY <1>1, <1>2, <1>3, PTL DEF ParseSpec

-----------------------------------------------------------------------------
(* The copies of templates, and the list they are in.                       *)

BoundTypes ==
    /\ own \in Doms \cup {None}
    /\ own # None =>
         /\ bound \in Seq(Doms) /\ bound # <<>>
         /\ first = own /\ last \in Doms \cup {None}
         /\ next \in [Doms -> Doms \cup {None}]
         /\ previous \in [Doms -> Doms \cup {None}]

(* Copies are in the document once, the element's own in the first place.   *)
OwnIsFirst ==
    /\ bound[1] = own
    /\ \A i, j \in DOMAIN bound : bound[i] = bound[j] => i = j

(* The list leads from each to the one stamped next, and back; others lead  *)
(* nowhere.                                                                 *)
LinksAgree ==
    /\ \A i \in DOMAIN bound :
         /\ next[bound[i]] = IF i = Len(bound) THEN None ELSE bound[i + 1]
         /\ previous[bound[i]] = IF i = 1 THEN None ELSE bound[i - 1]
    /\ \A d \in Doms \ ToSet(bound) : next[d] = None /\ previous[d] = None

LastIsLast == last = bound[Len(bound)] \/ (last = None /\ Len(bound) = 1)

BoundInv == BoundTypes /\ (own # None => OwnIsFirst /\ LinksAgree /\ LastIsLast)

LEMMA BoundFacts ==
  ASSUME BoundInv, own # None
  PROVE  /\ bound \in Seq(Doms) /\ Len(bound) \in Nat /\ Len(bound) >= 1
         /\ DOMAIN bound = 1 .. Len(bound)
         /\ \A i \in 1 .. Len(bound) : bound[i] \in Doms
         /\ bound[1] = own /\ first = own /\ own \in Doms
         /\ \A d : d \in ToSet(bound) <=> \E i \in DOMAIN bound : bound[i] = d
  BY DEF BoundInv, BoundTypes, OwnIsFirst, ToSet

LEMMA StampPreserves ==
  ASSUME None \notin Doms, BoundInv, own # None, NEW d \in Doms, StampTemplate(d)
  PROVE  BoundInv'
<1> DEFINE n == Len(bound)
<1>0. bound \in Seq(Doms)
  BY BoundFacts
<1>n. n \in Nat /\ n >= 1
  BY BoundFacts
<1>1. /\ n \in Nat /\ n >= 1 /\ DOMAIN bound = 1 .. n
      /\ \A i \in 1 .. n : bound[i] \in Doms
      /\ bound[1] = own /\ first = own /\ own \in Doms
      /\ \A c : c \in ToSet(bound) <=> \E i \in 1 .. n : bound[i] = c
  BY BoundFacts
<1>2. /\ bound' = Append(bound, d) /\ own' = own /\ d \notin ToSet(bound)
      /\ next' = [next EXCEPT ![bound[n]] = d] /\ first' = first /\ last' = d
      /\ previous' = [previous EXCEPT ![d] = bound[n]]
  BY <1>1 DEF StampTemplate, BoundInv, LastIsLast
<1>2a. bound' \in Seq(Doms)
  BY <1>0, <1>2
<1>3. /\ Len(bound') = n + 1 /\ DOMAIN bound' = 1 .. (n + 1)
      /\ \A i \in 1 .. n : bound'[i] = bound[i]
      /\ bound'[n + 1] = d
  BY <1>0, <1>1, <1>2
<1>4. \A i \in 1 .. n : bound[i] # d
  BY <1>1, <1>2
<1>5. \A i, j \in 1 .. n : bound[i] = bound[j] => i = j
  BY <1>1 DEF BoundInv, OwnIsFirst
<1>5a. next \in [Doms -> Doms \cup {None}] /\ previous \in [Doms -> Doms \cup {None}]
  BY DEF BoundInv, BoundTypes
<1>5b. /\ next' \in [Doms -> Doms \cup {None}] /\ previous' \in [Doms -> Doms \cup {None}]
       /\ \A c \in Doms : /\ next'[c] = IF c = bound[n] THEN d ELSE next[c]
                          /\ previous'[c] = IF c = d THEN bound[n] ELSE previous[c]
  BY <1>1, <1>2, <1>5a
<1>6. BoundTypes'
  BY <1>1, <1>2, <1>2a, <1>3, <1>5b DEF BoundInv, BoundTypes
<1>7. OwnIsFirst'
  BY <1>1, <1>2, <1>3, <1>4, <1>5 DEF OwnIsFirst
<1>8. LinksAgree'
  <2>1. /\ \A i \in 1 .. n :
             /\ next[bound[i]] = IF i = n THEN None ELSE bound[i + 1]
             /\ previous[bound[i]] = IF i = 1 THEN None ELSE bound[i - 1]
        /\ \A c \in Doms \ ToSet(bound) : next[c] = None /\ previous[c] = None
    BY <1>1 DEF BoundInv, LinksAgree
  <2>2. ASSUME NEW i \in 1 .. (n + 1)
        PROVE  /\ next'[bound'[i]] = IF i = n + 1 THEN None ELSE bound'[i + 1]
               /\ previous'[bound'[i]] = IF i = 1 THEN None ELSE bound'[i - 1]
    <3>1. CASE i = n + 1
      <4>1. bound'[i] = d /\ bound'[i - 1] = bound[n] /\ i # 1
        BY <1>n, <1>3, <3>1
      <4>2. d # bound[n] /\ d \in Doms \ ToSet(bound)
        BY <1>n, <1>2, <1>4
      <4>3. next'[d] = None /\ previous'[d] = bound[n]
        BY <1>5b, <2>1, <4>2
      <4>4. QED
        BY <3>1, <4>1, <4>3
    <3>2. CASE i = n
      <4>1. /\ bound'[i] = bound[n] /\ bound'[i + 1] = d /\ n \in 1 .. n /\ i # n + 1
            /\ i > 1 => bound'[i - 1] = bound[i - 1]
        BY <1>n, <1>3, <3>2
      <4>2. d # bound[n] /\ bound[n] \in Doms
        BY <1>1, <1>4, <4>1
      <4>3. next'[bound[n]] = d /\ previous'[bound[n]] = previous[bound[n]]
        BY <1>5b, <4>2
      <4>4. previous[bound[n]] = IF i = 1 THEN None ELSE bound[i - 1]
        BY <2>1, <3>2, <4>1
      <4>5. QED
        BY <1>n, <3>2, <4>1, <4>3, <4>4
    <3>3. CASE i \in 1 .. (n - 1)
      <4>1. /\ i \in 1 .. n /\ n \in 1 .. n /\ bound[i] # bound[n] /\ bound[i] # d
            /\ bound'[i] = bound[i] /\ bound'[i + 1] = bound[i + 1]
            /\ i > 1 => bound'[i - 1] = bound[i - 1]
        BY <1>1, <1>3, <1>4, <1>5, <3>3
      <4>2. next'[bound[i]] = next[bound[i]] /\ previous'[bound[i]] = previous[bound[i]]
        BY <1>1, <1>5b, <2>1, <4>1
      <4>3. next[bound[i]] = bound[i + 1] /\ i # n + 1
        BY <1>n, <2>1, <3>3
      <4>4. previous[bound[i]] = IF i = 1 THEN None ELSE bound[i - 1]
        BY <2>1, <4>1
      <4>5. QED
        BY <1>n, <3>3, <4>1, <4>2, <4>3, <4>4
    <3>4. QED
      BY <1>n, <3>1, <3>2, <3>3
  <2>3. ASSUME NEW c \in Doms \ ToSet(bound')
        PROVE  next'[c] = None /\ previous'[c] = None
    <3>1. \A i \in 1 .. (n + 1) : bound'[i] # c
      BY <1>3 DEF ToSet
    <3>2. c # d /\ \A i \in 1 .. n : bound[i] # c
      BY <1>1, <1>3, <3>1
    <3>3. c \in Doms \ ToSet(bound) /\ c # bound[n]
      BY <1>1, <3>2
    <3>4. QED
      BY <1>1, <1>5b, <2>1, <3>2, <3>3
  <2>4. QED
    BY <1>3, <2>2, <2>3 DEF LinksAgree
<1>9. LastIsLast'
  BY <1>1, <1>2, <1>3 DEF LastIsLast
<1>10. QED
  BY <1>6, <1>7, <1>8, <1>9 DEF BoundInv

LEMMA UnbindPreserves ==
  ASSUME None \notin Doms, BoundInv, own # None, NEW d \in Doms, RemoveBoundDom(d)
  PROVE  BoundInv'
<1> DEFINE n == Len(bound)
<1>0. bound \in Seq(Doms)
  BY BoundFacts
<1>n. n \in Nat /\ n >= 1
  BY BoundFacts
<1>1. /\ n \in Nat /\ n >= 1 /\ DOMAIN bound = 1 .. n
      /\ \A i \in 1 .. n : bound[i] \in Doms
      /\ bound[1] = own /\ first = own /\ own \in Doms
      /\ \A c : c \in ToSet(bound) <=> \E i \in 1 .. n : bound[i] = c
  BY BoundFacts
<1>2. PICK k \in 1 .. n : bound[k] = d /\ bound' = RemoveAt(bound, k)
  BY <1>1 DEF RemoveBoundDom
<1>2a. /\ bound' \in Seq(Doms) /\ Len(bound') = n - 1
       /\ \A i \in 1 .. (n - 1) : bound'[i] = IF i < k THEN bound[i] ELSE bound[i + 1]
  <2>1. k \in DOMAIN bound
    BY <1>1
  <2>2. QED
    BY <1>0, <1>2, <2>1, RemovedAt
<1>3. /\ Len(bound') = n - 1 /\ DOMAIN bound' = 1 .. (n - 1)
      /\ \A i \in 1 .. (n - 1) : bound'[i] = IF i < k THEN bound[i] ELSE bound[i + 1]
  BY <1>2a
<1>4. \A i, j \in 1 .. n : bound[i] = bound[j] => i = j
  BY <1>1 DEF BoundInv, OwnIsFirst
<1>5. /\ next \in [Doms -> Doms \cup {None}] /\ previous \in [Doms -> Doms \cup {None}]
      /\ \A i \in 1 .. n :
           /\ next[bound[i]] = IF i = n THEN None ELSE bound[i + 1]
           /\ previous[bound[i]] = IF i = 1 THEN None ELSE bound[i - 1]
      /\ \A c \in Doms \ ToSet(bound) : next[c] = None /\ previous[c] = None
  BY <1>1 DEF BoundInv, BoundTypes, LinksAgree
<1>6. d # own /\ own' = own /\ first' = first
  BY DEF RemoveBoundDom
<1>7. k > 1 /\ previous[d] = bound[k - 1] /\ previous[d] # None
  <2>1. k > 1
    BY <1>1, <1>2, <1>6
  <2>2. k - 1 \in 1 .. n /\ k # 1
    BY <1>1, <2>1
  <2>3. QED
    BY <1>1, <1>2, <1>5, <2>1, <2>2
<1>8. next[d] = IF k = n THEN None ELSE bound[k + 1]
  BY <1>2, <1>5
<1>9. next' = [[next EXCEPT ![bound[k - 1]] = next[d]] EXCEPT ![d] = None]
  BY <1>7 DEF RemoveBoundDom, Linked
<1>10. previous' = [(IF k = n THEN previous
                     ELSE [previous EXCEPT ![bound[k + 1]] = bound[k - 1]]) EXCEPT ![d] = None]
  <2>1. k # n => bound[k + 1] # None
    <3>1. k # n => k + 1 \in 1 .. n
      BY <1>n
    <3>2. \A i \in 1 .. n : bound[i] # None
      BY <1>1
    <3>3. QED
      BY <3>1, <3>2
  <2>2. QED
    BY <1>7, <1>8, <2>1 DEF RemoveBoundDom, Linked
<1>11. last' = IF last = d THEN bound[k - 1] ELSE last
  BY <1>7 DEF RemoveBoundDom
<1>m. /\ k - 1 \in 1 .. n /\ bound[k - 1] \in Doms
      /\ k # n => k + 1 \in 1 .. n /\ bound[k + 1] \in Doms
  <2>1. k - 1 \in 1 .. n /\ (k # n => k + 1 \in 1 .. n)
    BY <1>n, <1>7
  <2>2. QED
    BY <1>1, <2>1
<1>11a. next' \in [Doms -> Doms \cup {None}] /\ previous' \in [Doms -> Doms \cup {None}]
  <2>1. next[d] \in Doms \cup {None}
    BY <1>5
  <2>2. next' \in [Doms -> Doms \cup {None}]
    BY <1>5, <1>9, <2>1, <1>m
  <2>3. previous' \in [Doms -> Doms \cup {None}]
    BY <1>5, <1>10, <1>m
  <2>4. QED
    BY <2>2, <2>3
<1>11b. \A c \in Doms : next'[c] = IF c = d THEN None
                                  ELSE IF c = bound[k - 1] THEN next[d] ELSE next[c]
  BY <1>1, <1>5, <1>7, <1>9
<1>11c. \A c \in Doms :
          previous'[c] = IF c = d THEN None
                         ELSE IF k # n /\ c = bound[k + 1] THEN bound[k - 1] ELSE previous[c]
  BY <1>1, <1>5, <1>7, <1>10
<1>11d. /\ \A i \in 1 .. n :
             /\ next[bound[i]] = IF i = n THEN None ELSE bound[i + 1]
             /\ previous[bound[i]] = IF i = 1 THEN None ELSE bound[i - 1]
        /\ \A c \in Doms \ ToSet(bound) : next[c] = None /\ previous[c] = None
  BY <1>5
<1>12. BoundTypes'
  <2>1. bound' # <<>>
    BY <1>1, <1>3, <1>7
  <2>2. last' \in Doms \cup {None}
    BY <1>1, <1>7, <1>11 DEF BoundInv, BoundTypes
  <2>4. QED
    BY <1>1, <1>2a, <1>3, <1>6, <1>11a, <2>1, <2>2 DEF BoundTypes
<1>13. OwnIsFirst'
  <2>1. bound'[1] = own
    BY <1>1, <1>3, <1>7
  <2>2. ASSUME NEW i \in 1 .. (n - 1), NEW j \in 1 .. (n - 1), bound'[i] = bound'[j]
        PROVE  i = j
    <3>1. PICK a \in 1 .. n : a = IF i < k THEN i ELSE i + 1
      BY <1>1
    <3>2. PICK b \in 1 .. n : b = IF j < k THEN j ELSE j + 1
      BY <1>1
    <3>3. bound[a] = bound[b]
      BY <1>3, <2>2, <3>1, <3>2
    <3>4. a = b
      BY <1>4, <3>3
    <3>5. QED
      BY <1>1, <3>1, <3>2, <3>4
  <2>3. QED
    BY <1>3, <1>6, <2>1, <2>2 DEF OwnIsFirst
<1>14. LinksAgree'
  <2>1. ASSUME NEW i \in 1 .. (n - 1)
        PROVE  /\ next'[bound'[i]] = IF i = n - 1 THEN None ELSE bound'[i + 1]
               /\ previous'[bound'[i]] = IF i = 1 THEN None ELSE bound'[i - 1]
    <3>1. CASE i < k - 1
      <4>1. /\ bound'[i] = bound[i] /\ bound'[i + 1] = bound[i + 1]
            /\ i > 1 => bound'[i - 1] = bound[i - 1]
            /\ i # n - 1 /\ i # n
        BY <1>n, <1>3, <3>1
      <4>2. /\ i \in 1 .. n /\ bound[i] # d /\ bound[i] # bound[k - 1]
            /\ k # n => bound[i] # bound[k + 1]
        BY <1>n, <1>2, <1>4, <1>m, <3>1
      <4>a. bound[i] \in Doms
        BY <1>1, <4>2
      <4>3. next'[bound[i]] = next[bound[i]] /\ previous'[bound[i]] = previous[bound[i]]
        BY <1>11b, <1>11c, <4>2, <4>a
      <4>4. /\ i \in 1 .. n /\ next[bound[i]] = bound[i + 1]
            /\ previous[bound[i]] = IF i = 1 THEN None ELSE bound[i - 1]
        BY <1>n, <1>11d, <4>1
      <4>5. QED
        BY <1>n, <4>1, <4>3, <4>4
    <3>2. CASE i = k - 1
      <4>1. /\ bound'[i] = bound[i]
            /\ i # n - 1 => bound'[i + 1] = bound[k + 1]
            /\ i > 1 => bound'[i - 1] = bound[i - 1]
            /\ i = n - 1 <=> k = n
        BY <1>n, <1>3, <3>2
      <4>2. /\ bound[i] # d
            /\ k # n => bound[i] # bound[k + 1]
        BY <1>n, <1>2, <1>4, <1>m, <3>2
      <4>3. next'[bound[i]] = next[d] /\ previous'[bound[i]] = previous[bound[i]]
        BY <1>11b, <1>11c, <1>m, <3>2, <4>2
      <4>4. previous[bound[i]] = IF i = 1 THEN None ELSE bound[i - 1]
        BY <1>n, <1>11d
      <4>5. QED
        BY <1>n, <1>8, <4>1, <4>3, <4>4
    <3>3. CASE i > k - 1
      <4>n. /\ i + 1 \in 1 .. n /\ i # 1 /\ k # n /\ k + 1 \in 1 .. n /\ ~(i < k)
            /\ i - 1 \in 1 .. (n - 1) /\ (i # n - 1 => i + 1 \in 1 .. (n - 1) /\ ~(i + 1 < k))
            /\ i = k <=> i - 1 < k
        BY <1>n, <1>7, <3>3
      <4>1. /\ bound'[i] = bound[i + 1]
            /\ i # n - 1 => bound'[i + 1] = bound[i + 2]
            /\ i = k => bound'[i - 1] = bound[k - 1]
            /\ i # k => bound'[i - 1] = bound[i]
            /\ i + 1 \in 1 .. n /\ i # 1 /\ k # n /\ k + 1 \in 1 .. n
        BY <1>n, <1>3, <4>n
      <4>2. /\ bound[i + 1] # d /\ bound[i + 1] # bound[k - 1]
            /\ i # k => bound[i + 1] # bound[k + 1]
        BY <1>n, <1>2, <1>4, <1>7, <3>3, <4>1
      <4>3. /\ next'[bound[i + 1]] = next[bound[i + 1]]
            /\ previous'[bound[i + 1]]
                 = IF i = k THEN bound[k - 1] ELSE previous[bound[i + 1]]
        BY <1>1, <1>11b, <1>11c, <4>1, <4>2
      <4>4. /\ next[bound[i + 1]] = IF i = n - 1 THEN None ELSE bound[i + 2]
            /\ previous[bound[i + 1]] = bound[i]
        <5>1. i + 1 # 1 /\ (i + 1) - 1 = i /\ (i + 1) + 1 = i + 2 /\ (i + 1 = n <=> i = n - 1)
          BY <1>n
        <5>2. /\ next[bound[i + 1]] = IF i + 1 = n THEN None ELSE bound[(i + 1) + 1]
              /\ previous[bound[i + 1]] = IF i + 1 = 1 THEN None ELSE bound[(i + 1) - 1]
          BY <1>11d, <4>1
        <5>3. QED
          BY <5>1, <5>2
      <4>5. QED
        BY <4>1, <4>3, <4>4
    <3>4. QED
      BY <1>n, <3>1, <3>2, <3>3
  <2>2. ASSUME NEW c \in Doms \ ToSet(bound')
        PROVE  next'[c] = None /\ previous'[c] = None
    <3>1. \A i \in 1 .. (n - 1) : bound'[i] # c
      BY <1>3 DEF ToSet
    <3>2. ASSUME NEW i \in 1 .. n, i # k
          PROVE  bound[i] # c
      <4>1. CASE i < k
        BY <1>1, <1>3, <3>1, <4>1
      <4>2. CASE i > k
        <5>1. i - 1 \in 1 .. (n - 1) /\ ~(i - 1 < k)
          BY <1>1, <4>2
        <5>2. bound'[i - 1] = bound[i]
          BY <1>3, <5>1
        <5>3. QED
          BY <3>1, <5>1, <5>2
      <4>3. QED
        BY <1>1, <3>2, <4>1, <4>2
    <3>3. CASE c = d
      BY <1>1, <1>11b, <1>11c, <1>11d, <1>2, <3>3
    <3>4. CASE c # d
      <4>1. c \in Doms \ ToSet(bound) /\ \A i \in 1 .. n : bound[i] # c
        BY <1>1, <1>2, <3>2, <3>4
      <4>2. bound[k - 1] # c /\ (k # n => bound[k + 1] # c)
        BY <1>m, <4>1
      <4>3. QED
        BY <1>1, <1>7, <1>11b, <1>11c, <1>11d, <3>4, <4>1, <4>2
    <3>5. QED
      BY <3>3, <3>4
  <2>3. QED
    BY <1>3, <2>1, <2>2 DEF LinksAgree
<1>15. LastIsLast'
  <2>1. last = bound[n] \/ (last = None /\ n = 1)
    BY DEF BoundInv, LastIsLast
  <2>2. n # 1 /\ n - 1 \in 1 .. n
    BY <1>1, <1>7
  <2>3. CASE k = n
    BY <1>1, <1>2, <1>3, <1>11, <2>1, <2>2, <2>3 DEF LastIsLast
  <2>4. CASE k # n
    <3>1. last # d /\ bound'[n - 1] = bound[n]
      <4>1. ~(n - 1 < k) /\ n - 1 \in 1 .. (n - 1) /\ n - 1 + 1 = n /\ n \in 1 .. n
        BY <1>n, <2>2, <2>4
      <4>2. bound'[n - 1] = bound[n] /\ bound[n] # d
        BY <1>2, <1>3, <1>4, <2>4, <4>1
      <4>3. QED
        BY <2>1, <2>2, <4>2
    <3>2. QED
      BY <1>3, <1>11, <2>1, <2>2, <3>1 DEF LastIsLast
  <2>5. QED
    BY <2>3, <2>4
<1>16. QED
  BY <1>12, <1>13, <1>14, <1>15 DEF BoundInv

(* cloud-dashboard.js:10569-10574,11160-11172,11253-11264: whatever copies  *)
(* come and go, an element with a template of its own updates exactly those *)
(* that are in the document, in the order of their stamping.                *)
THEOREM CopiesAreReached ==
  ASSUME None \notin Doms
  PROVE  BoundSpec => []AllReached
<1>1. BoundInit => BoundInv
  <2> SUFFICES ASSUME BoundInit PROVE BoundInv
    OBVIOUS
  <2>1. CASE own = None
    BY <2>1 DEF BoundInit, BoundInv, BoundTypes
  <2>2. CASE own # None
    <3>1. bound = <<own>> /\ own \in Doms /\ ToSet(bound) = {own}
      BY <2>2 DEF BoundInit, ToSet
    <3>2. QED
      BY <2>2, <3>1 DEF BoundInit, BoundInv, BoundTypes, OwnIsFirst, LinksAgree, LastIsLast
  <2>3. QED
    BY <2>1, <2>2
<1>2. BoundInv /\ [BoundNext]_boundVars => BoundInv'
  <2> SUFFICES ASSUME BoundInv, [BoundNext]_boundVars PROVE BoundInv'
    OBVIOUS
  <2>1. own' = own
    BY DEF BoundNext, StampTemplate, RemoveBoundDom, boundVars
  <2>2. CASE own = None
    BY <2>1, <2>2 DEF BoundInv, BoundTypes
  <2>3. CASE own # None
    BY <2>3, StampPreserves, UnbindPreserves
       DEF BoundNext, boundVars, BoundInv, BoundTypes, OwnIsFirst, LinksAgree, LastIsLast
  <2>4. QED
    BY <2>2, <2>3
<1>3. BoundInv => AllReached
  BY BoundFacts DEF AllReached, Walks, BoundInv, LinksAgree
<1>4. QED
  BY <1>1, <1>2, <1>3, PTL DEF BoundSpec

-----------------------------------------------------------------------------
(* The flow of values.                                                      *)

FlowConstants ==
    /\ Children \in Seq(Bound) /\ Host \notin Bound
    /\ TwoWay \subseteq Bound /\ Late \subseteq Bound
    /\ MaxSets \in Nat

Life == {"plain", "built", "enabled", "clients", "ready"}

Frame == [what : {"ready", "flush"}, el : Elements,
          at : {"flush", "clients", "loop", "again", "begin", "observe", "notify", "end"},
          todo : Seq(Bound), notify : {"none", "yes", "no"}]

FlowTypes ==
    /\ life \in [Elements -> Life]
    /\ data \in [Elements -> Values \cup {Undefined}]
    /\ computed \in [Elements -> Values \cup {Undefined}]
    /\ told \in [Elements -> Values \cup {Undefined}]
    /\ pending \in [Elements -> BOOLEAN]
    /\ notify \in [Elements -> {"none", "yes", "no"}]
    /\ clients \in Seq(Bound) /\ calls \in Seq(Frame)
    /\ sets \in 0 .. MaxSets

Listed(s) == {s[k] : k \in DOMAIN s}

-----------------------------------------------------------------------------
(* Steps of the stack.                                                      *)

(* The top goes on as g, and the call in new is made, if there is one.      *)
Goes(g, new) ==
    /\ calls # <<>> /\ calls' \in Seq(Frame)
    /\ g \in Frame /\ g.what = Top.what /\ g.el = Top.el
    /\ \A i \in DOMAIN calls : i \in DOMAIN calls' /\ (i # Len(calls) => calls'[i] = calls[i])
    /\ calls'[Len(calls)] = g
    /\ \A i \in DOMAIN calls' : i \in DOMAIN calls \/ (i = Len(calls') /\ new = {calls'[i]})
    /\ \/ new = {} /\ Len(calls') = Len(calls)
       \/ Len(calls') = Len(calls) + 1 /\ \E f \in Frame : new = {f} /\ calls'[Len(calls')] = f

LEMMA TopIsThere ==
  ASSUME FlowTypes, calls # <<>>
  PROVE  /\ Len(calls) \in Nat \ {0} /\ DOMAIN calls = 1 .. Len(calls)
         /\ Len(calls) \in DOMAIN calls /\ Top \in Frame /\ Top = calls[Len(calls)]
         /\ Top.el \in Elements /\ Top.todo \in Seq(Bound)
<1>1. calls \in Seq(Frame) /\ Len(calls) \in Nat /\ DOMAIN calls = 1 .. Len(calls)
  BY DEF FlowTypes
<1>2. Len(calls) # 0
  BY <1>1
<1>3. Len(calls) \in DOMAIN calls /\ calls[Len(calls)] \in Frame
  BY <1>1, <1>2
<1>4. \A f \in Frame : f.el \in Elements /\ f.todo \in Seq(Bound)
  BY DEF Frame
<1>5. QED
  BY <1>1, <1>2, <1>3, <1>4 DEF Top

LEMMA Replaced ==
  ASSUME NEW S, NEW s \in Seq(S), NEW n \in DOMAIN s, NEW g \in S
  PROVE  LET r == [s EXCEPT ![n] = g] IN
         /\ r \in Seq(S) /\ Len(r) = Len(s) /\ DOMAIN r = DOMAIN s
         /\ r[n] = g /\ \A i \in DOMAIN s : i # n => r[i] = s[i]
<1> DEFINE r == [s EXCEPT ![n] = g]
<1>1. DOMAIN r = DOMAIN s /\ DOMAIN s = 1 .. Len(s) /\ Len(s) \in Nat
  OBVIOUS
<1>2. \A i \in DOMAIN s : r[i] \in S
  OBVIOUS
<1>3. r[n] = g /\ \A i \in DOMAIN s : i # n => r[i] = s[i]
  OBVIOUS
<1>4. r = [i \in 1 .. Len(s) |-> r[i]]
  BY <1>1
<1> HIDE DEF r
<1>5. r \in Seq(S) /\ Len(r) = Len(s)
  BY <1>1, <1>2, <1>4
<1>6. QED
  BY <1>1, <1>3, <1>5 DEF r

LEMMA Appended ==
  ASSUME NEW S, NEW s \in Seq(S), NEW f \in S
  PROVE  /\ Append(s, f) \in Seq(S) /\ Len(Append(s, f)) = Len(s) + 1 /\ Len(s) \in Nat
         /\ DOMAIN s = 1 .. Len(s) /\ DOMAIN Append(s, f) = 1 .. (Len(s) + 1)
         /\ Append(s, f)[Len(s) + 1] = f /\ \A i \in DOMAIN s : Append(s, f)[i] = s[i]
OBVIOUS

LEMMA TopMoves ==
  ASSUME FlowTypes, calls # <<>>, NEW g \in Frame, g.what = Top.what, g.el = Top.el,
         calls' = [calls EXCEPT ![Len(calls)] = g]
  PROVE  Goes(g, {})
<1>1. /\ Len(calls) \in Nat \ {0} /\ DOMAIN calls = 1 .. Len(calls) /\ Len(calls) \in DOMAIN calls
      /\ calls \in Seq(Frame)
  BY TopIsThere DEF FlowTypes
<1>2. /\ calls' \in Seq(Frame) /\ Len(calls') = Len(calls) /\ DOMAIN calls' = DOMAIN calls
      /\ calls'[Len(calls)] = g /\ \A i \in DOMAIN calls : i # Len(calls) => calls'[i] = calls[i]
  BY <1>1, Replaced
<1>3. QED
  BY <1>1, <1>2 DEF Goes

LEMMA TopCalls ==
  ASSUME FlowTypes, calls # <<>>, NEW g \in Frame, g.what = Top.what, g.el = Top.el,
         NEW f \in Frame, calls' = Append([calls EXCEPT ![Len(calls)] = g], f)
  PROVE  Goes(g, {f})
<1>1. /\ Len(calls) \in Nat \ {0} /\ DOMAIN calls = 1 .. Len(calls) /\ Len(calls) \in DOMAIN calls
      /\ calls \in Seq(Frame)
  BY TopIsThere DEF FlowTypes
<1>2. PICK s : s = [calls EXCEPT ![Len(calls)] = g]
  OBVIOUS
<1>3. /\ s \in Seq(Frame) /\ Len(s) = Len(calls) /\ DOMAIN s = DOMAIN calls
      /\ s[Len(calls)] = g /\ \A i \in DOMAIN calls : i # Len(calls) => s[i] = calls[i]
  BY <1>1, <1>2, Replaced
<1>4. calls' = Append(s, f)
  BY <1>2
<1>5. /\ calls' \in Seq(Frame) /\ Len(calls') = Len(calls) + 1 /\ DOMAIN calls' = 1 .. (Len(calls) + 1)
      /\ calls'[Len(calls) + 1] = f /\ \A i \in DOMAIN calls : calls'[i] = s[i]
  <2>1. /\ Append(s, f) \in Seq(Frame) /\ Len(Append(s, f)) = Len(s) + 1
        /\ DOMAIN Append(s, f) = 1 .. (Len(s) + 1)
        /\ Append(s, f)[Len(s) + 1] = f /\ \A i \in DOMAIN s : Append(s, f)[i] = s[i]
    BY <1>3, Appended
  <2>2. QED
    BY <1>3, <1>4, <2>1
<1>a. PICK n \in Nat : n = Len(calls) /\ Len(calls') = n + 1 /\ DOMAIN calls = 1 .. n
                       /\ DOMAIN calls' = 1 .. (n + 1)
  BY <1>1, <1>5
<1>6. \A i \in DOMAIN calls' : i \in DOMAIN calls \/ i = Len(calls')
  BY <1>a
<1>7. \A i \in DOMAIN calls : i \in DOMAIN calls' /\ calls'[i] = s[i]
  <2>1. \A i \in DOMAIN calls : i \in DOMAIN calls'
    BY <1>a
  <2>2. QED
    BY <1>5, <2>1
<1>8. \A i \in DOMAIN calls : i # Len(calls) => calls'[i] = calls[i]
  BY <1>3, <1>7
<1>9. calls'[Len(calls)] = g /\ calls'[Len(calls')] = f
  BY <1>1, <1>3, <1>5, <1>7
<1>10. \A i \in DOMAIN calls' : i \in DOMAIN calls \/ (i = Len(calls') /\ {f} = {calls'[i]})
  BY <1>6, <1>9
<1>11. QED
  BY <1>5, <1>7, <1>8, <1>9, <1>10 DEF Goes

LEMMA FramesTyped ==
  ASSUME FlowTypes
  PROVE  \A i \in DOMAIN calls : /\ calls[i] \in Frame /\ calls[i].el \in Elements
                                 /\ calls[i].todo \in Seq(Bound)
<1>1. \A i \in DOMAIN calls : calls[i] \in Frame
  BY DEF FlowTypes
<1>2. \A f \in Frame : f.el \in Elements /\ f.todo \in Seq(Bound)
  BY DEF Frame
<1>3. QED
  BY <1>1, <1>2

(* Where the top goes.                                                      *)
LEMMA TopAt ==
  ASSUME FlowTypes, calls # <<>>, NEW at
  PROVE  At(at) = [calls EXCEPT ![Len(calls)] = [Top EXCEPT !.at = at]]
BY DEF At, Top

LEMMA FlushGoes ==
  ASSUME FlowTypes, calls # <<>>, NEW g \in Frame, g.what = Top.what, g.el = Top.el,
         NEW condition \in BOOLEAN, NEW e \in Elements,
         calls' = FlushIf([calls EXCEPT ![Len(calls)] = g], condition, e)
  PROVE  Goes(g, IF condition THEN {Flush(e)} ELSE {})
<1>1. CASE condition
  <2>1. Flush(e) \in Frame
    BY DEF Flush, Frame
  <2>2. QED
    BY <1>1, <2>1, TopCalls DEF FlushIf
<1>2. CASE ~condition
  BY <1>2, TopMoves DEF FlushIf
<1>3. QED
  BY <1>1, <1>2

LEMMA ListedTogether ==
  ASSUME NEW S, NEW s \in Seq(S), NEW r \in Seq(S)
  PROVE  Listed(s \o r) = Listed(s) \cup Listed(r)
<1>1. /\ Len(s) \in Nat /\ Len(r) \in Nat
      /\ DOMAIN s = 1 .. Len(s) /\ DOMAIN r = 1 .. Len(r) /\ DOMAIN (s \o r) = 1 .. (Len(s) + Len(r))
      /\ \A k \in DOMAIN (s \o r) : (s \o r)[k] = IF k <= Len(s) THEN s[k] ELSE r[k - Len(s)]
  OBVIOUS
<1>2. \A k \in DOMAIN s : k \in DOMAIN (s \o r) /\ (s \o r)[k] = s[k]
  BY <1>1
<1>3. \A k \in DOMAIN r : k + Len(s) \in DOMAIN (s \o r) /\ (s \o r)[k + Len(s)] = r[k]
  BY <1>1
<1>4. \A k \in DOMAIN (s \o r) :
         \/ k \in DOMAIN s /\ (s \o r)[k] = s[k]
         \/ k - Len(s) \in DOMAIN r /\ (s \o r)[k] = r[k - Len(s)]
  BY <1>1
<1> DEFINE q == s \o r
<1> HIDE DEF q
<1>5. Listed(s) \subseteq Listed(q) /\ Listed(r) \subseteq Listed(q)
  BY <1>2, <1>3 DEF Listed, q
<1>6. Listed(q) \subseteq Listed(s) \cup Listed(r)
  BY <1>4 DEF Listed, q
<1>7. QED
  BY <1>5, <1>6 DEF q

LEMMA ListedFirst ==
  ASSUME NEW S, NEW s \in Seq(S), s # <<>>
  PROVE  /\ Head(s) \in S /\ Head(s) \in Listed(s) /\ Tail(s) \in Seq(S)
         /\ Listed(s) = Listed(Tail(s)) \cup {Head(s)}
<1>1. /\ Len(s) \in Nat /\ DOMAIN s = 1 .. Len(s) /\ 1 \in DOMAIN s
      /\ Tail(s) \in Seq(S) /\ Head(s) = s[1]
      /\ DOMAIN Tail(s) = 1 .. (Len(s) - 1)
      /\ \A k \in DOMAIN Tail(s) : Tail(s)[k] = s[k + 1]
  OBVIOUS
<1>2. \A k \in DOMAIN s : s[k] = Head(s) \/ (k - 1 \in DOMAIN Tail(s) /\ Tail(s)[k - 1] = s[k])
  BY <1>1
<1>3. \A k \in DOMAIN Tail(s) : k + 1 \in DOMAIN s /\ Tail(s)[k] = s[k + 1]
  BY <1>1
<1>4. QED
  BY <1>1, <1>2, <1>3 DEF Listed

LEMMA InOrderLists ==
  ASSUME FlowConstants, NEW S, NEW s \in InOrder(S)
  PROVE  s \in Seq(S) /\ Listed(s) = S
<1>1. PICK n \in 0 .. Len(Children) : s \in [1 .. n -> S]
  BY DEF InOrder
<1>2. Len(Children) \in Nat
  BY DEF FlowConstants
<1>3. s \in Seq(S) /\ DOMAIN s = 1 .. n
  BY <1>1, <1>2
<1>4. \A c \in S : \E k \in DOMAIN s : s[k] = c
  BY DEF InOrder
<1>5. QED
  BY <1>1, <1>3, <1>4 DEF Listed

-----------------------------------------------------------------------------
(* What each action does, told by the frame t at the top, the frame g it    *)
(* goes on as, and the call that is made.                                   *)
Quiet == UNCHANGED <<data, computed, pending, notify, told, sets>>

Pending(e) == IF pending[e] THEN {Flush(e)} ELSE {}

ReadyStep(t, g, new) ==
    /\ t.what = "ready" /\ Quiet
    /\ \/ /\ t.at = "flush" /\ g = [t EXCEPT !.at = "clients"] /\ new = Pending(t.el)
          /\ UNCHANGED <<life, clients>>
       \/ /\ t.at = "clients" /\ life[t.el] = "enabled" /\ new = {}
          /\ g = [t EXCEPT !.at = "loop", !.todo = IF t.el = Host THEN clients ELSE <<>>]
          /\ life' = [life EXCEPT ![t.el] = "clients"]
          /\ clients' = IF t.el = Host THEN <<>> ELSE clients
       \/ /\ t.at = "clients" /\ life[t.el] # "enabled" /\ new = {}
          /\ g = [t EXCEPT !.at = "again"]
          /\ UNCHANGED <<life, clients>>
       \/ /\ t.at = "again" /\ g = [t EXCEPT !.at = "end"] /\ new = Pending(t.el)
          /\ UNCHANGED <<life, clients>>

Built(e) == {c \in Propagated(e) : life[c] # "plain"}

BeginStep(t, g, new) ==
    /\ t.what = "flush" /\ t.at = "begin" /\ new = {}
    /\ g.at = "loop" /\ g.notify = notify[t.el]
    /\ IF t.el = Host THEN Listed(g.todo) = Listed(clients) \cup Built(t.el) ELSE g.todo = <<>>
    /\ clients' = IF t.el = Host THEN <<>> ELSE clients
    /\ life' = IF life[t.el] = "enabled" THEN [life EXCEPT ![t.el] = "clients"] ELSE life
    /\ computed' = [computed EXCEPT ![t.el] = data[t.el]]
    /\ data' = [c \in Elements |-> IF c \in Propagated(t.el) THEN data[t.el] ELSE data[c]]
    /\ pending' = [c \in Elements |->
          IF c = t.el THEN FALSE ELSE pending[c] \/ c \in Built(t.el)]
    /\ notify' = [c \in Elements |->
          IF c = t.el THEN "none" ELSE IF c \in Built(t.el) \cap TwoWay THEN "no" ELSE notify[c]]
    /\ UNCHANGED <<told, sets>>

ClientStep(t, g, new) ==
    /\ t.at = "loop" /\ Quiet /\ clients' = clients
    /\ \/ /\ t.todo = <<>> /\ new = {} /\ life' = [life EXCEPT ![t.el] = "ready"]
          /\ g = [t EXCEPT !.at = IF t.what = "ready" THEN "again" ELSE "observe"]
       \/ \E c \in Bound :
            /\ c \in Listed(t.todo) /\ t.todo # <<>>
            /\ g.at = t.at /\ g.notify = t.notify
            /\ Listed(g.todo) \subseteq Listed(t.todo)
            /\ Listed(t.todo) = Listed(g.todo) \cup {c}
            /\ IF life[c] = "built"
               THEN new = {Enable(c)} /\ life' = [life EXCEPT ![c] = "enabled"]
               ELSE new = Pending(c) /\ life' = life

(* An element that is set to a value.                                       *)
Set(stack, e, value) ==
    /\ SetPending(e, value)
    /\ stack = IF data[e] # value /\ life[e] = "ready" THEN {Flush(e)} ELSE {}

ObserveStep(t, g, new) ==
    /\ t.what = "flush" /\ t.at = "observe" /\ g = [t EXCEPT !.at = "notify"]
    /\ told' = [told EXCEPT ![t.el] = data[t.el]]
    /\ \/ new = {} /\ UNCHANGED <<data, pending, notify, sets>>
       \/ \E value \in Values : Set(new, t.el, value) /\ sets < MaxSets /\ sets' = sets + 1
    /\ UNCHANGED <<life, computed, clients>>

NotifyStep(t, g, new) ==
    /\ t.what = "flush" /\ t.at = "notify" /\ g = [t EXCEPT !.at = "end"]
    /\ \/ /\ t.notify = "yes" /\ SetPending(Host, data[t.el])
          /\ new = IF life[Host] = "ready" /\ (pending[Host] \/ data[Host] # data[t.el])
                   THEN {Flush(Host)} ELSE {}
       \/ t.notify # "yes" /\ new = {} /\ UNCHANGED <<data, pending, notify>>
    /\ UNCHANGED <<life, computed, clients, told, sets>>

Turn(t, g, new) ==
    /\ t \in Frame /\ t = Top /\ Goes(g, new)
    /\ \/ ReadyStep(t, g, new) \/ BeginStep(t, g, new) \/ ClientStep(t, g, new)
       \/ ObserveStep(t, g, new) \/ NotifyStep(t, g, new)

LEMMA ReadyTurns ==
  ASSUME FlowConstants, FlowTypes, Ready, Quiet
  PROVE  \E t, g, new : Turn(t, g, new)
<1>1. PICK t \in Frame : t = Top /\ calls # <<>> /\ t.what = "ready"
  BY TopIsThere DEF Ready, Running
<1>a. t.el \in Elements /\ pending[t.el] \in BOOLEAN /\ clients \in Seq(Bound)
  BY <1>1 DEF Frame, FlowTypes
<1>2. ASSUME Running("ready", "flush"), calls' = FlushIf(At("clients"), pending[Top.el], Top.el),
             UNCHANGED <<life, clients>>
      PROVE  \E g, new : Turn(t, g, new)
  <2>a. PICK g : g = [t EXCEPT !.at = "clients"]
    OBVIOUS
  <2>1. g \in Frame /\ g = [t EXCEPT !.at = "clients"] /\ g.what = t.what /\ g.el = t.el
    BY <1>1, <2>a DEF Frame
  <2>2. Goes(g, Pending(t.el))
    BY <1>1, <1>a, <1>2, <2>1, TopAt, FlushGoes DEF Pending
  <2>3. QED
    BY <1>1, <1>2, <2>1, <2>2 DEF Running, Turn, ReadyStep
<1>3. ASSUME Running("ready", "clients"), life[Top.el] = "enabled",
             life' = [life EXCEPT ![Top.el] = "clients"],
             clients' = IF Top.el = Host THEN <<>> ELSE clients,
             calls' = [At("loop") EXCEPT ![Len(calls)].todo = IF Top.el = Host THEN clients ELSE <<>>]
      PROVE  \E g, new : Turn(t, g, new)
  <2>1. PICK g : g = [t EXCEPT !.at = "loop", !.todo = IF t.el = Host THEN clients ELSE <<>>]
    OBVIOUS
  <2>a. PICK s : s = (IF t.el = Host THEN clients ELSE <<>>) /\ s \in Seq(Bound)
    <3>1. clients \in Seq(Bound) /\ <<>> \in Seq(Bound)
      BY <1>a
    <3>2. (IF t.el = Host THEN clients ELSE <<>>) \in Seq(Bound)
      BY <3>1
    <3>3. QED
      BY <3>2
  <2>2. g \in Frame /\ g.what = t.what /\ g.el = t.el
    <3>1. g = [t EXCEPT !.at = "loop", !.todo = s]
      BY <2>1, <2>a
    <3>2. QED
      BY <1>1, <2>a, <3>1 DEF Frame
  <2>3. calls' = [calls EXCEPT ![Len(calls)] = g]
    BY <1>1, <1>3, <2>1, TopIsThere DEF At, Top, FlowTypes
  <2>4. QED
    BY <1>1, <1>3, <2>1, <2>2, <2>3, TopMoves DEF Running, Turn, ReadyStep
<1>4. ASSUME Running("ready", "clients"), life[Top.el] # "enabled", calls' = At("again"),
             UNCHANGED <<life, clients>>
      PROVE  \E g, new : Turn(t, g, new)
  <2>a. PICK g : g = [t EXCEPT !.at = "again"]
    OBVIOUS
  <2>1. g \in Frame /\ g = [t EXCEPT !.at = "again"] /\ g.what = t.what /\ g.el = t.el
    BY <1>1, <2>a DEF Frame
  <2>2. Goes(g, {})
    BY <1>1, <1>4, <2>1, TopAt, TopMoves
  <2>3. QED
    BY <1>1, <1>4, <2>1, <2>2 DEF Running, Turn, ReadyStep
<1>5. ASSUME Running("ready", "again"), calls' = FlushIf(At("end"), pending[Top.el], Top.el),
             UNCHANGED <<life, clients>>
      PROVE  \E g, new : Turn(t, g, new)
  <2>a. PICK g : g = [t EXCEPT !.at = "end"]
    OBVIOUS
  <2>1. g \in Frame /\ g = [t EXCEPT !.at = "end"] /\ g.what = t.what /\ g.el = t.el
    BY <1>1, <2>a DEF Frame
  <2>2. Goes(g, Pending(t.el))
    BY <1>1, <1>a, <1>5, <2>1, TopAt, FlushGoes DEF Pending
  <2>3. QED
    BY <1>1, <1>5, <2>1, <2>2 DEF Running, Turn, ReadyStep
<1>6. QED
  BY <1>2, <1>3, <1>4, <1>5 DEF Ready
LEMMA BeginTurns ==
  ASSUME FlowConstants, FlowTypes, Begin
  PROVE  \E t, g, new : Turn(t, g, new)
<1>1. PICK t \in Frame : t = Top /\ calls # <<>> /\ t.what = "flush" /\ t.at = "begin"
  BY TopIsThere DEF Begin, Running
<1>2. /\ t.el \in Elements /\ notify[t.el] \in {"none", "yes", "no"} /\ clients \in Seq(Bound)
      /\ Built(t.el) \subseteq Bound
  BY <1>1 DEF Frame, FlowTypes, Built, Propagated
<1>3. PICK enqueued \in InOrder(Built(t.el)) :
         calls' = [At("loop") EXCEPT
                     ![Len(calls)].notify = notify[t.el],
                     ![Len(calls)].todo = IF t.el = Host THEN clients \o enqueued ELSE <<>>]
  BY <1>1 DEF Begin, Built
<1>4. enqueued \in Seq(Bound) /\ Listed(enqueued) = Built(t.el)
  <2>1. enqueued \in Seq(Built(t.el)) /\ Listed(enqueued) = Built(t.el)
    BY InOrderLists
  <2>2. QED
    BY <1>2, <2>1
<1>5. PICK s : s = (IF t.el = Host THEN clients \o enqueued ELSE <<>>) /\ s \in Seq(Bound)
  <2>1. clients \o enqueued \in Seq(Bound) /\ <<>> \in Seq(Bound)
    BY <1>2, <1>4
  <2>2. (IF t.el = Host THEN clients \o enqueued ELSE <<>>) \in Seq(Bound)
    BY <2>1
  <2>3. QED
    BY <2>2
<1>6. Listed(clients \o enqueued) = Listed(clients) \cup Listed(enqueued)
  BY <1>2, <1>4, ListedTogether
<1>7. PICK g : g = [t EXCEPT !.at = "loop", !.notify = notify[t.el], !.todo = s]
  OBVIOUS
<1>8. /\ g \in Frame /\ g.what = t.what /\ g.el = t.el
      /\ g.at = "loop" /\ g.notify = notify[t.el] /\ g.todo = s
  BY <1>1, <1>2, <1>5, <1>7 DEF Frame
<1>9. calls' = [calls EXCEPT ![Len(calls)] = g]
  <2>1. calls' = [[calls EXCEPT ![Len(calls)].at = "loop"] EXCEPT
                     ![Len(calls)].notify = notify[t.el], ![Len(calls)].todo = s]
    BY <1>3, <1>5 DEF At
  <2>2. QED
    BY <1>1, <1>7, <2>1, TopIsThere DEF Top, FlowTypes
<1>10. Goes(g, {})
  BY <1>1, <1>8, <1>9, TopMoves
<1>11. BeginStep(t, g, {})
  <2>1. IF t.el = Host THEN Listed(g.todo) = Listed(clients) \cup Built(t.el) ELSE g.todo = <<>>
    BY <1>4, <1>5, <1>6, <1>8
  <2>2. /\ computed' = [computed EXCEPT ![t.el] = data[t.el]]
        /\ data' = [c \in Elements |-> IF c \in Propagated(t.el) THEN data[t.el] ELSE data[c]]
        /\ pending' = [c \in Elements |->
              IF c = t.el THEN FALSE ELSE pending[c] \/ c \in Built(t.el)]
        /\ notify' = [c \in Elements |->
              IF c = t.el THEN "none" ELSE IF c \in Built(t.el) \cap TwoWay THEN "no" ELSE notify[c]]
        /\ clients' = IF t.el = Host THEN <<>> ELSE clients
        /\ life' = IF life[t.el] = "enabled" THEN [life EXCEPT ![t.el] = "clients"] ELSE life
        /\ UNCHANGED <<told, sets>>
    BY <1>1 DEF Begin, Compute, Built
  <2>3. QED
    BY <1>1, <1>8, <2>1, <2>2 DEF BeginStep
<1>12. QED
  BY <1>1, <1>10, <1>11 DEF Turn

LEMMA ClientTurns ==
  ASSUME FlowConstants, FlowTypes, Client
  PROVE  \E t, g, new : Turn(t, g, new)
<1>1. PICK t \in Frame : t = Top /\ calls # <<>> /\ t.at = "loop"
  BY TopIsThere DEF Client, Running
<1>2. /\ t.el \in Elements /\ t.todo \in Seq(Bound) /\ Quiet /\ clients' = clients
  BY <1>1 DEF Frame, Client, Quiet
<1>3. CASE t.todo = <<>>
  <2>1. PICK g : g = [t EXCEPT !.at = IF t.what = "ready" THEN "again" ELSE "observe"]
    OBVIOUS
  <2>2. g \in Frame /\ g.what = t.what /\ g.el = t.el
    BY <1>1, <2>1 DEF Frame
  <2>3. /\ life' = [life EXCEPT ![t.el] = "ready"]
        /\ calls' = At(IF t.what = "ready" THEN "again" ELSE "observe")
    BY <1>1, <1>3 DEF Client
  <2>4. Goes(g, {})
    BY <1>1, <2>1, <2>2, <2>3, TopAt, TopMoves
  <2>5. QED
    BY <1>1, <1>2, <1>3, <2>1, <2>3, <2>4 DEF Turn, ClientStep
<1>4. CASE t.todo # <<>>
  <2>1. PICK c \in Bound : /\ c = Head(t.todo) /\ c \in Listed(t.todo)
                           /\ Tail(t.todo) \in Seq(Bound)
                           /\ Listed(t.todo) = Listed(Tail(t.todo)) \cup {c}
    BY <1>2, <1>4, ListedFirst
  <2>2. PICK g : g = [t EXCEPT !.todo = Tail(t.todo)]
    OBVIOUS
  <2>3. /\ g \in Frame /\ g.what = t.what /\ g.el = t.el /\ g.at = t.at /\ g.notify = t.notify
        /\ g.todo = Tail(t.todo)
    BY <1>1, <2>1, <2>2 DEF Frame
  <2>4. [calls EXCEPT ![Len(calls)].todo = Tail(@)] = [calls EXCEPT ![Len(calls)] = g]
    BY <1>1, <2>2, TopIsThere DEF Top
  <2>5. c \in Elements /\ pending[c] \in BOOLEAN
    BY DEF Elements, FlowTypes
  <2>6. IF life[c] = "built"
        THEN life' = [life EXCEPT ![c] = "enabled"]
             /\ calls' = Append([calls EXCEPT ![Len(calls)] = g], Enable(c))
        ELSE life' = life /\ calls' = FlushIf([calls EXCEPT ![Len(calls)] = g], pending[c], c)
    BY <1>1, <1>4, <2>1, <2>4 DEF Client
  <2>7. CASE life[c] = "built"
    <3>1. Enable(c) \in Frame
      BY <2>5 DEF Enable, Frame
    <3>2. Goes(g, {Enable(c)})
      BY <1>1, <2>3, <2>6, <2>7, <3>1, TopCalls
    <3>3. ClientStep(t, g, {Enable(c)})
      BY <1>1, <1>2, <1>4, <2>1, <2>3, <2>6, <2>7 DEF ClientStep
    <3>4. QED
      BY <1>1, <3>2, <3>3 DEF Turn
  <2>8. CASE life[c] # "built"
    <3>1. Goes(g, Pending(c))
      BY <1>1, <2>3, <2>5, <2>6, <2>8, FlushGoes DEF Pending
    <3>2. ClientStep(t, g, Pending(c))
      BY <1>1, <1>2, <1>4, <2>1, <2>3, <2>6, <2>8 DEF ClientStep
    <3>3. QED
      BY <1>1, <3>1, <3>2 DEF Turn
  <2>9. QED
    BY <2>7, <2>8
<1>5. QED
  BY <1>3, <1>4

LEMMA ObserveTurns ==
  ASSUME FlowConstants, FlowTypes, Observe
  PROVE  \E t, g, new : Turn(t, g, new)
<1>1. PICK t \in Frame : t = Top /\ calls # <<>> /\ t.what = "flush" /\ t.at = "observe"
  BY TopIsThere DEF Observe, Running
<1>2. t.el \in Elements
  BY <1>1 DEF Frame
<1>3. PICK g : g = [t EXCEPT !.at = "notify"]
  OBVIOUS
<1>4. /\ g \in Frame /\ g.what = t.what /\ g.el = t.el
      /\ At("notify") = [calls EXCEPT ![Len(calls)] = g]
  BY <1>1, <1>3, TopAt DEF Frame
<1>5. told' = [told EXCEPT ![t.el] = data[t.el]] /\ UNCHANGED <<life, computed, clients>>
  BY <1>1 DEF Observe
<1>6. CASE calls' = At("notify") /\ UNCHANGED <<data, pending, notify, sets>>
  <2>1. Goes(g, {})
    BY <1>1, <1>4, <1>6, TopMoves
  <2>2. QED
    BY <1>1, <1>3, <1>5, <1>6, <2>1 DEF Turn, ObserveStep
<1>7. ASSUME NEW value \in Values, SetProperty(At("notify"), Top.el, value)
      PROVE  \E new : Turn(t, g, new)
  <2>1. PICK condition \in BOOLEAN : condition = (data[t.el] # value /\ life[t.el] = "ready")
    OBVIOUS
  <2>2. /\ SetPending(t.el, value) /\ sets < MaxSets /\ sets' = sets + 1
        /\ calls' = FlushIf([calls EXCEPT ![Len(calls)] = g], condition, t.el)
    BY <1>1, <1>4, <1>7, <2>1 DEF SetProperty
  <2>3. PICK new : new = IF condition THEN {Flush(t.el)} ELSE {}
    OBVIOUS
  <2>4. Goes(g, new)
    BY <1>1, <1>2, <1>4, <2>2, <2>3, FlushGoes
  <2>5. Set(new, t.el, value)
    BY <2>1, <2>2, <2>3 DEF Set
  <2>6. ObserveStep(t, g, new)
    BY <1>1, <1>3, <1>5, <2>2, <2>5 DEF ObserveStep
  <2>7. QED
    BY <1>1, <2>4, <2>6 DEF Turn
<1>8. QED
  BY <1>6, <1>7 DEF Observe

LEMMA NotifyTurns ==
  ASSUME FlowConstants, FlowTypes, Notify \/ Silent
  PROVE  \E t, g, new : Turn(t, g, new)
<1>1. PICK t \in Frame : t = Top /\ calls # <<>> /\ t.what = "flush" /\ t.at = "notify"
  BY TopIsThere DEF Notify, Silent, Running
<1>2. PICK g : g = [t EXCEPT !.at = "end"]
  OBVIOUS
<1>3. /\ g \in Frame /\ g.what = t.what /\ g.el = t.el
      /\ At("end") = [calls EXCEPT ![Len(calls)] = g]
  BY <1>1, <1>2, TopAt DEF Frame
<1>4. CASE Silent
  <2>1. /\ calls' = At("end") /\ t.notify # "yes"
        /\ UNCHANGED <<life, data, computed, pending, notify, clients, told, sets>>
    BY <1>1, <1>4 DEF Silent
  <2>2. Goes(g, {})
    BY <1>1, <1>3, <2>1, TopMoves
  <2>3. QED
    BY <1>1, <1>2, <2>1, <2>2 DEF Turn, NotifyStep
<1>5. CASE Notify
  <2>1. PICK condition \in BOOLEAN :
           condition = (life[Host] = "ready" /\ (pending[Host] \/ data[Host] # data[t.el]))
    OBVIOUS
  <2>2. /\ t.notify = "yes" /\ SetPending(Host, data[t.el])
        /\ calls' = FlushIf([calls EXCEPT ![Len(calls)] = g], condition, Host)
        /\ UNCHANGED <<life, computed, clients, told, sets>>
    BY <1>1, <1>3, <1>5, <2>1 DEF Notify
  <2>3. PICK new : new = IF condition THEN {Flush(Host)} ELSE {}
    OBVIOUS
  <2>4. Goes(g, new)
    BY <1>1, <1>3, <2>2, <2>3, FlushGoes DEF Elements
  <2>5. NotifyStep(t, g, new)
    BY <1>1, <1>2, <2>1, <2>2, <2>3 DEF NotifyStep
  <2>6. QED
    BY <1>1, <2>4, <2>5 DEF Turn
<1>6. QED
  BY <1>4, <1>5
-----------------------------------------------------------------------------
(* The other actions: a call returns, or the first one is made.             *)
Returns(t) ==
    /\ t \in Frame /\ t = Top /\ t.at = "end" /\ calls # <<>>
    /\ calls' \in Seq(Frame)
    /\ \A i \in DOMAIN calls : i # Len(calls) => i \in DOMAIN calls' /\ calls'[i] = calls[i]
    /\ \A i \in DOMAIN calls' : i \in DOMAIN calls /\ i # Len(calls) /\ calls'[i] = calls[i]
    /\ UNCHANGED <<life, data, computed, pending, notify, clients, told, sets>>

LEMMA DoneReturns ==
  ASSUME FlowTypes, Done
  PROVE  \E t : Returns(t)
<1>1. PICK t \in Frame : t = Top /\ t.at = "end" /\ calls # <<>>
  BY TopIsThere DEF Done, Running
<1>2. /\ calls \in Seq(Frame) /\ Len(calls) \in Nat \ {0} /\ DOMAIN calls = 1 .. Len(calls)
  BY <1>1, TopIsThere DEF FlowTypes
<1>3. PICK n : n \in Nat /\ n = Len(calls) - 1 /\ Len(calls) = n + 1
  <2>1. Len(calls) - 1 \in Nat /\ Len(calls) = (Len(calls) - 1) + 1
    BY <1>2
  <2>2. QED
    BY <2>1
<1>4. calls' = SubSeq(calls, 1, n)
  BY <1>3 DEF Done, Return
<1>5. /\ calls' \in Seq(Frame) /\ DOMAIN calls' = 1 .. n
      /\ \A i \in 1 .. n : calls'[i] = calls[i]
  BY <1>2, <1>3, <1>4
<1>6. \A i \in DOMAIN calls : i # Len(calls) => i \in DOMAIN calls' /\ calls'[i] = calls[i]
  BY <1>2, <1>3, <1>5
<1>7. \A i \in DOMAIN calls' : i \in DOMAIN calls /\ i # Len(calls) /\ calls'[i] = calls[i]
  BY <1>2, <1>3, <1>5
<1>8. QED
  BY <1>1, <1>5, <1>6, <1>7 DEF Done, Returns

(* At most one call is made.                                                *)
Starts(new) ==
    /\ calls = <<>> /\ calls' \in Seq(Frame)
    /\ \/ new = {} /\ calls' = <<>>
       \/ \E f \in Frame : new = {f} /\ calls' = <<f>> /\ Len(calls') = 1 /\ DOMAIN calls' = {1} /\ calls'[1] = f

LEMMA OneCall ==
  ASSUME NEW f \in Frame, calls = <<>>, calls' = <<f>>
  PROVE  Starts({f})
<1>1. <<f>> \in Seq(Frame) /\ Len(<<f>>) = 1 /\ DOMAIN <<f>> = {1} /\ <<f>>[1] = f
  OBVIOUS
<1>2. QED
  BY <1>1 DEF Starts

LEMMA StartsOne ==
  ASSUME NEW new, Starts(new)
  PROVE  \A i \in DOMAIN calls' : calls'[i] \in new
<1>1. new = {} => DOMAIN calls' = {}
  BY DEF Starts
<1>2. new # {} => DOMAIN calls' = {1} /\ calls'[1] \in new
  BY DEF Starts
<1>3. QED
  BY <1>1, <1>2

PageStep(e, value, new) ==
    /\ Starts(new) /\ life[e] # "plain" /\ Set(new, e, value) /\ sets < MaxSets /\ sets' = sets + 1
    /\ UNCHANGED <<life, computed, clients, told>>

LEMMA PageStarts ==
  ASSUME NEW e \in Elements, NEW value \in Values, PageSets(e, value)
  PROVE  \E new : PageStep(e, value, new)
<1>1. /\ calls = <<>> /\ life[e] # "plain" /\ SetPending(e, value) /\ sets < MaxSets /\ sets' = sets + 1
      /\ calls' = FlushIf(<<>>, data[e] # value /\ life[e] = "ready", e)
      /\ UNCHANGED <<life, computed, clients, told>>
  BY DEF PageSets, SetProperty
<1>2. CASE data[e] # value /\ life[e] = "ready"
  <2>1. Flush(e) \in Frame
    BY DEF Flush, Frame
  <2>2. calls' = <<Flush(e)>>
    BY <1>1, <1>2 DEF FlushIf
  <2>3. Starts({Flush(e)})
    BY <1>1, <2>1, <2>2, OneCall
  <2>4. QED
    BY <1>1, <1>2, <2>3 DEF PageStep, Set
<1>3. CASE ~(data[e] # value /\ life[e] = "ready")
  <2>1. Starts({})
    BY <1>1, <1>3 DEF Starts, FlushIf
  <2>2. QED
    BY <1>1, <1>3, <2>1 DEF PageStep, Set
<1>4. QED
  BY <1>2, <1>3

UpgradeStep(e, default) ==
    /\ Starts({Enable(e)}) /\ life[e] = "plain"
    /\ life' = [life EXCEPT ![e] = "enabled"]
    /\ data' = [data EXCEPT ![e] = IF data[e] = Undefined THEN default ELSE data[e]]
    /\ pending' = [pending EXCEPT ![e] = data'[e] # Undefined]
    /\ notify' = IF default # Undefined /\ e \in TwoWay
                 THEN [notify EXCEPT ![e] = "yes"] ELSE notify
    /\ UNCHANGED <<computed, clients, told, sets>>

LEMMA UpgradeStarts ==
  ASSUME NEW e \in Elements, NEW default, Upgrade(e, default)
  PROVE  UpgradeStep(e, default)
<1>1. Enable(e) \in Frame
  BY DEF Enable, Frame
<1>2. Starts({Enable(e)})
  BY <1>1, OneCall DEF Upgrade
<1>3. QED
  BY <1>2 DEF Upgrade, UpgradeStep

(* What a step is.                                                          *)
LEMMA Steps ==
  ASSUME FlowConstants, FlowTypes, FlowNext
  PROVE  \/ \E t, g, new : Turn(t, g, new)
         \/ \E t : Returns(t)
         \/ \E e \in Elements, value \in Values : \E new : PageStep(e, value, new)
         \/ \E e \in Late, default \in Values \cup {Undefined} : UpgradeStep(e, default)
<1>1. Late \subseteq Elements
  BY DEF FlowConstants, Elements
<1>2. CASE Ready /\ UNCHANGED <<data, computed, pending, notify, told, sets>>
  BY <1>2, ReadyTurns DEF Quiet
<1>3. CASE Begin \/ Client \/ Observe \/ Notify \/ Silent
  BY <1>3, BeginTurns, ClientTurns, ObserveTurns, NotifyTurns
<1>4. CASE Done
  BY <1>4, DoneReturns
<1>5. QED
  BY <1>1, <1>2, <1>3, <1>4, PageStarts, UpgradeStarts DEF FlowNext

-----------------------------------------------------------------------------
(* Types.                                                                   *)
LEMMA SetTypes ==
  ASSUME FlowTypes, NEW e \in Elements, NEW value \in Values \cup {Undefined}, SetPending(e, value)
  PROVE  /\ data' \in [Elements -> Values \cup {Undefined}]
         /\ pending' \in [Elements -> BOOLEAN]
         /\ notify' \in [Elements -> {"none", "yes", "no"}]
BY DEF FlowTypes, SetPending

LEMMA TurnTypes ==
  ASSUME FlowConstants, FlowTypes, NEW t, NEW g, NEW new, Turn(t, g, new)
  PROVE  FlowTypes'
<1>1. /\ t \in Frame /\ t.el \in Elements /\ calls' \in Seq(Frame) /\ <<>> \in Seq(Bound)
      /\ Bound \subseteq Elements /\ Host \in Elements /\ sets \in Nat /\ MaxSets \in Nat
  BY DEF Turn, Goes, Frame, Elements, FlowConstants, FlowTypes
<1>2. CASE ReadyStep(t, g, new)
  BY <1>1, <1>2 DEF ReadyStep, Quiet, FlowTypes, Life
<1>3. CASE BeginStep(t, g, new)
  <2>1. life' \in [Elements -> Life] /\ clients' \in Seq(Bound) /\ sets' \in 0 .. MaxSets
    BY <1>1, <1>3 DEF BeginStep, FlowTypes, Life
  <2>2. /\ data' \in [Elements -> Values \cup {Undefined}]
        /\ computed' \in [Elements -> Values \cup {Undefined}]
        /\ told' \in [Elements -> Values \cup {Undefined}]
    BY <1>1, <1>3 DEF BeginStep, FlowTypes
  <2>3. pending' \in [Elements -> BOOLEAN]
    BY <1>1, <1>3 DEF BeginStep, FlowTypes
  <2>4. notify' \in [Elements -> {"none", "yes", "no"}]
    BY <1>1, <1>3 DEF BeginStep, FlowTypes
  <2>5. QED
    BY <1>1, <2>1, <2>2, <2>3, <2>4 DEF FlowTypes
<1>4. CASE ClientStep(t, g, new)
  BY <1>1, <1>4 DEF ClientStep, Quiet, FlowTypes, Life
<1>5. CASE ObserveStep(t, g, new)
  <2>1. /\ told' \in [Elements -> Values \cup {Undefined}] /\ sets' \in 0 .. MaxSets
        /\ UNCHANGED <<life, computed, clients>>
    BY <1>1, <1>5 DEF ObserveStep, FlowTypes
  <2>2. /\ data' \in [Elements -> Values \cup {Undefined}]
        /\ pending' \in [Elements -> BOOLEAN]
        /\ notify' \in [Elements -> {"none", "yes", "no"}]
    BY <1>1, <1>5, SetTypes DEF ObserveStep, Set, FlowTypes
  <2>3. QED
    BY <1>1, <2>1, <2>2 DEF FlowTypes
<1>6. CASE NotifyStep(t, g, new)
  <2>1. data[t.el] \in Values \cup {Undefined}
    BY <1>1 DEF FlowTypes
  <2>2. /\ data' \in [Elements -> Values \cup {Undefined}]
        /\ pending' \in [Elements -> BOOLEAN]
        /\ notify' \in [Elements -> {"none", "yes", "no"}]
    BY <1>1, <1>6, <2>1, SetTypes DEF NotifyStep, FlowTypes
  <2>3. QED
    BY <1>1, <1>6, <2>2 DEF FlowTypes, NotifyStep
<1>7. QED
  BY <1>2, <1>3, <1>4, <1>5, <1>6 DEF Turn

LEMMA OtherTypes ==
  ASSUME FlowConstants, FlowTypes,
         \/ \E t : Returns(t)
         \/ \E e \in Elements, value \in Values : \E new : PageStep(e, value, new)
         \/ \E e \in Late, default \in Values \cup {Undefined} : UpgradeStep(e, default)
  PROVE  FlowTypes'
<1>1. sets \in Nat /\ MaxSets \in Nat /\ Late \subseteq Elements
  BY DEF FlowConstants, FlowTypes, Elements
<1>2. CASE \E t : Returns(t)
  BY <1>2 DEF Returns, FlowTypes
<1>3. ASSUME NEW e \in Elements, NEW value \in Values, NEW new, PageStep(e, value, new)
      PROVE  FlowTypes'
  BY <1>1, <1>3, SetTypes DEF PageStep, Set, Starts, FlowTypes
<1>4. ASSUME NEW e \in Late, NEW default \in Values \cup {Undefined}, UpgradeStep(e, default)
      PROVE  FlowTypes'
  BY <1>1, <1>4 DEF UpgradeStep, Starts, FlowTypes, Life
<1>5. QED
  BY <1>2, <1>3, <1>4

LEMMA TypesStart == ASSUME FlowConstants, FlowInit PROVE FlowTypes
<1>1. clients \in Seq(Bound)
  <2>1. clients \in Seq(Bound \ Late)
    BY InOrderLists DEF FlowInit
  <2>2. QED
    BY <2>1
<1>2. calls \in Seq(Frame)
  <2>1. Enable(Host) \in Frame
    BY DEF Enable, Frame, Elements
  <2>2. QED
    BY <2>1 DEF FlowInit
<1>3. QED
  BY <1>1, <1>2 DEF FlowInit, FlowTypes, Life, FlowConstants
-----------------------------------------------------------------------------
(* What the stack holds.  A call of what of e is at one of some places, and  *)
(* an element is still to be readied or flushed by its host.                *)
Has(what, e, places) ==
    \E i \in DOMAIN calls :
        calls[i].what = what /\ calls[i].el = e /\ calls[i].at \in places

InTodo(c) == \E i \in DOMAIN calls : calls[i].at = "loop" /\ c \in Listed(calls[i].todo)

Awaits(c) == c \in Listed(clients) \/ InTodo(c)

LEMMA HasKept ==
  ASSUME FlowTypes, NEW g, NEW new, Goes(g, new), NEW what, NEW e, NEW places
  PROVE  /\ Has(what, e, places) =>
               \/ Has(what, e, places)'
               \/ Top.what = what /\ Top.el = e /\ Top.at \in places /\ g.at \notin places
         /\ g.what = what /\ g.el = e /\ g.at \in places => Has(what, e, places)'
         /\ \A f \in new : f.what = what /\ f.el = e /\ f.at \in places => Has(what, e, places)'
<1>1. /\ Len(calls) \in DOMAIN calls /\ Top = calls[Len(calls)]
  BY TopIsThere DEF Goes
<1>2. /\ \A i \in DOMAIN calls : i \in DOMAIN calls' /\ (i # Len(calls) => calls'[i] = calls[i])
      /\ calls'[Len(calls)] = g /\ g.what = Top.what /\ g.el = Top.el
      /\ \A f \in new : Len(calls') \in DOMAIN calls' /\ calls'[Len(calls')] = f
  BY <1>1 DEF Goes
<1>3. g.what = what /\ g.el = e /\ g.at \in places => Has(what, e, places)'
  BY <1>1, <1>2 DEF Has
<1>4. \A f \in new : f.what = what /\ f.el = e /\ f.at \in places => Has(what, e, places)'
  BY <1>2 DEF Has
<1>5. ASSUME NEW i \in DOMAIN calls, calls[i].what = what, calls[i].el = e, calls[i].at \in places
      PROVE  \/ Has(what, e, places)'
             \/ Top.what = what /\ Top.el = e /\ Top.at \in places /\ g.at \notin places
  <2>1. CASE i # Len(calls)
    BY <1>2, <1>5, <2>1 DEF Has
  <2>2. CASE i = Len(calls)
    BY <1>1, <1>2, <1>3, <1>5, <2>2
  <2>3. QED
    BY <2>1, <2>2
<1>6. QED
  BY <1>3, <1>4, <1>5 DEF Has

LEMMA TodoKept ==
  ASSUME FlowTypes, NEW g, NEW new, Goes(g, new), NEW c
  PROVE  /\ InTodo(c) => InTodo(c)' \/ (Top.at = "loop" /\ c \in Listed(Top.todo))
         /\ g.at = "loop" /\ c \in Listed(g.todo) => InTodo(c)'
<1>1. /\ Len(calls) \in DOMAIN calls /\ Top = calls[Len(calls)]
  BY TopIsThere DEF Goes
<1>2. /\ \A i \in DOMAIN calls : i \in DOMAIN calls' /\ (i # Len(calls) => calls'[i] = calls[i])
      /\ calls'[Len(calls)] = g
  BY <1>1 DEF Goes
<1>3. g.at = "loop" /\ c \in Listed(g.todo) => InTodo(c)'
  BY <1>1, <1>2 DEF InTodo, Listed
<1>4. ASSUME NEW i \in DOMAIN calls, calls[i].at = "loop", c \in Listed(calls[i].todo)
      PROVE  InTodo(c)' \/ (Top.at = "loop" /\ c \in Listed(Top.todo))
  <2>1. CASE i # Len(calls)
    BY <1>2, <1>4, <2>1 DEF InTodo, Listed
  <2>2. CASE i = Len(calls)
    BY <1>1, <1>4, <2>2
  <2>3. QED
    BY <2>1, <2>2
<1>5. QED
  BY <1>3, <1>4 DEF InTodo

LEMMA HasReturned ==
  ASSUME FlowTypes, NEW t, Returns(t), NEW what, NEW e, NEW places, NEW c
  PROVE  /\ Has(what, e, places) /\ "end" \notin places => Has(what, e, places)'
         /\ InTodo(c) => InTodo(c)'
<1>1. /\ Len(calls) \in DOMAIN calls /\ Top = calls[Len(calls)] /\ Top.at = "end"
      /\ \A i \in DOMAIN calls : i # Len(calls) => i \in DOMAIN calls' /\ calls'[i] = calls[i]
  BY TopIsThere DEF Returns
<1>2. QED
  BY <1>1 DEF Has, InTodo, Listed

-----------------------------------------------------------------------------
(* Calls are made to elements that are enabled, by the host to those of its *)
(* template; an element is readied before anything else is called on it,    *)
(* and flushed without a break, the host aside.                             *)
Callable ==
    /\ life[Host] \notin {"plain", "built"}
    /\ \A i \in DOMAIN calls : life[calls[i].el] \notin {"plain", "built"}

Defined ==
    /\ \A c \in Listed(clients) : life[c] # "plain"
    /\ \A i \in DOMAIN calls : calls[i].at = "loop" =>
          \A c \in Listed(calls[i].todo) : life[c] # "plain" /\ calls[i].el = Host

ReadyFirst ==
    \A i, j \in DOMAIN calls : i < j /\ calls[j].what = "ready" => calls[i].el # calls[j].el

Own(f) == f.what = "flush" /\ f.el # Host

OwnTurn ==
    \A i \in DOMAIN calls :
        Own(calls[i]) /\ calls[i].at \in {"begin", "loop", "observe"} => i = Len(calls)

StackInv == Callable /\ Defined /\ ReadyFirst /\ OwnTurn

LEMMA StackGoes ==
  ASSUME FlowTypes, FlowTypes', StackInv, NEW g, NEW new, Goes(g, new),
         \A e \in Elements : life[e] \notin {"plain", "built"} => life'[e] \notin {"plain", "built"},
         \A e \in Elements : life[e] # "plain" => life'[e] # "plain",
         \A f \in new : /\ life'[f.el] \notin {"plain", "built"} /\ f.at # "loop"
                        /\ f.what = "ready" => life[f.el] = "built",
         new # {} => ~(Own(g) /\ g.at \in {"begin", "loop", "observe"}),
         g.at = "loop" => \A c \in Listed(g.todo) : life'[c] # "plain" /\ g.el = Host,
         \A c \in Listed(clients') : life'[c] # "plain"
  PROVE  StackInv'
<1>1. /\ Len(calls) \in Nat /\ DOMAIN calls = 1 .. Len(calls)
      /\ Len(calls) \in DOMAIN calls /\ Top = calls[Len(calls)] /\ calls \in Seq(Frame)
  BY TopIsThere DEF Goes, FlowTypes
<1>2. /\ \A i \in DOMAIN calls : i \in DOMAIN calls' /\ (i # Len(calls) => calls'[i] = calls[i])
      /\ calls'[Len(calls)] = g /\ g.what = Top.what /\ g.el = Top.el
      /\ \A i \in DOMAIN calls' : i \in DOMAIN calls \/ (i = Len(calls') /\ new = {calls'[i]})
      /\ new = {} => Len(calls') = Len(calls)
      /\ new # {} => Len(calls') = Len(calls) + 1
  BY <1>1 DEF Goes
<1>a. \A i \in DOMAIN calls : calls[i].el \in Elements /\ calls[i].todo \in Seq(Bound)
  BY FramesTyped
<1>3. \A i \in DOMAIN calls : calls'[i].what = calls[i].what /\ calls'[i].el = calls[i].el
                              /\ calls[i].el \in Elements
  BY <1>1, <1>2, <1>a
<1>4. Callable'
  <2>1. ASSUME NEW i \in DOMAIN calls' PROVE life'[calls'[i].el] \notin {"plain", "built"}
    <3>1. CASE i \in DOMAIN calls
      BY <1>3, <3>1 DEF StackInv, Callable
    <3>2. CASE new = {calls'[i]}
      BY <3>2
    <3>3. QED
      BY <1>2, <3>1, <3>2
  <2>2. life'[Host] \notin {"plain", "built"}
    BY DEF StackInv, Callable, Elements
  <2>3. QED
    BY <2>1, <2>2 DEF Callable
<1>5. Defined'
  <2>1. ASSUME NEW i \in DOMAIN calls', calls'[i].at = "loop", NEW c \in Listed(calls'[i].todo)
        PROVE  life'[c] # "plain" /\ calls'[i].el = Host
    <3>1. CASE i \in DOMAIN calls /\ i # Len(calls)
      <4>1. calls'[i] = calls[i] /\ life[c] # "plain" /\ calls[i].el = Host
        BY <1>2, <2>1, <3>1 DEF StackInv, Defined
      <4>2. c \in Elements
        <5>1. calls[i].todo \in Seq(Bound)
          BY <1>a, <3>1
        <5>2. c \in Listed(calls[i].todo)
          BY <2>1, <4>1
        <5>3. QED
          BY <5>1, <5>2 DEF Listed, Elements
      <4>3. QED
        BY <4>1, <4>2
    <3>2. CASE i = Len(calls)
      BY <1>2, <2>1, <3>2
    <3>3. CASE new = {calls'[i]}
      BY <2>1, <3>3
    <3>4. QED
      BY <1>2, <3>1, <3>2, <3>3
  <2>2. QED
    BY <2>1 DEF Defined, Listed
<1>6. ReadyFirst'
  <2>1. ASSUME NEW i \in DOMAIN calls', NEW j \in DOMAIN calls', i < j, calls'[j].what = "ready"
        PROVE  calls'[i].el # calls'[j].el
    <3>1. CASE i \in DOMAIN calls /\ j \in DOMAIN calls
      BY <1>3, <2>1, <3>1 DEF StackInv, ReadyFirst
    <3>2. CASE i \in DOMAIN calls /\ new = {calls'[j]}
      BY <1>3, <2>1, <3>2 DEF StackInv, Callable
    <3>3. i \in DOMAIN calls
      <4>1. CASE i = Len(calls')
        <5>1. DOMAIN calls' = 1 .. Len(calls') /\ Len(calls') \in Nat
          BY DEF FlowTypes
        <5>2. QED
          BY <2>1, <4>1, <5>1
      <4>2. QED
        BY <1>2, <4>1
    <3>4. QED
      BY <1>2, <3>1, <3>2, <3>3
  <2>2. QED
    BY <2>1 DEF ReadyFirst
<1>7. OwnTurn'
  <2>1. ASSUME NEW i \in DOMAIN calls', Own(calls'[i]), calls'[i].at \in {"begin", "loop", "observe"}
        PROVE  i = Len(calls')
    <3>1. CASE i \in DOMAIN calls /\ i # Len(calls)
      BY <1>2, <2>1, <3>1 DEF StackInv, OwnTurn
    <3>2. CASE i = Len(calls)
      BY <1>2, <2>1, <3>2
    <3>3. QED
      BY <1>2, <3>1, <3>2
  <2>2. QED
    BY <2>1 DEF OwnTurn, Own
<1>8. QED
  BY <1>4, <1>5, <1>6, <1>7 DEF StackInv
LEMMA ListedTyped ==
  ASSUME NEW S, NEW s \in Seq(S)
  PROVE  Listed(s) \subseteq S /\ Listed(<<>>) = {} /\ (Listed(s) = {} => s = <<>>)
<1>1. \A k \in DOMAIN s : s[k] \in S
  OBVIOUS
<1>2. s # <<>> => 1 \in DOMAIN s
  OBVIOUS
<1>3. QED
  BY <1>1, <1>2 DEF Listed

LEMMA StackTurns ==
  ASSUME FlowConstants, FlowTypes, FlowTypes', StackInv, NEW t, NEW g, NEW new, Turn(t, g, new)
  PROVE  StackInv'
<1>1. /\ calls # <<>> /\ Goes(g, new) /\ t = Top /\ t \in Frame /\ g \in Frame
      /\ g.what = t.what /\ g.el = t.el
      /\ t.el \in Elements /\ Host \in Elements /\ t.todo \in Seq(Bound) /\ clients \in Seq(Bound)
      /\ Bound \subseteq Elements /\ life \in [Elements -> Life]
  BY DEF Turn, Goes, Frame, Elements, FlowTypes
<1>2. /\ life[t.el] \notin {"plain", "built"}
      /\ \A c \in Listed(clients) : life[c] # "plain" /\ c \in Elements
      /\ t.at = "loop" => \A c \in Listed(t.todo) : life[c] # "plain" /\ t.el = Host
      /\ Listed(<<>>) = {} /\ Listed(t.todo) \subseteq Bound
  BY <1>1, TopIsThere, ListedTyped DEF StackInv, Callable, Defined
<1>3. \A e \in Elements : /\ Flush(e).el = e /\ Flush(e).at = "begin" /\ Flush(e).what = "flush"
                          /\ Enable(e).el = e /\ Enable(e).at = "flush"
  BY DEF Flush, Enable
<1>4. CASE ReadyStep(t, g, new)
  <2>1. /\ ~Own(g) /\ clients' \in {<<>>, clients}
        /\ \A f \in new : f = Flush(t.el)
    BY <1>1, <1>4 DEF ReadyStep, Own, Pending
  <2>2. \A e \in Elements : life'[e] = life[e] \/ (life[e] = "enabled" /\ life'[e] = "clients")
    BY <1>1, <1>4 DEF ReadyStep
  <2>3. g.at = "loop" => \A c \in Listed(g.todo) : c \in Listed(clients) /\ g.el = Host
    BY <1>1, <1>2, <1>4 DEF ReadyStep, Frame
  <2>4. QED
    BY <1>1, <1>2, <1>3, <2>1, <2>2, <2>3, StackGoes
<1>5. CASE BeginStep(t, g, new)
  <2>1. /\ new = {} /\ clients' \in {<<>>, clients}
    BY <1>1, <1>5 DEF BeginStep
  <2>2. \A e \in Elements : life'[e] = life[e] \/ (life[e] = "enabled" /\ life'[e] = "clients")
    BY <1>1, <1>5 DEF BeginStep
  <2>3. \A c \in Listed(g.todo) : /\ c \in Listed(clients) \/ c \in Built(t.el)
                                  /\ g.el = Host
    BY <1>1, <1>2, <1>5 DEF BeginStep
  <2>4. \A c \in Built(t.el) : life[c] # "plain" /\ c \in Elements
    BY <1>1 DEF Built, Propagated
  <2>5. QED
    BY <1>1, <1>2, <2>1, <2>2, <2>3, <2>4, StackGoes
<1>6. CASE ClientStep(t, g, new)
  <2>1. CASE t.todo = <<>>
    <3>1. /\ new = {} /\ clients' = clients /\ g.at # "loop"
          /\ \A e \in Elements : life'[e] = life[e] \/ (e = t.el /\ life'[e] = "ready")
      BY <1>1, <1>6, <2>1 DEF ClientStep, Frame
    <3>2. QED
      BY <1>1, <1>2, <3>1, StackGoes
  <2>2. CASE t.todo # <<>>
    <3>1. PICK c \in Bound :
            /\ t.at = "loop" /\ clients' = clients
            /\ c \in Listed(t.todo) /\ Listed(g.todo) \subseteq Listed(t.todo)
            /\ IF life[c] = "built"
               THEN new = {Enable(c)} /\ life' = [life EXCEPT ![c] = "enabled"]
               ELSE new = Pending(c) /\ life' = life
      BY <1>6, <2>2 DEF ClientStep
    <3>2. life[c] # "plain" /\ t.el = Host /\ c \in Elements /\ ~Own(g)
      BY <1>1, <1>2, <3>1 DEF Own
    <3>3. \A f \in new : /\ f.el = c /\ f.at # "loop" /\ life'[c] \notin {"plain", "built"}
                         /\ f.what = "ready" => life[c] = "built"
      BY <1>1, <1>3, <3>1, <3>2 DEF Pending
    <3>4. \A e \in Elements : life'[e] = life[e] \/ (e = c /\ life[c] = "built" /\ life'[c] = "enabled")
      BY <1>1, <3>1, <3>2
    <3>5. QED
      BY <1>1, <1>2, <3>1, <3>2, <3>3, <3>4, StackGoes
  <2>3. QED
    BY <2>1, <2>2
<1>7. CASE ObserveStep(t, g, new)
  <2>1. /\ \A f \in new : f = Flush(t.el)
        /\ g.at = "notify" /\ life' = life /\ clients' = clients
    BY <1>1, <1>7 DEF ObserveStep, Set, Frame
  <2>2. QED
    BY <1>1, <1>2, <1>3, <2>1, StackGoes
<1>8. CASE NotifyStep(t, g, new)
  <2>1. /\ \A f \in new : f = Flush(Host) /\ life[Host] = "ready"
        /\ g.at = "end" /\ life' = life /\ clients' = clients
    BY <1>1, <1>8 DEF NotifyStep, Frame
  <2>2. QED
    BY <1>1, <1>2, <1>3, <2>1, StackGoes
<1>9. QED
  BY <1>4, <1>5, <1>6, <1>7, <1>8 DEF Turn

LEMMA StackOthers ==
  ASSUME FlowConstants, FlowTypes, FlowTypes', StackInv,
         \/ \E t : Returns(t)
         \/ \E e \in Elements, value \in Values : \E new : PageStep(e, value, new)
         \/ \E e \in Late, default \in Values \cup {Undefined} : UpgradeStep(e, default)
  PROVE  StackInv'
<1>1. clients \in Seq(Bound) /\ Listed(clients) \subseteq Elements
  BY ListedTyped DEF FlowTypes, Elements
<1>2. ASSUME NEW t, Returns(t) PROVE StackInv'
  <2>1. /\ Len(calls) \in DOMAIN calls
        /\ \A i \in DOMAIN calls' : i \in DOMAIN calls /\ i # Len(calls) /\ calls'[i] = calls[i]
        /\ life' = life /\ clients' = clients
    BY <1>2, TopIsThere DEF Returns
  <2>2. Callable' /\ ReadyFirst'
    BY <2>1 DEF StackInv, Callable, ReadyFirst
  <2>3. Defined'
    <3>1. \A c \in Listed(clients)' : life'[c] # "plain"
      BY <2>1 DEF StackInv, Defined, Listed
    <3>2. ASSUME NEW i \in DOMAIN calls', calls'[i].at = "loop", NEW c \in Listed(calls'[i].todo)
          PROVE  life'[c] # "plain" /\ calls'[i].el = Host
      BY <2>1, <3>2 DEF StackInv, Defined
    <3>3. QED
      BY <3>1, <3>2 DEF Defined, Listed
  <2>4. OwnTurn'
    BY <2>1 DEF StackInv, OwnTurn, Own
  <2>5. QED
    BY <2>2, <2>3, <2>4 DEF StackInv
<1>3. ASSUME NEW e \in Elements, NEW value \in Values, NEW new, PageStep(e, value, new)
      PROVE  StackInv'
  <2>1. /\ life' = life /\ clients' = clients
        /\ new = {} \/ (new = {Flush(e)} /\ life[e] = "ready")
    BY <1>3 DEF PageStep, Set
  <2>2. Flush(e).el = e /\ Flush(e).at = "begin" /\ Flush(e).what = "flush"
    BY DEF Flush
  <2>3. calls' = <<>> \/ (DOMAIN calls' = {1} /\ Len(calls') = 1 /\ calls'[1] = Flush(e) /\ life[e] = "ready")
    BY <1>3, <2>1 DEF PageStep, Starts
  <2>4. \A i \in DOMAIN calls' : i = 1 /\ Len(calls') = 1 /\ calls'[i] = Flush(e) /\ life[e] = "ready"
    BY <2>3
  <2>5. \A c \in Listed(clients)' : c \in Listed(clients)
    BY <2>1 DEF Listed
  <2>6. QED
    BY <2>1, <2>2, <2>4, <2>5 DEF StackInv, Callable, Defined, ReadyFirst, OwnTurn
<1>4. ASSUME NEW e \in Late, NEW default \in Values \cup {Undefined}, UpgradeStep(e, default)
      PROVE  StackInv'
  <2>1. /\ e \in Elements /\ life \in [Elements -> Life]
        /\ life' = [life EXCEPT ![e] = "enabled"] /\ clients' = clients
    BY <1>4 DEF UpgradeStep, FlowConstants, Elements, FlowTypes
  <2>2. Enable(e).el = e /\ Enable(e).at = "flush" /\ Enable(e).what = "ready"
    BY DEF Enable
  <2>3. \A i \in DOMAIN calls' : i = 1 /\ Len(calls') = 1 /\ calls'[i] = Enable(e)
    BY <1>4 DEF UpgradeStep, Starts
  <2>4. \A c \in Listed(clients)' : c \in Listed(clients)
    BY <2>1 DEF Listed
  <2>5. /\ life'[e] = "enabled" /\ \A c \in Elements : life[c] # "plain" => life'[c] # "plain"
        /\ life'[Host] \in {life[Host], "enabled"}
    BY <2>1 DEF Elements
  <2>6. QED
    BY <1>1, <2>2, <2>3, <2>4, <2>5 DEF StackInv, Callable, Defined, ReadyFirst, OwnTurn
<1>5. QED
  BY <1>2, <1>3, <1>4

LEMMA StackStarts == ASSUME FlowConstants, FlowInit PROVE StackInv
<1>1. /\ calls = <<Enable(Host)>> /\ Enable(Host).el = Host /\ Enable(Host).at = "flush"
      /\ Enable(Host).what = "ready"
  BY DEF FlowInit, Enable
<1>2. \A i \in DOMAIN calls : i = 1 /\ calls[i] = Enable(Host)
  BY <1>1
<1>3. Listed(clients) = Bound \ Late
  BY InOrderLists DEF FlowInit
<1>4. /\ life[Host] = "enabled" /\ \A c \in Bound \ Late : life[c] # "plain"
  BY DEF FlowInit, FlowConstants, Elements
<1>5. Callable /\ Defined
  BY <1>1, <1>2, <1>3, <1>4 DEF Callable, Defined
<1>6. ReadyFirst /\ OwnTurn
  BY <1>1, <1>2 DEF ReadyFirst, OwnTurn, Own
<1>7. QED
  BY <1>5, <1>6 DEF StackInv
-----------------------------------------------------------------------------
(* Who is not ready is on the way: it waits for its host, or is readied, and *)
(* the host's list is empty once it began with it.                          *)
Lives(e) ==
    /\ life[e] = "built" => Awaits(e)
    /\ life[e] = "enabled" => Has("ready", e, {"flush", "clients"})
    /\ life[e] = "clients" => /\ Has("ready", e, {"loop"}) \/ Has("flush", e, {"loop"})
                              /\ Has("ready", e, {"flush", "clients", "loop"})

ClientsWait == clients # <<>> => life[Host] = "enabled"

Looping == \A i \in DOMAIN calls : calls[i].at = "loop" => life[calls[i].el] # "enabled"

LifeInv == (\A e \in Elements : Lives(e)) /\ ClientsWait /\ Looping

LEMMA PlacesKept ==
  ASSUME FlowTypes, NEW g, NEW new, Goes(g, new), NEW e
  PROVE  /\ Has("ready", e, {"flush", "clients"}) =>
               \/ Has("ready", e, {"flush", "clients"})'
               \/ /\ Top.what = "ready" /\ Top.el = e /\ Top.at \in {"flush", "clients"}
                  /\ g.at \notin {"flush", "clients"}
         /\ Has("ready", e, {"flush", "clients", "loop"}) =>
               \/ Has("ready", e, {"flush", "clients", "loop"})'
               \/ /\ Top.what = "ready" /\ Top.el = e /\ Top.at \in {"flush", "clients", "loop"}
                  /\ g.at \notin {"flush", "clients", "loop"}
         /\ Has("ready", e, {"loop"}) =>
               \/ Has("ready", e, {"loop"})'
               \/ Top.what = "ready" /\ Top.el = e /\ Top.at = "loop" /\ g.at # "loop"
         /\ Has("flush", e, {"loop"}) =>
               \/ Has("flush", e, {"loop"})'
               \/ Top.what = "flush" /\ Top.el = e /\ Top.at = "loop" /\ g.at # "loop"
<1>1. Has("ready", e, {"flush", "clients"}) =>
         \/ Has("ready", e, {"flush", "clients"})'
         \/ /\ Top.what = "ready" /\ Top.el = e /\ Top.at \in {"flush", "clients"}
            /\ g.at \notin {"flush", "clients"}
  BY HasKept
<1>2. Has("ready", e, {"flush", "clients", "loop"}) =>
         \/ Has("ready", e, {"flush", "clients", "loop"})'
         \/ /\ Top.what = "ready" /\ Top.el = e /\ Top.at \in {"flush", "clients", "loop"}
            /\ g.at \notin {"flush", "clients", "loop"}
  BY HasKept
<1>3. Has("ready", e, {"loop"}) =>
         \/ Has("ready", e, {"loop"})'
         \/ Top.what = "ready" /\ Top.el = e /\ Top.at \in {"loop"} /\ g.at \notin {"loop"}
  BY HasKept
<1>4. Has("flush", e, {"loop"}) =>
         \/ Has("flush", e, {"loop"})'
         \/ Top.what = "flush" /\ Top.el = e /\ Top.at \in {"loop"} /\ g.at \notin {"loop"}
  BY HasKept
<1>5. QED
  BY <1>1, <1>2, <1>3, <1>4

(* Who waits goes on to wait, but the one whose turn it is.                 *)
LEMMA AwaitsKept ==
  ASSUME FlowTypes, NEW t, NEW g, NEW new, Turn(t, g, new), NEW e, Awaits(e)
  PROVE  \/ Awaits(e)'
         \/ /\ ClientStep(t, g, new) /\ e \in Bound
            /\ new = IF life[e] = "built" THEN {Enable(e)} ELSE Pending(e)
<1>1. Goes(g, new) /\ t = Top /\ t \in Frame /\ Listed(<<>>) = {}
  BY DEF Turn, Listed
<1>2. /\ InTodo(e) => InTodo(e)' \/ (t.at = "loop" /\ e \in Listed(t.todo))
      /\ g.at = "loop" /\ e \in Listed(g.todo) => InTodo(e)'
  BY <1>1, TodoKept
<1>3. clients' = clients => (e \in Listed(clients) => Awaits(e)')
  BY DEF Awaits, Listed
<1>4. CASE ReadyStep(t, g, new)
  <2>1. clients' = clients \/ (g.at = "loop" /\ g.todo = clients)
    BY <1>1, <1>4 DEF ReadyStep, Frame
  <2>2. t.at = "loop" => FALSE
    BY <1>4 DEF ReadyStep
  <2>3. QED
    BY <1>2, <1>3, <2>1, <2>2 DEF Awaits
<1>5. CASE BeginStep(t, g, new)
  <2>1. /\ t.at = "begin" /\ g.at = "loop"
        /\ clients' = clients \/ \A c \in Listed(clients) : c \in Listed(g.todo)
    BY <1>5 DEF BeginStep
  <2>2. QED
    BY <1>2, <1>3, <2>1 DEF Awaits
<1>6. CASE ClientStep(t, g, new)
  <2>1. clients' = clients
    BY <1>6 DEF ClientStep
  <2>2. CASE t.todo = <<>>
    BY <1>1, <1>2, <1>3, <2>1, <2>2 DEF Awaits
  <2>3. CASE t.todo # <<>>
    <3>1. PICK c \in Bound :
            /\ t.at = "loop" /\ g.at = "loop" /\ Listed(t.todo) = Listed(g.todo) \cup {c}
            /\ new = IF life[c] = "built" THEN {Enable(c)} ELSE Pending(c)
      BY <1>6, <2>3 DEF ClientStep
    <3>2. QED
      BY <1>2, <1>3, <1>6, <2>1, <3>1 DEF Awaits
  <2>4. QED
    BY <2>2, <2>3
<1>7. CASE ObserveStep(t, g, new) \/ NotifyStep(t, g, new)
  <2>1. t.at # "loop" /\ clients' = clients
    BY <1>7 DEF ObserveStep, NotifyStep
  <2>2. QED
    BY <1>2, <1>3, <2>1 DEF Awaits
<1>8. QED
  BY <1>4, <1>5, <1>6, <1>7 DEF Turn

LEMMA LoopingGoes ==
  ASSUME FlowTypes, StackInv, Looping, NEW g, NEW new, Goes(g, new),
         \A e \in Elements : life'[e] = "enabled" => life[e] \in {"built", "enabled"},
         \A f \in new : f.at # "loop",
         g.at = "loop" => life'[g.el] # "enabled"
  PROVE  Looping'
<1>1. /\ \A i \in DOMAIN calls : i # Len(calls) => calls'[i] = calls[i]
      /\ calls'[Len(calls)] = g
      /\ \A i \in DOMAIN calls' : i \in DOMAIN calls \/ new = {calls'[i]}
      /\ \A i \in DOMAIN calls : calls[i].el \in Elements
  BY FramesTyped DEF Goes
<1>2. ASSUME NEW i \in DOMAIN calls', calls'[i].at = "loop" PROVE life'[calls'[i].el] # "enabled"
  <2>1. CASE i \in DOMAIN calls /\ i # Len(calls)
    BY <1>1, <1>2, <2>1 DEF StackInv, Callable, Looping
  <2>2. CASE i = Len(calls)
    BY <1>1, <1>2, <2>2
  <2>3. CASE new = {calls'[i]}
    BY <1>2, <2>3
  <2>4. QED
    BY <1>1, <2>1, <2>2, <2>3
<1>3. QED
  BY <1>2 DEF Looping

LEMMA Idle ==
  ASSUME FlowConstants, FlowTypes, LifeInv, calls = <<>>
  PROVE  /\ clients = <<>> /\ \A e \in Elements : life[e] \in {"plain", "ready"} /\ ~Awaits(e)
         /\ \A what, e, places : ~Has(what, e, places)
<1>1. DOMAIN calls = {}
  OBVIOUS
<1>2. \A what, e, places : ~Has(what, e, places)
  BY <1>1 DEF Has
<1>3. clients = <<>>
  BY <1>2 DEF LifeInv, ClientsWait, Lives, Elements
<1>4. \A e \in Elements : ~Awaits(e)
  BY <1>1, <1>3 DEF Awaits, InTodo, Listed
<1>5. \A e \in Elements : life[e] \in {"plain", "ready"}
  BY <1>2, <1>4 DEF LifeInv, Lives, FlowTypes, Life
<1>6. QED
  BY <1>2, <1>3, <1>4, <1>5

LEMMA LifeTurns ==
  ASSUME FlowConstants, FlowTypes, FlowTypes', StackInv, LifeInv,
         NEW t, NEW g, NEW new, Turn(t, g, new)
  PROVE  LifeInv'
<1>1. /\ calls # <<>> /\ Goes(g, new) /\ t = Top /\ t \in Frame /\ g \in Frame
      /\ g.what = t.what /\ g.el = t.el
      /\ t.el \in Elements /\ Host \in Elements /\ t.todo \in Seq(Bound) /\ clients \in Seq(Bound)
      /\ Bound \subseteq Elements /\ Host \notin Bound /\ life \in [Elements -> Life]
      /\ Listed(<<>>) = {}
  BY ListedTyped DEF Turn, Goes, Frame, Elements, FlowTypes, FlowConstants
<1>2. /\ \A e \in Elements : Lives(e)
      /\ clients # <<>> => life[Host] = "enabled"
      /\ t.at = "loop" => life[t.el] # "enabled"
  BY <1>1, TopIsThere DEF LifeInv, ClientsWait, Looping
<1>3. \A e \in Elements : /\ Flush(e).at = "begin"
                          /\ Enable(e).el = e /\ Enable(e).at = "flush" /\ Enable(e).what = "ready"
  BY DEF Flush, Enable
<1>4. CASE ReadyStep(t, g, new)
  <2>1. /\ t.what = "ready"
        /\ \/ t.at = "flush" /\ g.at = "clients" /\ life' = life /\ clients' = clients
           \/ /\ t.at = "clients" /\ g.at = "loop" /\ life[t.el] = "enabled"
              /\ life' = [life EXCEPT ![t.el] = "clients"]
              /\ clients' = IF t.el = Host THEN <<>> ELSE clients
              /\ t.el = Host => g.todo = clients
           \/ /\ t.at = "clients" /\ g.at = "again" /\ life[t.el] # "enabled"
              /\ life' = life /\ clients' = clients
           \/ t.at = "again" /\ g.at = "end" /\ life' = life /\ clients' = clients
    BY <1>1, <1>4 DEF ReadyStep, Frame
  <2>2. t.at = "clients" => life[t.el] # "clients"
    <3>1. /\ Len(calls) \in DOMAIN calls /\ calls[Len(calls)] = t
          /\ DOMAIN calls = 1 .. Len(calls) /\ Len(calls) \in Nat
      BY <1>1, TopIsThere
    <3>2. ASSUME NEW i \in DOMAIN calls, calls[i].el = t.el PROVE i = Len(calls)
      <4>1. ~(i < Len(calls))
        BY <2>1, <3>1, <3>2 DEF StackInv, ReadyFirst
      <4>2. QED
        BY <3>1, <4>1
    <3>3. t.at = "clients" => ~Has("ready", t.el, {"loop"}) /\ ~Has("flush", t.el, {"loop"})
      BY <3>1, <3>2 DEF Has
    <3>4. QED
      BY <1>1, <1>2, <3>3 DEF Lives
  <2>3. ASSUME NEW e \in Elements PROVE Lives(e)'
    <3>3. life'[e] = "built" => Awaits(e)'
      <4>1. Awaits(e) => Awaits(e)'
        BY <1>4, AwaitsKept DEF ReadyStep, ClientStep
      <4>2. QED
        BY <1>1, <1>2, <2>1, <4>1 DEF Lives
    <3>4. life'[e] = "enabled" => Has("ready", e, {"flush", "clients"})'
      BY <1>1, <1>2, <2>1, PlacesKept DEF Lives
    <3>5. life'[e] = "clients" => /\ Has("ready", e, {"loop"})' \/ Has("flush", e, {"loop"})'
                                  /\ Has("ready", e, {"flush", "clients", "loop"})'
      <4>1. CASE t.el # e
        BY <1>1, <1>2, <2>1, <4>1, PlacesKept DEF Lives
      <4>2. CASE t.el = e /\ life[e] = "enabled" /\ g.at = "loop"
        BY <1>1, <2>1, <4>2, HasKept
      <4>3. CASE t.el = e /\ life' = life
        BY <1>1, <1>2, <2>1, <2>2, <4>3, PlacesKept DEF Lives
      <4>4. QED
        BY <1>1, <2>1, <4>1, <4>2, <4>3
    <3>6. QED
      BY <3>3, <3>4, <3>5 DEF Lives
  <2>4. ClientsWait'
    BY <1>1, <1>2, <2>1 DEF ClientsWait
  <2>5. Looping'
    <3>1. /\ \A e \in Elements : life'[e] = "enabled" => life[e] = "enabled"
          /\ g.at = "loop" => life'[g.el] # "enabled"
      BY <1>1, <2>1
    <3>2. \A f \in new : f.at # "loop"
      BY <1>1, <1>3, <1>4 DEF ReadyStep, Pending
    <3>3. QED
      BY <1>1, <3>1, <3>2, LoopingGoes DEF LifeInv
  <2>6. QED
    BY <2>3, <2>4, <2>5 DEF LifeInv
<1>5. CASE BeginStep(t, g, new)
  <2>1. /\ t.what = "flush" /\ t.at = "begin" /\ g.at = "loop" /\ new = {}
        /\ clients' = IF t.el = Host THEN <<>> ELSE clients
        /\ life' = IF life[t.el] = "enabled" THEN [life EXCEPT ![t.el] = "clients"] ELSE life
        /\ t.el = Host => \A c \in Listed(clients) : c \in Listed(g.todo)
    BY <1>5 DEF BeginStep
  <2>2. ASSUME NEW e \in Elements PROVE Lives(e)'
    <3>3. life'[e] = "built" => Awaits(e)'
      <4>1. Awaits(e) => Awaits(e)'
        BY <1>5, AwaitsKept DEF BeginStep, ClientStep
      <4>2. QED
        BY <1>1, <1>2, <2>1, <4>1 DEF Lives
    <3>4. life'[e] = "enabled" => Has("ready", e, {"flush", "clients"})'
      BY <1>1, <1>2, <2>1, PlacesKept DEF Lives
    <3>5. CASE life[e] = "enabled" /\ t.el = e
      <4>1. Has("flush", e, {"loop"})'
        BY <1>1, <2>1, <3>5, HasKept
      <4>2. Has("ready", e, {"flush", "clients", "loop"})
        BY <1>2, <3>5 DEF Lives, Has
      <4>3. Has("ready", e, {"flush", "clients", "loop"})'
        BY <1>1, <2>1, <4>2, PlacesKept
      <4>4. life'[e] = "clients"
        BY <1>1, <2>1, <3>5
      <4>5. QED
        BY <4>1, <4>3, <4>4 DEF Lives
    <3>6. CASE ~(life[e] = "enabled" /\ t.el = e)
      <4>1. life'[e] = life[e]
        BY <1>1, <2>1, <3>6
      <4>2. life'[e] = "clients" => /\ Has("ready", e, {"loop"})' \/ Has("flush", e, {"loop"})'
                                    /\ Has("ready", e, {"flush", "clients", "loop"})'
        BY <1>1, <1>2, <2>1, <4>1, PlacesKept DEF Lives
      <4>3. QED
        BY <3>3, <3>4, <4>2 DEF Lives
    <3>7. QED
      BY <3>5, <3>6
  <2>3. ClientsWait'
    BY <1>1, <1>2, <2>1 DEF ClientsWait
  <2>4. Looping'
    <3>1. /\ \A e \in Elements : life'[e] = "enabled" => life[e] = "enabled"
          /\ life'[g.el] # "enabled"
      BY <1>1, <2>1
    <3>2. QED
      BY <1>1, <2>1, <3>1, LoopingGoes DEF LifeInv
  <2>5. QED
    BY <2>2, <2>3, <2>4 DEF LifeInv
<1>6. CASE ClientStep(t, g, new) /\ t.todo = <<>>
  <2>1. /\ new = {} /\ clients' = clients /\ g.at # "loop" /\ t.at = "loop"
        /\ life' = [life EXCEPT ![t.el] = "ready"]
    BY <1>1, <1>6 DEF ClientStep, Frame
  <2>2. ASSUME NEW e \in Elements PROVE Lives(e)'
    <3>1. InTodo(e) => InTodo(e)'
      BY <1>1, <1>6, <2>1, TodoKept
    <3>2. Awaits(e) => Awaits(e)'
      BY <2>1, <3>1 DEF Awaits, Listed
    <3>3. CASE e = t.el
      BY <1>1, <2>1, <3>3 DEF Lives
    <3>4. CASE e # t.el
      BY <1>1, <1>2, <2>1, <3>2, <3>4, PlacesKept DEF Lives
    <3>5. QED
      BY <3>3, <3>4
  <2>3. ClientsWait'
    BY <1>1, <1>2, <2>1 DEF ClientsWait
  <2>4. Looping'
    <3>1. \A e \in Elements : life'[e] = "enabled" => life[e] = "enabled"
      BY <1>1, <2>1
    <3>2. QED
      BY <1>1, <2>1, <3>1, LoopingGoes DEF LifeInv
  <2>5. QED
    BY <2>2, <2>3, <2>4 DEF LifeInv
<1>7. CASE ClientStep(t, g, new) /\ t.todo # <<>>
  <2>1. PICK c \in Bound :
          /\ t.at = "loop" /\ clients' = clients /\ g.at = "loop"
          /\ Listed(t.todo) = Listed(g.todo) \cup {c}
          /\ IF life[c] = "built"
             THEN new = {Enable(c)} /\ life' = [life EXCEPT ![c] = "enabled"]
             ELSE new = Pending(c) /\ life' = life
    BY <1>7 DEF ClientStep
  <2>2. ASSUME NEW e \in Elements PROVE Lives(e)'
    <3>1. InTodo(e) => InTodo(e)' \/ e = c
      BY <1>1, <2>1, TodoKept
    <3>2. Awaits(e) => Awaits(e)' \/ e = c
      BY <2>1, <3>1 DEF Awaits, Listed
    <3>3. CASE e = c /\ life[c] = "built"
      <4>1. new = {Enable(c)} /\ life'[e] = "enabled"
        BY <1>1, <2>1, <3>3
      <4>2. Enable(c) \in new /\ Enable(c).what = "ready" /\ Enable(c).el = e
            /\ Enable(c).at \in {"flush", "clients"}
        BY <1>1, <1>3, <3>3, <4>1
      <4>3. Has("ready", e, {"flush", "clients"})'
        BY <1>1, <4>2, HasKept
      <4>4. QED
        BY <4>1, <4>3 DEF Lives
    <3>4. CASE ~(e = c /\ life[c] = "built")
      <4>1. life'[e] = life[e]
        BY <1>1, <2>1, <3>4
      <4>2. life[e] = "built" => e # c
        BY <3>4
      <4>3. QED
        BY <1>1, <1>2, <2>1, <3>2, <4>1, <4>2, PlacesKept DEF Lives
    <3>5. QED
      BY <3>3, <3>4
  <2>3. ClientsWait'
    BY <1>1, <1>2, <2>1 DEF ClientsWait
  <2>4. Looping'
    <3>1. /\ \A e \in Elements : life'[e] = "enabled" => life[e] \in {"built", "enabled"}
          /\ t.el # c \/ life[c] # "built"
      BY <1>1, <2>1, TopIsThere DEF StackInv, Callable
    <3>2. life'[g.el] # "enabled"
      BY <1>1, <1>2, <2>1, <3>1
    <3>3. \A f \in new : f.at # "loop"
      BY <1>1, <1>3, <2>1 DEF Pending
    <3>4. QED
      BY <1>1, <3>1, <3>2, <3>3, LoopingGoes DEF LifeInv
  <2>5. QED
    BY <2>2, <2>3, <2>4 DEF LifeInv
<1>8. CASE ObserveStep(t, g, new) \/ NotifyStep(t, g, new)
  <2>1. /\ t.what = "flush" /\ t.at \in {"observe", "notify"} /\ g.at # "loop"
        /\ life' = life /\ clients' = clients
        /\ \A f \in new : \E e \in Elements : f = Flush(e)
    BY <1>1, <1>8 DEF ObserveStep, NotifyStep, Set, Frame
  <2>2. ASSUME NEW e \in Elements PROVE Lives(e)'
    <3>1. InTodo(e) => InTodo(e)'
      BY <1>1, <2>1, TodoKept
    <3>2. Awaits(e) => Awaits(e)'
      BY <2>1, <3>1 DEF Awaits, Listed
    <3>3. QED
      BY <1>1, <1>2, <2>1, <3>2, PlacesKept DEF Lives
  <2>3. ClientsWait'
    BY <1>1, <1>2, <2>1 DEF ClientsWait
  <2>4. Looping'
    BY <1>1, <1>3, <2>1, LoopingGoes DEF LifeInv
  <2>5. QED
    BY <2>2, <2>3, <2>4 DEF LifeInv
<1>9. QED
  BY <1>4, <1>5, <1>6, <1>7, <1>8 DEF Turn

LEMMA LifeOthers ==
  ASSUME FlowConstants, FlowTypes, FlowTypes', LifeInv,
         \/ \E t : Returns(t)
         \/ \E e \in Elements, value \in Values : \E new : PageStep(e, value, new)
         \/ \E e \in Late, default \in Values \cup {Undefined} : UpgradeStep(e, default)
  PROVE  LifeInv'
<1>1. ASSUME NEW t, Returns(t) PROVE LifeInv'
  <2>1. /\ Len(calls) \in DOMAIN calls /\ life' = life /\ clients' = clients
        /\ \A i \in DOMAIN calls' : i \in DOMAIN calls /\ calls'[i] = calls[i]
    BY <1>1, TopIsThere DEF Returns
  <2>2. ASSUME NEW e \in Elements PROVE Lives(e)'
    <3>1. Has("ready", e, {"flush", "clients"}) => Has("ready", e, {"flush", "clients"})'
      BY <1>1, HasReturned
    <3>2. Has("ready", e, {"flush", "clients", "loop"}) => Has("ready", e, {"flush", "clients", "loop"})'
      BY <1>1, HasReturned
    <3>3. Has("ready", e, {"loop"}) => Has("ready", e, {"loop"})'
      BY <1>1, HasReturned
    <3>4. Has("flush", e, {"loop"}) => Has("flush", e, {"loop"})'
      BY <1>1, HasReturned
    <3>5. Awaits(e) => Awaits(e)'
      BY <1>1, <2>1, HasReturned DEF Awaits, Listed
    <3>6. QED
      BY <2>1, <3>1, <3>2, <3>3, <3>4, <3>5 DEF LifeInv, Lives
  <2>3. ClientsWait' /\ Looping'
    BY <2>1 DEF LifeInv, ClientsWait, Looping
  <2>4. QED
    BY <2>2, <2>3 DEF LifeInv
<1>2. ASSUME calls = <<>>, clients' = clients, \A i \in DOMAIN calls' : calls'[i].at # "loop",
             \A e \in Elements : \/ life'[e] = life[e]
                                 \/ life'[e] = "enabled" /\ Has("ready", e, {"flush", "clients"})'
      PROVE  LifeInv'
  <2>1. clients = <<>> /\ \A e \in Elements : life[e] \in {"plain", "ready"}
    BY <1>2, Idle
  <2>2. \A e \in Elements : Lives(e)'
    BY <1>2, <2>1 DEF Lives
  <2>3. ClientsWait' /\ Looping'
    BY <1>2, <2>1 DEF ClientsWait, Looping
  <2>4. QED
    BY <2>2, <2>3 DEF LifeInv
<1>3. ASSUME NEW e \in Elements, NEW value \in Values, NEW new, PageStep(e, value, new)
      PROVE  LifeInv'
  <2>1. /\ calls = <<>> /\ life' = life /\ clients' = clients
        /\ new = {} \/ (new = {Flush(e)} /\ Flush(e).at # "loop")
    BY <1>3 DEF PageStep, Starts, Set, Flush
  <2>2. \A i \in DOMAIN calls' : calls'[i].at # "loop"
    BY <1>3, <2>1, StartsOne DEF PageStep
  <2>3. QED
    BY <1>2, <2>1, <2>2
<1>4. ASSUME NEW e \in Late, NEW default \in Values \cup {Undefined}, UpgradeStep(e, default)
      PROVE  LifeInv'
  <2>1. /\ calls = <<>> /\ clients' = clients
        /\ \A c \in Elements : c # e => life'[c] = life[c]
        /\ life'[e] = "enabled"
    BY <1>4 DEF UpgradeStep, Starts, FlowConstants, Elements, FlowTypes
  <2>2. /\ Enable(e).what = "ready" /\ Enable(e).el = e /\ Enable(e).at = "flush"
        /\ DOMAIN calls' = {1} /\ calls'[1] = Enable(e)
    BY <1>4 DEF UpgradeStep, Starts, Enable
  <2>3. Has("ready", e, {"flush", "clients"})'
    BY <2>2 DEF Has
  <2>4. \A i \in DOMAIN calls' : calls'[i].at # "loop"
    BY <2>2
  <2>5. QED
    BY <1>2, <2>1, <2>3, <2>4
<1>5. QED
  BY <1>1, <1>3, <1>4

LEMMA LifeStarts == ASSUME FlowConstants, FlowInit PROVE LifeInv
<1>1. /\ calls = <<Enable(Host)>> /\ DOMAIN calls = {1} /\ calls[1] = Enable(Host)
      /\ Enable(Host).what = "ready" /\ Enable(Host).el = Host /\ Enable(Host).at = "flush"
  BY DEF FlowInit, Enable
<1>2. Listed(clients) = Bound \ Late
  BY InOrderLists DEF FlowInit
<1>3. life[Host] = "enabled" /\ \A c \in Bound : life[c] = "plain" \/ (life[c] = "built" /\ c \in Bound \ Late)
  BY DEF FlowInit, FlowConstants, Elements
<1>4. Has("ready", Host, {"flush", "clients"})
  BY <1>1 DEF Has
<1>5. \A e \in Elements : Lives(e)
  BY <1>2, <1>3, <1>4 DEF Lives, Awaits, Elements
<1>6. QED
  BY <1>1, <1>3, <1>5 DEF LifeInv, ClientsWait, Looping
-----------------------------------------------------------------------------
(* What is pending will be flushed: by the call that begins with it, by the  *)
(* one that readies the element, or by the host it waits for; an observer   *)
(* of a child is called when nothing is pending; and what is to be notified *)
(* is pending.                                                              *)
Begins(e) == Running("flush", "begin") /\ Top.el = e

Readied == {"flush", "clients", "loop", "again"}

Waits(e) == Begins(e) \/ Has("ready", e, Readied) \/ Awaits(e)

Pends == \A e \in Elements : pending[e] => Waits(e)

Taken ==
    \A i \in DOMAIN calls :
        Own(calls[i]) /\ calls[i].at \in {"loop", "observe"} => ~pending[calls[i].el]

Notifies == \A e \in Elements : notify[e] # "none" => pending[e]

PendInv == Pends /\ Taken /\ Notifies

LEMMA FlushBegins ==
  ASSUME FlowTypes, NEW e, NEW new, new = {Flush(e)}, \/ Starts(new)
                                                      \/ \E g : Goes(g, new)
  PROVE  Begins(e)'
<1>1. Flush(e).what = "flush" /\ Flush(e).at = "begin" /\ Flush(e).el = e
  BY DEF Flush
<1>2. calls' # <<>> /\ calls'[Len(calls')] = Flush(e)
  <2>1. CASE Starts(new)
    BY <2>1 DEF Starts
  <2>2. ASSUME NEW g, Goes(g, new) PROVE calls' # <<>> /\ calls'[Len(calls')] = Flush(e)
    <3>1. Len(calls') = Len(calls) + 1 /\ calls'[Len(calls')] = Flush(e)
      BY <2>2 DEF Goes
    <3>2. calls' # <<>>
      BY <2>2, <3>1 DEF Goes, FlowTypes
    <3>3. QED
      BY <3>1, <3>2
  <2>3. QED
    BY <2>1, <2>2
<1>3. QED
  BY <1>1, <1>2 DEF Begins, Running, Top

LEMMA WaitsKept ==
  ASSUME FlowTypes, NEW t, NEW g, NEW new, Turn(t, g, new), NEW e, Waits(e), pending[e]
  PROVE  Waits(e)' \/ (BeginStep(t, g, new) /\ t.el = e)
<1>1. Goes(g, new) /\ t = Top /\ t \in Frame
  BY DEF Turn
<1>2. CASE Begins(e)
  BY <1>1, <1>2 DEF Begins, Running, Turn, ReadyStep, ClientStep, ObserveStep, NotifyStep
<1>3. CASE Has("ready", e, Readied)
  <2>1. \/ Has("ready", e, Readied)'
        \/ t.what = "ready" /\ t.el = e /\ t.at \in Readied /\ g.at \notin Readied
    BY <1>1, <1>3, HasKept
  <2>2. ASSUME t.what = "ready", t.el = e, t.at \in Readied, g.at \notin Readied
        PROVE  Begins(e)'
    <3>1. new = {Flush(e)}
      BY <1>1, <2>2 DEF Turn, ReadyStep, BeginStep, ClientStep, ObserveStep, NotifyStep,
                        Readied, Pending, Frame
    <3>2. QED
      BY <1>1, <3>1, FlushBegins
  <2>3. QED
    BY <2>1, <2>2 DEF Waits
<1>4. CASE Awaits(e)
  <2>1. CASE Awaits(e)'
    BY <2>1 DEF Waits
  <2>2. CASE new = IF life[e] = "built" THEN {Enable(e)} ELSE Pending(e)
    <3>1. CASE life[e] = "built"
      <4>1. Enable(e) \in new /\ Enable(e).what = "ready" /\ Enable(e).el = e /\ Enable(e).at \in Readied
        BY <2>2, <3>1 DEF Enable, Readied
      <4>2. QED
        BY <1>1, <4>1, HasKept DEF Waits
    <3>2. CASE life[e] # "built"
      <4>1. new = {Flush(e)}
        BY <2>2, <3>2 DEF Pending
      <4>2. QED
        BY <1>1, <4>1, FlushBegins DEF Waits
    <3>3. QED
      BY <3>1, <3>2
  <2>3. QED
    BY <1>4, <2>1, <2>2, AwaitsKept
<1>5. QED
  BY <1>2, <1>3, <1>4 DEF Waits

(* An element that is not ready yet is flushed when it is.                  *)
LEMMA UnreadyWaits ==
  ASSUME FlowTypes, LifeInv, NEW t, NEW g, NEW new, Turn(t, g, new), t.what = "flush",
         NEW e \in Elements, life[e] \notin {"plain", "built", "ready"}
  PROVE  Waits(e)'
<1>1. Goes(g, new) /\ t = Top
  BY DEF Turn
<1>2. life[e] \in {"enabled", "clients"}
  BY DEF FlowTypes, Life
<1>3. Has("ready", e, Readied)
  BY <1>2 DEF LifeInv, Lives, Has, Readied
<1>4. QED
  BY <1>1, <1>3, HasKept DEF Waits

(* What a turn makes pending is waiting to be flushed.                      *)
LEMMA NewPending ==
  ASSUME FlowConstants, FlowTypes, StackInv, LifeInv,
         NEW t, NEW g, NEW new, Turn(t, g, new), NEW e \in Elements, ~pending[e], pending'[e]
  PROVE  Waits(e)'
<1>1. /\ Goes(g, new) /\ t = Top /\ t \in Frame /\ t.el \in Elements /\ Host \in Elements
      /\ pending \in [Elements -> BOOLEAN]
  BY DEF Turn, Frame, Elements, FlowTypes
<1>2. life[t.el] \notin {"plain", "built"} /\ life[Host] \notin {"plain", "built"}
  BY <1>1, TopIsThere DEF StackInv, Callable, Goes
<1>3. CASE ReadyStep(t, g, new) \/ ClientStep(t, g, new)
  BY <1>3 DEF ReadyStep, ClientStep, Quiet
<1>4. CASE BeginStep(t, g, new)
  <2>1. e \in Built(t.el) /\ g.at = "loop"
    BY <1>1, <1>4 DEF BeginStep
  <2>2. t.el = Host
    BY <2>1 DEF Built, Propagated
  <2>3. e \in Listed(g.todo)
    BY <1>4, <2>1, <2>2 DEF BeginStep
  <2>4. QED
    BY <1>1, <2>1, <2>3, TodoKept DEF Waits, Awaits
<1>5. CASE ObserveStep(t, g, new)
  <2>1. PICK value : Set(new, t.el, value)
    BY <1>5 DEF ObserveStep
  <2>2. e = t.el /\ data[e] # value
    BY <1>1, <2>1 DEF Set, SetPending
  <2>3. CASE life[e] = "ready"
    <3>1. new = {Flush(e)}
      BY <2>1, <2>2, <2>3 DEF Set
    <3>2. QED
      BY <1>1, <3>1, FlushBegins DEF Waits
  <2>4. CASE life[e] # "ready"
    BY <1>2, <1>5, <2>2, <2>4, UnreadyWaits DEF ObserveStep
  <2>5. QED
    BY <2>3, <2>4
<1>6. CASE NotifyStep(t, g, new)
  <2>1. /\ SetPending(Host, data[t.el])
        /\ new = IF life[Host] = "ready" /\ (pending[Host] \/ data[Host] # data[t.el])
                 THEN {Flush(Host)} ELSE {}
    BY <1>6 DEF NotifyStep
  <2>2. e = Host /\ data[Host] # data[t.el]
    BY <1>1, <2>1 DEF SetPending
  <2>3. CASE life[e] = "ready"
    <3>1. new = {Flush(e)}
      BY <2>1, <2>2, <2>3
    <3>2. QED
      BY <1>1, <3>1, FlushBegins DEF Waits
  <2>4. CASE life[e] # "ready"
    BY <1>2, <1>6, <2>2, <2>4, UnreadyWaits DEF NotifyStep
  <2>5. QED
    BY <2>3, <2>4
<1>7. QED
  BY <1>3, <1>4, <1>5, <1>6 DEF Turn

LEMMA SetNotifies ==
  ASSUME FlowTypes, Notifies, NEW e \in Elements, NEW value, SetPending(e, value)
  PROVE  Notifies'
BY DEF FlowTypes, Notifies, SetPending

LEMMA NewCalls ==
  ASSUME NEW t, NEW g, NEW new, Turn(t, g, new)
  PROVE  \A f \in new : \E e : f = Flush(e) \/ f = Enable(e)
<1>1. CASE ReadyStep(t, g, new)
  BY <1>1 DEF ReadyStep, Pending
<1>2. CASE BeginStep(t, g, new)
  BY <1>2 DEF BeginStep
<1>3. CASE ClientStep(t, g, new)
  BY <1>3 DEF ClientStep, Pending
<1>4. CASE ObserveStep(t, g, new)
  BY <1>4 DEF ObserveStep, Set
<1>5. CASE NotifyStep(t, g, new)
  BY <1>5 DEF NotifyStep
<1>6. QED
  BY <1>1, <1>2, <1>3, <1>4, <1>5 DEF Turn

LEMMA PendTurns ==
  ASSUME FlowConstants, FlowTypes, FlowTypes', StackInv, StackInv', LifeInv, PendInv,
         NEW t, NEW g, NEW new, Turn(t, g, new)
  PROVE  PendInv'
<1>1. /\ Goes(g, new) /\ t = Top /\ t \in Frame /\ t.el \in Elements /\ Host \in Elements
      /\ calls # <<>> /\ g.el = t.el /\ g.what = t.what
      /\ pending \in [Elements -> BOOLEAN] /\ pending' \in [Elements -> BOOLEAN]
  BY DEF Turn, Frame, Elements, FlowTypes, Goes
<1>2. Pends'
  <2>1. ASSUME NEW e \in Elements, pending'[e] PROVE Waits(e)'
    <3>1. CASE ~pending[e]
      BY <2>1, <3>1, NewPending
    <3>2. CASE pending[e]
      <4>1. ~(BeginStep(t, g, new) /\ t.el = e)
        BY <2>1 DEF BeginStep
      <4>2. QED
        BY <3>2, <4>1, WaitsKept DEF PendInv, Pends
    <3>3. QED
      BY <3>1, <3>2
  <2>2. QED
    BY <2>1 DEF Pends
<1>3. Taken'
  <2>1. ASSUME NEW i \in DOMAIN calls', Own(calls'[i]), calls'[i].at \in {"loop", "observe"}
        PROVE  ~pending'[calls'[i].el]
    <3>1. i = Len(calls')
      BY <2>1 DEF StackInv, OwnTurn, Own
    <3>2. \A f \in new : f.at \notin {"loop", "observe"}
      BY NewCalls DEF Flush, Enable
    <3>3. calls'[i] = g /\ new = {}
      BY <1>1, <2>1, <3>1, <3>2 DEF Goes
    <3>4. Own(t) /\ t.what = "flush" /\ t.el # Host /\ g.at \in {"loop", "observe"}
      BY <1>1, <2>1, <3>3 DEF Own
    <3>5. CASE BeginStep(t, g, new)
      BY <1>1, <3>3, <3>5 DEF BeginStep
    <3>6. CASE ClientStep(t, g, new)
      <4>1. t.at = "loop" /\ pending' = pending
        BY <3>6 DEF ClientStep, Quiet
      <4>2. ~pending[t.el]
        BY <1>1, <3>4, <4>1, TopIsThere DEF PendInv, Taken
      <4>3. QED
        BY <1>1, <3>3, <4>1, <4>2
    <3>7. QED
      BY <1>1, <3>4, <3>5, <3>6 DEF Turn, ReadyStep, ObserveStep, NotifyStep, Frame
  <2>2. QED
    BY <2>1 DEF Taken, Own
<1>4. Notifies'
  <2>1. CASE ReadyStep(t, g, new) \/ ClientStep(t, g, new)
    BY <2>1 DEF ReadyStep, ClientStep, Quiet, PendInv, Notifies
  <2>2. CASE BeginStep(t, g, new)
    BY <1>1, <2>2 DEF BeginStep, PendInv, Notifies
  <2>3. CASE ObserveStep(t, g, new) \/ NotifyStep(t, g, new)
    <3>1. \/ UNCHANGED <<pending, notify>>
          \/ \E e \in Elements : \E value : SetPending(e, value)
      BY <1>1, <2>3 DEF ObserveStep, NotifyStep, Set
    <3>2. CASE UNCHANGED <<pending, notify>>
      BY <3>2 DEF PendInv, Notifies
    <3>3. QED
      BY <3>1, <3>2, SetNotifies DEF PendInv
  <2>4. QED
    BY <2>1, <2>2, <2>3 DEF Turn
<1>5. QED
  BY <1>2, <1>3, <1>4 DEF PendInv

LEMMA PendOthers ==
  ASSUME FlowConstants, FlowTypes, FlowTypes', StackInv, LifeInv, PendInv,
         \/ \E t : Returns(t)
         \/ \E e \in Elements, value \in Values : \E new : PageStep(e, value, new)
         \/ \E e \in Late, default \in Values \cup {Undefined} : UpgradeStep(e, default)
  PROVE  PendInv'
<1>1. ASSUME NEW t, Returns(t) PROVE PendInv'
  <2>1. /\ Len(calls) \in DOMAIN calls /\ clients' = clients /\ pending' = pending /\ notify' = notify
        /\ \A i \in DOMAIN calls' : i \in DOMAIN calls /\ calls'[i] = calls[i]
        /\ Top.at = "end"
    BY <1>1, TopIsThere DEF Returns
  <2>2. ASSUME NEW e \in Elements, pending[e] PROVE Waits(e)'
    <3>1. ~Begins(e)
      BY <2>1 DEF Begins, Running
    <3>2. Has("ready", e, Readied) => Has("ready", e, Readied)'
      BY <1>1, HasReturned DEF Readied
    <3>3. Awaits(e) => Awaits(e)'
      BY <1>1, <2>1, HasReturned DEF Awaits, Listed
    <3>4. QED
      BY <2>2, <3>1, <3>2, <3>3 DEF PendInv, Pends, Waits
  <2>3. Taken' /\ Notifies'
    BY <2>1 DEF PendInv, Taken, Notifies, Own
  <2>4. QED
    BY <2>1, <2>2, <2>3 DEF PendInv, Pends
<1>2. ASSUME calls = <<>> PROVE \A e \in Elements : ~pending[e] /\ notify[e] = "none"
  <2>1. \A e \in Elements : ~Waits(e)
    BY <1>2, Idle DEF Waits, Begins, Running
  <2>2. QED
    BY <2>1 DEF PendInv, Pends, Notifies
<1>3. ASSUME NEW e \in Elements, NEW value \in Values, NEW new, PageStep(e, value, new)
      PROVE  PendInv'
  <2>1. /\ calls = <<>> /\ life[e] = "ready" /\ Starts(new) /\ SetPending(e, value)
        /\ new = IF data[e] # value THEN {Flush(e)} ELSE {}
    BY <1>3, Idle DEF PageStep, Starts, Set
  <2>2. Pends'
    <3>1. ASSUME NEW c \in Elements, pending'[c] PROVE Waits(c)'
      <4>1. c = e /\ data[e] # value
        BY <1>2, <2>1, <3>1 DEF SetPending, FlowTypes
      <4>2. new = {Flush(c)}
        BY <2>1, <4>1
      <4>3. QED
        BY <2>1, <4>2, FlushBegins DEF Waits
    <3>2. QED
      BY <3>1 DEF Pends
  <2>3. Taken'
    <3>1. \A f \in new : f.at = "begin"
      BY <2>1 DEF Flush
    <3>2. \A i \in DOMAIN calls' : calls'[i] \in new
      BY <2>1, StartsOne
    <3>3. QED
      BY <3>1, <3>2 DEF Taken
  <2>4. Notifies'
    BY <2>1, SetNotifies DEF PendInv
  <2>5. QED
    BY <2>2, <2>3, <2>4 DEF PendInv
<1>4. ASSUME NEW e \in Late, NEW default \in Values \cup {Undefined}, UpgradeStep(e, default)
      PROVE  PendInv'
  <2>1. /\ calls = <<>> /\ e \in Elements /\ Starts({Enable(e)})
        /\ Enable(e).what = "ready" /\ Enable(e).el = e /\ Enable(e).at = "flush"
    BY <1>4 DEF UpgradeStep, Starts, FlowConstants, Elements, Enable
  <2>2. \A i \in DOMAIN calls' : calls'[i] = Enable(e)
    BY <2>1, StartsOne
  <2>3. Has("ready", e, Readied)'
    BY <2>1 DEF Starts, Has, Readied
  <2>4. Pends'
    <3>1. \A c \in Elements : c # e => ~pending'[c]
      BY <1>2, <1>4, <2>1 DEF UpgradeStep, FlowTypes
    <3>2. QED
      BY <2>3, <3>1 DEF Pends, Waits
  <2>5. Taken'
    BY <2>1, <2>2 DEF Taken
  <2>6. Notifies'
    <3>1. \A c \in Elements : c # e => notify'[c] = "none"
      BY <1>2, <1>4, <2>1 DEF UpgradeStep, FlowTypes
    <3>2. notify'[e] # "none" => default # Undefined
      BY <1>2, <1>4, <2>1 DEF UpgradeStep
    <3>3. default # Undefined => pending'[e]
      <4>1. data'[e] = IF data[e] = Undefined THEN default ELSE data[e]
        BY <1>4, <2>1 DEF UpgradeStep, FlowTypes
      <4>2. pending'[e] = (data'[e] # Undefined)
        BY <1>4, <2>1 DEF UpgradeStep, FlowTypes
      <4>3. QED
        BY <4>1, <4>2
    <3>4. QED
      BY <3>1, <3>2, <3>3 DEF Notifies
  <2>7. QED
    BY <2>4, <2>5, <2>6 DEF PendInv
<1>5. QED
  BY <1>1, <1>3, <1>4

LEMMA PendStarts == ASSUME FlowConstants, FlowInit PROVE PendInv
<1>1. /\ calls = <<Enable(Host)>> /\ DOMAIN calls = {1} /\ calls[1] = Enable(Host)
      /\ Enable(Host).what = "ready" /\ Enable(Host).el = Host /\ Enable(Host).at = "flush"
  BY DEF FlowInit, Enable
<1>2. Listed(clients) = Bound \ Late
  BY InOrderLists DEF FlowInit
<1>3. Has("ready", Host, Readied)
  BY <1>1 DEF Has, Readied
<1>4. \A e \in Late : ~pending[e]
  BY DEF FlowInit, FlowConstants, Elements
<1>5. Pends
  BY <1>2, <1>3, <1>4 DEF Pends, Waits, Awaits, Elements
<1>6. Taken
  BY <1>1 DEF Taken
<1>7. Notifies
  BY DEF FlowInit, Notifies
<1>8. QED
  BY <1>5, <1>6, <1>7 DEF PendInv
-----------------------------------------------------------------------------
(* Who has another value than it should is pending, or in a call that gives *)
(* its value away: a child bound in both directions tells its host, the     *)
(* host its children, and each its observer and what it computes.           *)
Tells(c) ==
    \E i \in DOMAIN calls :
        /\ calls[i].what = "flush" /\ calls[i].el = c /\ calls[i].notify = "yes"
        /\ calls[i].at \in {"loop", "observe", "notify"}

Untouched ==
    \A e \in Elements : life[e] = "plain" =>
        /\ told[e] = Undefined /\ computed[e] = Undefined
        /\ data[e] # data[Host] => pending[Host]

Differ ==
    \A c \in TwoWay : life[c] # "plain" /\ data[c] # data[Host] =>
        pending[Host] \/ notify[c] = "yes" \/ Tells(c)

WillBeTold ==
    \A e \in Elements : life[e] # "plain" /\ told[e] # data[e] =>
        pending[e] \/ Has("flush", e, {"loop", "observe"})

WillCompute == \A e \in Elements : life[e] # "plain" /\ computed[e] # data[e] => pending[e]

ValueInv == Untouched /\ Differ /\ WillBeTold /\ WillCompute

LEMMA SetMoves ==
  ASSUME FlowTypes, NEW x \in Elements, NEW value, SetPending(x, value), NEW e \in Elements
  PROVE  /\ pending[e] => pending'[e]
         /\ data'[e] # data[e] => e = x /\ pending'[e] /\ (e \in TwoWay => notify'[e] = "yes")
         /\ notify[e] = "yes" => notify'[e] = "yes"
         /\ data'[x] = value
BY DEF FlowTypes, SetPending

(* What a turn does to one element.                                         *)
LEMMA TurnMoves ==
  ASSUME FlowConstants, FlowTypes, StackInv, NEW t, NEW g, NEW new, Turn(t, g, new),
         NEW e \in Elements
  PROVE  /\ life'[e] = "plain" <=> life[e] = "plain"
         /\ pending[e] => pending'[e] \/ (BeginStep(t, g, new) /\ t.el = e)
         /\ data'[e] # data[e] => \/ e = Host /\ pending'[e]
                                  \/ e # Host /\ data'[e] = data'[Host] /\ (pending'[e] \/ life[e] = "plain")
                                  \/ /\ e # Host /\ life[e] # "plain" /\ pending'[e]
                                     /\ e \in TwoWay => notify'[e] = "yes"
         /\ notify[e] = "yes" => \/ notify'[e] = "yes" \/ e = Host \/ data'[e] = data'[Host]
                                 \/ BeginStep(t, g, new) /\ t.el = e
         /\ told'[e] = told[e] \/ (ObserveStep(t, g, new) /\ t.el = e /\ told'[e] = data[e])
         /\ BeginStep(t, g, new) /\ t.el = e => computed'[e] = data[e] /\ data'[e] = data[e]
         /\ computed'[e] = computed[e] \/ (BeginStep(t, g, new) /\ t.el = e)
         /\ BeginStep(t, g, new) /\ t.el = Host => data'[e] = data'[Host]
<1>1. /\ Goes(g, new) /\ t = Top /\ t \in Frame /\ t.el \in Elements /\ Host \in Elements
      /\ Bound \subseteq Elements /\ Host \notin Bound /\ Elements = Bound \cup {Host}
      /\ calls # <<>> /\ life \in [Elements -> Life]
  BY DEF Turn, Frame, Elements, FlowTypes, Goes, FlowConstants
<1>2. life[t.el] \notin {"plain", "built"}
  BY <1>1, TopIsThere DEF StackInv, Callable
<1>3. CASE ReadyStep(t, g, new) \/ ClientStep(t, g, new)
  <2>1. UNCHANGED <<data, computed, pending, notify, told>> /\ ~BeginStep(t, g, new)
    BY <1>3 DEF ReadyStep, ClientStep, BeginStep, Quiet
  <2>2. life'[e] = life[e] \/ (life[e] # "plain" /\ life'[e] # "plain")
    <3>1. CASE ReadyStep(t, g, new)
      BY <1>1, <1>2, <3>1 DEF ReadyStep
    <3>2. CASE ClientStep(t, g, new)
      BY <1>1, <1>2, <3>2 DEF ClientStep
    <3>3. QED
      BY <1>3, <3>1, <3>2
  <2>3. QED
    BY <2>1, <2>2
<1>4. CASE BeginStep(t, g, new)
  <2>1. /\ life' = IF life[t.el] = "enabled" THEN [life EXCEPT ![t.el] = "clients"] ELSE life
        /\ computed' = [computed EXCEPT ![t.el] = data[t.el]]
        /\ data' = [c \in Elements |-> IF c \in Propagated(t.el) THEN data[t.el] ELSE data[c]]
        /\ pending' = [c \in Elements |->
              IF c = t.el THEN FALSE ELSE pending[c] \/ c \in Built(t.el)]
        /\ notify' = [c \in Elements |->
              IF c = t.el THEN "none" ELSE IF c \in Built(t.el) \cap TwoWay THEN "no" ELSE notify[c]]
        /\ told' = told
    BY <1>4 DEF BeginStep
  <2>2. life'[e] = life[e] \/ (life[e] # "plain" /\ life'[e] # "plain")
    BY <1>1, <2>1
  <2>3. /\ t.el # Host => Propagated(t.el) = {} /\ Built(t.el) = {}
        /\ t.el = Host => /\ Propagated(Host) = {c \in Bound : data[c] # data[Host]}
                          /\ Built(Host) = {c \in Bound : data[c] # data[Host] /\ life[c] # "plain"}
    BY DEF Propagated, Built
  <2>4. CASE t.el # Host
    <3>1. /\ data'[e] = data[e] /\ (e # t.el => pending'[e] = pending[e] /\ notify'[e] = notify[e])
      BY <1>1, <2>1, <2>3, <2>4 DEF FlowTypes
    <3>2. /\ computed'[t.el] = data[t.el] /\ (e # t.el => computed'[e] = computed[e])
      BY <1>1, <2>1 DEF FlowTypes
    <3>3. QED
      BY <1>4, <2>1, <2>2, <2>4, <3>1, <3>2
  <2>5. CASE t.el = Host
    <3>1. data'[e] = data[Host] /\ data'[Host] = data[Host]
      BY <1>1, <2>1, <2>3, <2>5
    <3>2. /\ e # Host => (pending[e] => pending'[e])
          /\ data'[e] # data[e] => e # Host /\ (pending'[e] \/ life[e] = "plain")
      BY <1>1, <2>1, <2>3, <2>5, <3>1
    <3>3. /\ computed'[Host] = data[Host] /\ (e # Host => computed'[e] = computed[e])
      BY <1>1, <2>1, <2>5 DEF FlowTypes
    <3>4. QED
      BY <1>4, <2>1, <2>2, <2>5, <3>1, <3>2, <3>3
  <2>6. QED
    BY <2>4, <2>5
<1>5. CASE ObserveStep(t, g, new)
  <2>1. /\ life' = life /\ computed' = computed /\ ~BeginStep(t, g, new)
        /\ told'[e] = told[e] \/ (t.el = e /\ told'[e] = data[e])
    BY <1>1, <1>5 DEF ObserveStep, BeginStep, FlowTypes
  <2>2. \/ UNCHANGED <<data, pending, notify>>
        \/ \E value : SetPending(t.el, value)
    BY <1>5 DEF ObserveStep, Set
  <2>3. /\ pending[e] => pending'[e]
        /\ data'[e] # data[e] => e = t.el /\ pending'[e] /\ (e \in TwoWay => notify'[e] = "yes")
        /\ notify[e] = "yes" => notify'[e] = "yes"
    BY <1>1, <2>2, SetMoves
  <2>4. QED
    BY <1>2, <1>5, <2>1, <2>3
<1>6. CASE NotifyStep(t, g, new)
  <2>1. /\ life' = life /\ computed' = computed /\ told' = told /\ ~BeginStep(t, g, new)
    BY <1>6 DEF NotifyStep, BeginStep
  <2>2. \/ UNCHANGED <<data, pending, notify>>
        \/ SetPending(Host, data[t.el])
    BY <1>6 DEF NotifyStep
  <2>3. /\ pending[e] => pending'[e]
        /\ data'[e] # data[e] => e = Host /\ pending'[e]
        /\ notify[e] = "yes" => notify'[e] = "yes"
    BY <1>1, <2>2, SetMoves
  <2>4. QED
    BY <2>1, <2>3
<1>7. QED
  BY <1>3, <1>4, <1>5, <1>6 DEF Turn

LEMMA TellsKept ==
  ASSUME FlowTypes, NEW t, NEW g, NEW new, Turn(t, g, new), NEW c, Tells(c)
  PROVE  Tells(c)' \/ (NotifyStep(t, g, new) /\ t.el = c /\ t.notify = "yes")
<1>1. /\ Goes(g, new) /\ t = Top /\ t \in Frame /\ calls # <<>>
      /\ Len(calls) \in DOMAIN calls /\ calls[Len(calls)] = t
      /\ \A i \in DOMAIN calls : i \in DOMAIN calls' /\ (i # Len(calls) => calls'[i] = calls[i])
      /\ calls'[Len(calls)] = g /\ g.what = t.what /\ g.el = t.el
  BY TopIsThere DEF Turn, Goes
<1>2. PICK i \in DOMAIN calls :
        /\ calls[i].what = "flush" /\ calls[i].el = c /\ calls[i].notify = "yes"
        /\ calls[i].at \in {"loop", "observe", "notify"}
  BY DEF Tells
<1>3. CASE i # Len(calls)
  BY <1>1, <1>2, <1>3 DEF Tells
<1>4. CASE i = Len(calls)
  <2>1. t.what = "flush" /\ t.el = c /\ t.notify = "yes" /\ t.at \in {"loop", "observe", "notify"}
    BY <1>1, <1>2, <1>4
  <2>2. CASE NotifyStep(t, g, new)
    BY <2>1, <2>2
  <2>3. CASE ~NotifyStep(t, g, new)
    <3>1. g.notify = "yes" /\ g.at \in {"loop", "observe", "notify"}
      BY <1>1, <2>1, <2>3 DEF Turn, ReadyStep, BeginStep, ClientStep, ObserveStep, Frame
    <3>2. QED
      BY <1>1, <2>1, <3>1 DEF Tells
  <2>4. QED
    BY <2>2, <2>3
<1>5. QED
  BY <1>3, <1>4

LEMMA ValueTurns ==
  ASSUME FlowConstants, FlowTypes, StackInv, ValueInv, NEW t, NEW g, NEW new, Turn(t, g, new)
  PROVE  ValueInv'
<1>1. /\ Goes(g, new) /\ t = Top /\ t \in Frame /\ t.el \in Elements /\ Host \in Elements
      /\ TwoWay \subseteq Elements /\ Host \notin TwoWay /\ calls # <<>>
      /\ g.what = t.what /\ g.el = t.el
      /\ Len(calls) \in DOMAIN calls' /\ calls'[Len(calls)] = g
  BY TopIsThere DEF Turn, Frame, Elements, Goes, FlowConstants
<1>2. life[t.el] # "plain"
  BY <1>1, TopIsThere DEF StackInv, Callable
<1>3. ASSUME ~pending'[Host]
      PROVE  \/ ~pending[Host] /\ data'[Host] = data[Host]
             \/ \A e \in Elements : data'[e] = data'[Host]
  <2>1. /\ pending[Host] => BeginStep(t, g, new) /\ t.el = Host
        /\ data'[Host] = data[Host]
    BY <1>1, <1>3, TurnMoves
  <2>2. BeginStep(t, g, new) /\ t.el = Host => \A e \in Elements : data'[e] = data'[Host]
    BY TurnMoves
  <2>3. QED
    BY <2>1, <2>2
<1>4. Untouched'
  <2>1. ASSUME NEW e \in Elements, life'[e] = "plain"
        PROVE  /\ told'[e] = Undefined /\ computed'[e] = Undefined
               /\ data'[e] # data'[Host] => pending'[Host]
    <3>1. /\ life[e] = "plain" /\ t.el # e /\ told'[e] = told[e] /\ computed'[e] = computed[e]
          /\ data'[e] # data[e] => \/ e = Host
                                   \/ data'[e] = data'[Host]
      BY <1>2, <2>1, TurnMoves
    <3>2. /\ told[e] = Undefined /\ computed[e] = Undefined
          /\ data[e] # data[Host] => pending[Host]
      BY <3>1 DEF ValueInv, Untouched
    <3>3. QED
      BY <1>3, <3>1, <3>2
  <2>2. QED
    BY <2>1 DEF Untouched
<1>5. Differ'
  <2>1. ASSUME NEW c \in TwoWay, life'[c] # "plain", data'[c] # data'[Host],
               ~pending'[Host], notify'[c] # "yes"
        PROVE  Tells(c)'
    <3>1. c \in Elements /\ c # Host /\ ~pending[Host] /\ data'[Host] = data[Host]
      BY <1>1, <1>3, <2>1
    <3>2. /\ life[c] # "plain" /\ data'[c] = data[c]
          /\ notify[c] = "yes" => BeginStep(t, g, new) /\ t.el = c
      BY <2>1, <3>1, TurnMoves
    <3>3. notify[c] = "yes" \/ Tells(c)
      BY <2>1, <3>1, <3>2 DEF ValueInv, Differ
    <3>4. ASSUME notify[c] = "yes" PROVE Tells(c)'
      <4>1. g.what = "flush" /\ g.el = c /\ g.notify = "yes" /\ g.at = "loop"
        BY <1>1, <3>2, <3>4 DEF BeginStep
      <4>2. QED
        BY <1>1, <4>1 DEF Tells
    <3>5. ASSUME NotifyStep(t, g, new), t.el = c, t.notify = "yes" PROVE FALSE
      <4>1. SetPending(Host, data[c])
        BY <3>5 DEF NotifyStep
      <4>2. data'[Host] = data[c]
        BY <1>1, <4>1, SetMoves
      <4>3. QED
        BY <2>1, <3>2, <4>2
    <3>6. QED
      BY <3>3, <3>4, <3>5, TellsKept
  <2>2. QED
    BY <2>1 DEF Differ
<1>6. WillBeTold'
  <2>1. ASSUME NEW e \in Elements, life'[e] # "plain", told'[e] # data'[e], ~pending'[e]
        PROVE  Has("flush", e, {"loop", "observe"})'
    <3>1. /\ life[e] # "plain" /\ data'[e] = data[e] /\ told'[e] = told[e]
          /\ pending[e] => BeginStep(t, g, new) /\ t.el = e
      BY <2>1, TurnMoves
    <3>2. pending[e] \/ Has("flush", e, {"loop", "observe"})
      BY <2>1, <3>1 DEF ValueInv, WillBeTold
    <3>3. ASSUME pending[e] PROVE Has("flush", e, {"loop", "observe"})'
      <4>1. g.what = "flush" /\ g.el = e /\ g.at \in {"loop", "observe"}
        BY <1>1, <3>1, <3>3 DEF BeginStep
      <4>2. QED
        BY <1>1, <4>1, HasKept
    <3>4. ASSUME t.what = "flush", t.el = e, t.at \in {"loop", "observe"}, g.at \notin {"loop", "observe"}
          PROVE  FALSE
      <4>1. ObserveStep(t, g, new)
        BY <1>1, <3>4 DEF Turn, ReadyStep, BeginStep, ClientStep, NotifyStep, Frame
      <4>2. told'[e] = data[e]
        BY <3>4, <4>1 DEF ObserveStep, FlowTypes
      <4>3. QED
        BY <2>1, <3>1, <4>2
    <3>5. QED
      BY <1>1, <3>2, <3>3, <3>4, HasKept
  <2>2. QED
    BY <2>1 DEF WillBeTold
<1>7. WillCompute'
  <2>1. ASSUME NEW e \in Elements, life'[e] # "plain", computed'[e] # data'[e], ~pending'[e]
        PROVE  FALSE
    <3>1. /\ life[e] # "plain" /\ ~(BeginStep(t, g, new) /\ t.el = e) /\ data'[e] = data[e]
          /\ computed'[e] = computed[e] /\ ~pending[e]
      BY <2>1, TurnMoves
    <3>2. QED
      BY <2>1, <3>1 DEF ValueInv, WillCompute
  <2>2. QED
    BY <2>1 DEF WillCompute
<1>8. QED
  BY <1>4, <1>5, <1>6, <1>7 DEF ValueInv

LEMMA ValueOthers ==
  ASSUME FlowConstants, FlowTypes, LifeInv, PendInv, StackInv, ValueInv,
         \/ \E t : Returns(t)
         \/ \E e \in Elements, value \in Values : \E new : PageStep(e, value, new)
         \/ \E e \in Late, default \in Values \cup {Undefined} : UpgradeStep(e, default)
  PROVE  ValueInv'
<1>1. ASSUME NEW t, Returns(t) PROVE ValueInv'
  <2>1. /\ Len(calls) \in DOMAIN calls /\ calls[Len(calls)].at = "end"
        /\ \A i \in DOMAIN calls : i # Len(calls) => i \in DOMAIN calls' /\ calls'[i] = calls[i]
        /\ UNCHANGED <<life, data, computed, pending, notify, told>>
    BY <1>1, TopIsThere DEF Returns
  <2>2. \A c : Tells(c) => Tells(c)'
    BY <2>1 DEF Tells
  <2>3. \A e : Has("flush", e, {"loop", "observe"}) => Has("flush", e, {"loop", "observe"})'
    BY <1>1, HasReturned
  <2>4. Untouched' /\ WillCompute'
    BY <2>1 DEF ValueInv, Untouched, WillCompute
  <2>5. Differ' /\ WillBeTold'
    BY <2>1, <2>2, <2>3 DEF ValueInv, Differ, WillBeTold
  <2>6. QED
    BY <2>4, <2>5 DEF ValueInv
<1>2. TwoWay \subseteq Elements /\ Late \subseteq Elements /\ Host \in Elements
      /\ Host \notin TwoWay /\ Host \notin Late
  BY DEF FlowConstants, Elements
<1>3. ASSUME calls = <<>>
      PROVE  /\ \A e \in Elements : ~pending[e] /\ notify[e] # "yes"
             /\ \A e \in Elements : life[e] = "plain" => told[e] = Undefined /\ computed[e] = Undefined
             /\ \A e \in Elements : life[e] # "plain" => told[e] = data[e] /\ computed[e] = data[e]
             /\ \A e \in Elements : life[e] = "plain" \/ e \in TwoWay => data[e] = data[Host]
  <2>1. \A e \in Elements : ~pending[e]
    BY <1>3, Idle DEF Waits, Begins, Running, PendInv, Pends
  <2>2. \A e \in Elements : notify[e] # "yes"
    BY <2>1 DEF PendInv, Notifies
  <2>3. \A e : ~Tells(e) /\ ~Has("flush", e, {"loop", "observe"})
    BY <1>3, Idle DEF Tells
  <2>4. \A e \in Elements : life[e] = "plain" =>
           told[e] = Undefined /\ computed[e] = Undefined /\ data[e] = data[Host]
    BY <1>2, <2>1 DEF ValueInv, Untouched
  <2>5. \A e \in Elements : life[e] # "plain" => told[e] = data[e] /\ computed[e] = data[e]
    BY <2>1, <2>3 DEF ValueInv, WillBeTold, WillCompute
  <2>6. \A e \in TwoWay : life[e] # "plain" => data[e] = data[Host]
    BY <1>2, <2>1, <2>2, <2>3 DEF ValueInv, Differ
  <2>7. QED
    BY <1>2, <2>1, <2>2, <2>4, <2>5, <2>6
<1>4. ASSUME NEW x \in Elements, NEW value \in Values, NEW new, PageStep(x, value, new)
      PROVE  ValueInv'
  <2>1. calls = <<>> /\ SetPending(x, value) /\ UNCHANGED <<life, computed, told>> /\ life[x] # "plain"
    BY <1>4 DEF PageStep, Starts, Set
  <2>2. \A e \in Elements :
           data'[e] # data[e] => e = x /\ pending'[e] /\ (e \in TwoWay => notify'[e] = "yes")
    BY <2>1, SetMoves
  <2>3. Untouched' /\ Differ' /\ WillBeTold' /\ WillCompute'
    BY <1>2, <1>3, <2>1, <2>2 DEF Untouched, Differ, WillBeTold, WillCompute
  <2>4. QED
    BY <2>3 DEF ValueInv
<1>5. ASSUME NEW x \in Late, NEW default \in Values \cup {Undefined}, UpgradeStep(x, default)
      PROVE  ValueInv'
  <2>1. /\ calls = <<>> /\ x \in Elements /\ x # Host /\ life[x] = "plain" /\ life'[x] = "enabled"
        /\ UNCHANGED <<computed, told>>
        /\ \A e \in Elements : e # x => life'[e] = life[e] /\ data'[e] = data[e]
    BY <1>2, <1>5 DEF UpgradeStep, Starts, FlowTypes
  <2>2. /\ data'[x] = IF data[x] = Undefined THEN default ELSE data[x]
        /\ pending'[x] = (data'[x] # Undefined)
        /\ default # Undefined /\ x \in TwoWay => notify'[x] = "yes"
    BY <1>5, <2>1 DEF UpgradeStep, FlowTypes
  <2>3. /\ told[x] = Undefined /\ computed[x] = Undefined /\ data[x] = data[Host]
        /\ data'[Host] = data[Host]
    BY <1>2, <1>3, <2>1
  <2>4. Untouched'
    BY <1>3, <2>1, <2>3 DEF Untouched
  <2>5. Differ'
    BY <1>2, <1>3, <2>1, <2>2, <2>3 DEF Differ
  <2>6. WillBeTold' /\ WillCompute'
    BY <1>3, <2>1, <2>2, <2>3 DEF WillBeTold, WillCompute
  <2>7. QED
    BY <2>4, <2>5, <2>6 DEF ValueInv
<1>6. QED
  BY <1>1, <1>4, <1>5

LEMMA ValueStarts == ASSUME FlowConstants, FlowInit PROVE ValueInv
<1>1. /\ \A e \in Elements : /\ told[e] = Undefined /\ computed[e] = Undefined
                             /\ pending[e] = (data[e] # Undefined)
                             /\ pending[e] /\ e \in TwoWay => notify[e] = "yes"
                             /\ life[e] = "plain" => data[e] = Undefined
  BY DEF FlowInit
<1>2. TwoWay \subseteq Elements /\ Host \in Elements
  BY DEF FlowConstants, Elements
<1>3. QED
  BY <1>1, <1>2 DEF ValueInv, Untouched, Differ, WillBeTold, WillCompute

-----------------------------------------------------------------------------
FlowInv == FlowTypes /\ StackInv /\ LifeInv /\ PendInv /\ ValueInv

LEMMA FlowInvKept == ASSUME FlowConstants, FlowInv, [FlowNext]_flowVars PROVE FlowInv'
<1> USE DEF FlowInv
<1>1. CASE UNCHANGED flowVars
  <2>1. UNCHANGED <<life, data, computed, pending, notify, clients, told, calls, sets>>
    BY <1>1 DEF flowVars
  <2>2. FlowTypes' /\ StackInv'
    BY <2>1 DEF FlowTypes, StackInv, Callable, Defined, ReadyFirst, OwnTurn, Own, Listed
  <2>3. (\A e : Awaits(e) = Awaits(e)') /\ \A what, e, places : Has(what, e, places) = Has(what, e, places)'
    BY <2>1 DEF Awaits, InTodo, Has, Listed
  <2>4. LifeInv'
    BY <2>1, <2>3 DEF LifeInv, Lives, ClientsWait, Looping
  <2>5. PendInv'
    BY <2>1, <2>3 DEF PendInv, Pends, Waits, Begins, Running, Top, Taken, Own, Notifies
  <2>6. \A e : Tells(e) = Tells(e)'
    BY <2>1 DEF Tells
  <2>7. ValueInv'
    BY <2>1, <2>3, <2>6 DEF ValueInv, Untouched, Differ, WillBeTold, WillCompute
  <2>8. QED
    BY <2>2, <2>4, <2>5, <2>7
<1>2. ASSUME NEW t, NEW g, NEW new, Turn(t, g, new) PROVE FlowInv'
  <2>1. FlowTypes'
    BY <1>2, TurnTypes
  <2>2. StackInv'
    BY <1>2, <2>1, StackTurns
  <2>3. LifeInv'
    BY <1>2, <2>1, LifeTurns
  <2>4. PendInv'
    BY <1>2, <2>1, <2>2, PendTurns
  <2>5. ValueInv'
    BY <1>2, ValueTurns
  <2>6. QED
    BY <2>1, <2>2, <2>3, <2>4, <2>5
<1>3. ASSUME \/ \E t : Returns(t)
             \/ \E e \in Elements, value \in Values : \E new : PageStep(e, value, new)
             \/ \E e \in Late, default \in Values \cup {Undefined} : UpgradeStep(e, default)
      PROVE  FlowInv'
  <2>1. FlowTypes'
    BY <1>3, OtherTypes
  <2>2. StackInv'
    BY <1>3, <2>1, StackOthers
  <2>3. LifeInv'
    BY <1>3, <2>1, LifeOthers
  <2>4. PendInv'
    BY <1>3, <2>1, PendOthers
  <2>5. ValueInv'
    BY <1>3, ValueOthers
  <2>6. QED
    BY <2>1, <2>2, <2>3, <2>4, <2>5
<1>4. QED
  BY <1>1, <1>2, <1>3, Steps

LEMMA FlowSettled ==
  ASSUME FlowConstants, FlowInv
  PROVE  FlowTypeOK /\ Agreement /\ ToldLast /\ ComputedFirst
<1> USE DEF FlowInv
<1>1. FlowTypeOK
  BY DEF FlowTypes, FlowTypeOK, Life, StackInv, Callable
<1>2. TwoWay \subseteq Elements /\ Host \in Elements /\ Host \notin Bound
  BY DEF FlowConstants, Elements
<1>3. ASSUME calls = <<>>
      PROVE  /\ \A e \in Elements : ~pending[e] /\ notify[e] # "yes"
             /\ \A e : ~Tells(e) /\ ~Has("flush", e, {"loop", "observe"})
  <2>1. \A e \in Elements : ~pending[e]
    BY <1>3, Idle DEF Waits, Begins, Running, PendInv, Pends
  <2>2. \A e \in Elements : notify[e] # "yes"
    BY <2>1 DEF PendInv, Notifies
  <2>3. \A e : ~Tells(e) /\ ~Has("flush", e, {"loop", "observe"})
    BY <1>3, Idle DEF Tells
  <2>4. QED
    BY <2>1, <2>2, <2>3
<1>4. Agreement
  BY <1>2, <1>3 DEF Agreement, Quiescent, ValueInv, Differ
<1>5. ToldLast
  BY <1>3 DEF ToldLast, Quiescent, ValueInv, WillBeTold
<1>6. ComputedFirst
  <2>1. SUFFICES ASSUME calls # <<>>, Top.what = "flush", Top.at = "observe", Readying(Top.el) = {},
                        computed[Top.el] # data[Top.el]
                 PROVE  FALSE
    BY DEF ComputedFirst, Running
  <2>2. Len(calls) \in DOMAIN calls /\ Top = calls[Len(calls)] /\ Top.el \in Elements
    BY <2>1, TopIsThere
  <2>3. pending[Top.el]
    BY <2>1, <2>2 DEF ValueInv, WillCompute, StackInv, Callable
  <2>4. Top.el = Host
    BY <2>1, <2>2, <2>3 DEF PendInv, Taken, Own
  <2>5. Waits(Host)
    BY <2>3, <2>4, <1>2 DEF PendInv, Pends
  <2>6. ~Begins(Host) /\ ~Has("ready", Host, Readied)
    BY <2>1, <2>4 DEF Begins, Running, Has, Readying
  <2>7. ~Awaits(Host)
    <3>1. Host \notin Listed(clients)
      BY <1>2, ListedTyped DEF FlowTypes
    <3>2. \A i \in DOMAIN calls : Host \notin Listed(calls[i].todo)
      BY <1>2, FramesTyped, ListedTyped
    <3>3. QED
      BY <3>1, <3>2 DEF Awaits, InTodo
  <2>8. QED
    BY <2>5, <2>6, <2>7 DEF Waits
<1>7. QED
  BY <1>1, <1>4, <1>5, <1>6

(* cloud-dashboard.js:9131-9152,9238-9303,10006-10069,10521-10548: when the  *)
(* calls have returned nothing is pending, the host and the elements bound  *)
(* to it in both directions agree, and every observer was told last what    *)
(* there is; and an observer is called when what depends on the value was   *)
(* computed from it.                                                        *)
THEOREM FlowIsSettled ==
  ASSUME FlowConstants
  PROVE  FlowSpec => [](FlowTypeOK /\ Agreement /\ ToldLast /\ ComputedFirst)
<1>1. FlowInit => FlowInv
  BY TypesStart, StackStarts, LifeStarts, PendStarts, ValueStarts DEF FlowInv
<1>2. FlowInv /\ [FlowNext]_flowVars => FlowInv'
  BY FlowInvKept
<1>3. FlowInv => FlowTypeOK /\ Agreement /\ ToldLast /\ ComputedFirst
  BY FlowSettled
<1>4. QED
  BY <1>1, <1>2, <1>3, PTL DEF FlowSpec

-----------------------------------------------------------------------------
(* Paths are sequences of names, and no end of a link lies below another:   *)
(* the links of an array and what is selected of it are such.  A call has   *)
(* room for as many paths as there are ends, and one.                       *)
PathsConstants(Names) ==
    /\ Ends \subseteq Seq(Names) /\ Below \subseteq Seq(Names) /\ IsFiniteSet(Ends)
    /\ \A a, b \in Ends : IsPrefix(a, b) => a = b
    /\ MaxTelling \in Nat /\ Cardinality(Ends) < MaxTelling
    /\ MaxItems \in Nat

(* A sequence with one part, and one with another behind it.                *)
LEMMA Behind ==
  ASSUME NEW E, NEW x \in Seq(E), NEW y \in Seq(E)
  PROVE  /\ x \o y \in Seq(E) /\ Len(x \o y) = Len(x) + Len(y)
         /\ SubSeq(x \o y, 1, Len(x)) = x
         /\ SubSeq(x \o y, Len(x) + 1, Len(x \o y)) = y
<1>1. PICK t, m, n : t = x \o y /\ m = Len(x) /\ n = Len(y)
  OBVIOUS
<1>2. m \in Nat /\ n \in Nat
  BY <1>1
<1>3. t \in Seq(E) /\ Len(t) = m + n /\ \A i \in 1 .. m + n : t[i] = IF i <= m THEN x[i] ELSE y[i - m]
  BY <1>1, ConcatProperties
<1>4. PICK u : u = SubSeq(t, 1, m)
  OBVIOUS
<1>5. u \in Seq(E) /\ Len(u) = m /\ \A i \in 1 .. m : u[i] = t[i]
  <2>1. \A i \in 1 .. m : t[i] \in E
    BY <1>2, <1>3
  <2>2. m - 1 + 1 = m /\ (~(1 <= m) => m = 0) /\ \A i \in 1 .. m : 1 + i - 1 = i
    BY <1>2
  <2>3. /\ u \in Seq(E) /\ Len(u) = IF 1 <= m THEN m - 1 + 1 ELSE 0
        /\ \A i \in 1 .. m - 1 + 1 : u[i] = t[1 + i - 1]
    BY <1>2, <1>4, <2>1, SubSeqProperties
  <2>4. QED
    BY <1>2, <2>2, <2>3
<1>6. \A i \in 1 .. m : t[i] = x[i]
  BY <1>2, <1>3
<1>7. u = x
  BY <1>1, <1>5, <1>6, SeqEqual
<1>8. PICK v : v = SubSeq(t, m + 1, m + n)
  OBVIOUS
<1>9. v \in Seq(E) /\ Len(v) = n /\ \A i \in 1 .. n : v[i] = t[m + i]
  <2>1. \A i \in m + 1 .. m + n : t[i] \in E
    BY <1>2, <1>3
  <2>2. /\ (m + n) - (m + 1) + 1 = n /\ (~(m + 1 <= m + n) => n = 0)
        /\ \A i \in 1 .. n : (m + 1) + i - 1 = m + i
    BY <1>2
  <2>3. /\ v \in Seq(E) /\ Len(v) = IF m + 1 <= m + n THEN (m + n) - (m + 1) + 1 ELSE 0
        /\ \A i \in 1 .. (m + n) - (m + 1) + 1 : v[i] = t[(m + 1) + i - 1]
    BY <1>2, <1>8, <2>1, SubSeqProperties
  <2>4. QED
    BY <1>2, <2>2, <2>3
<1>10. \A i \in 1 .. n : t[m + i] = y[i]
  <2>1. \A i \in 1 .. n : m + i \in 1 .. m + n /\ ~(m + i <= m) /\ (m + i) - m = i
    BY <1>2
  <2>2. QED
    BY <1>3, <2>1
<1>11. v = y
  BY <1>1, <1>9, <1>10, SeqEqual
<1>12. QED
  BY <1>1, <1>3, <1>4, <1>7, <1>8, <1>11

(* The shorter of two prefixes of a path is one of the other.               *)
LEMMA PrefixOfSame ==
  ASSUME NEW E, NEW a \in Seq(E), NEW x \in Seq(E), NEW r \in Seq(E),
         Len(a) <= Len(x), SubSeq(a, 1, Len(a)) = SubSeq(x \o r, 1, Len(a))
  PROVE  IsPrefix(a, x)
<1>1. PICK n : n = Len(a) /\ n \in Nat /\ n <= Len(x) /\ Len(x) \in Nat
  OBVIOUS
<1>2. CASE n = 0
  <2>1. SubSeq(a, 1, 0) = <<>> /\ SubSeq(x, 1, 0) = <<>>
    BY SubSeqEmpty
  <2>2. QED
    BY <1>1, <1>2, <2>1 DEF IsPrefix
<1>3. CASE n # 0
  <2>1. 1 \in 1 .. Len(x) /\ n \in 1 .. Len(x)
    BY <1>1, <1>3
  <2>2. SubSeq(x \o r, 1, n) = SubSeq(x, 1, n)
    BY <2>1, SubSeqOfConcat1
  <2>3. QED
    BY <1>1, <2>2 DEF IsPrefix
<1>4. QED
  BY <1>2, <1>3

(* Two ends of which paths go on to the same are one.                       *)
LEMMA EndsApart ==
  ASSUME NEW Names, PathsConstants(Names), NEW a \in Ends, NEW x \in Ends, NEW r \in Below, IsPrefix(a, x \o r)
  PROVE  a = x
<1>1. a \in Seq(Names) /\ x \in Seq(Names) /\ r \in Seq(Names)
  BY DEF PathsConstants
<1>2. Len(a) <= Len(x \o r) /\ SubSeq(a, 1, Len(a)) = SubSeq(x \o r, 1, Len(a))
  BY DEF IsPrefix
<1>3. SubSeq(x \o r, 1, Len(x)) = x /\ Len(x) \in Nat /\ Len(a) \in Nat
  BY <1>1, Behind
<1>4. CASE Len(a) <= Len(x)
  <2>1. IsPrefix(a, x)
    BY <1>1, <1>2, <1>4, PrefixOfSame
  <2>2. QED
    BY <2>1 DEF PathsConstants
<1>5. CASE Len(x) <= Len(a)
  <2>1. SubSeq(a, 1, Len(a)) = a
    BY <1>1, SubSeqFull
  <2>2. a = SubSeq(x \o r, 1, Len(a))
    BY <1>2, <2>1
  <2>3. SubSeq(SubSeq(x \o r, 1, Len(a)), 1, Len(x)) = x
    <3>1. PICK t, n, m : t = x \o r /\ n = Len(a) /\ m = Len(x)
      OBVIOUS
    <3>2. t \in Seq(Names) /\ n \in Nat /\ m \in Nat /\ m <= n /\ n <= Len(t)
      BY <1>1, <1>2, <1>3, <1>5, <3>1, Behind
    <3>3. CASE m = 0
      <4>1. SubSeq(SubSeq(t, 1, n), 1, 0) = <<>> /\ x = <<>>
        <5>1. SubSeq(SubSeq(t, 1, n), 1, 0) = <<>>
          BY SubSeqEmpty
        <5>2. x = <<>>
          BY <1>1, <3>1, <3>3, EmptySeq
        <5>3. QED
          BY <5>1, <5>2
      <4>2. QED
        BY <3>1, <3>3, <4>1
    <3>4. CASE m # 0
      <4>1. 1 \in 1 .. Len(t) /\ n \in 1 .. Len(t) /\ 1 \in 1 .. n - 1 + 1 /\ m \in 1 .. n - 1 + 1
        BY <3>2, <3>4
      <4>2. 1 + 1 - 1 = 1 /\ 1 + m - 1 = m
        BY <3>2
      <4>3. SubSeq(SubSeq(t, 1, n), 1, m) = SubSeq(t, 1 + 1 - 1, 1 + m - 1)
        BY <3>2, <4>1, SubSeqOfSubSeq
      <4>4. QED
        BY <1>3, <3>1, <4>2, <4>3
    <3>5. QED
      BY <3>3, <3>4
  <2>4. SubSeq(x, 1, Len(x)) = x
    BY <1>1, SubSeqFull
  <2>5. IsPrefix(x, a)
    BY <1>5, <2>2, <2>3, <2>4 DEF IsPrefix
  <2>6. QED
    BY <2>5 DEF PathsConstants
<1>6. QED
  BY <1>3, <1>4, <1>5

(* A path goes on from one end only, and in one way.                        *)
LEMMA OneWayOn ==
  ASSUME NEW Names, PathsConstants(Names), NEW a \in Ends, NEW x \in Ends, NEW r \in Below, NEW q \in Below,
         a \o r = x \o q
  PROVE  a = x /\ r = q
<1>1. a \in Seq(Names) /\ x \in Seq(Names) /\ r \in Seq(Names) /\ q \in Seq(Names)
  BY DEF PathsConstants
<1>2. SubSeq(a \o r, 1, Len(a)) = a /\ Len(a \o r) = Len(a) + Len(r)
  BY <1>1, Behind
<1>3. SubSeq(a, 1, Len(a)) = a /\ Len(a) \in Nat /\ Len(r) \in Nat
  BY <1>1, SubSeqFull
<1>4. IsPrefix(a, x \o q)
  BY <1>2, <1>3 DEF IsPrefix
<1>5. a = x
  BY <1>4, EndsApart
<1>6. \A u, v \in Seq(Names) : SubSeq(u \o v, Len(u) + 1, Len(u \o v)) = v
  BY Behind
<1>7. r = SubSeq(a \o r, Len(a) + 1, Len(a \o r)) /\ q = SubSeq(x \o q, Len(x) + 1, Len(x \o q))
  BY <1>1, <1>6
<1>8. QED
  BY <1>5, <1>7

(* From a path links lead on that have an end of it, and to the same below  *)
(* their other end.                                                         *)
LEMMA GoesOn ==
  ASSUME NEW Names, PathsConstants(Names), NEW x \in Ends, NEW r \in Below
  PROVE  /\ \A a \in Ends : IsDescendant(a, x \o r) <=> a = x /\ r # <<>>
         /\ \A y : Translate(x, y, x \o r) = y \o r
<1>1. x \in Seq(Names) /\ r \in Seq(Names)
  BY DEF PathsConstants
<1>2. /\ SubSeq(x \o r, 1, Len(x)) = x /\ SubSeq(x \o r, Len(x) + 1, Len(x \o r)) = r
      /\ Len(x \o r) = Len(x) + Len(r)
  BY <1>1, Behind
<1>3. SubSeq(x, 1, Len(x)) = x /\ Len(x) \in Nat /\ Len(r) \in Nat
  BY <1>1, SubSeqFull
<1>4. IsPrefix(x, x \o r)
  BY <1>2, <1>3 DEF IsPrefix
<1>5. x = x \o r <=> r = <<>>
  <2>1. x \o r = x => r = <<>>
    BY <1>1, ConcatSimplifications!idRight
  <2>2. x \o <<>> = x
    BY <1>1, ConcatEmptySeq
  <2>3. QED
    BY <2>1, <2>2
<1>6. ASSUME NEW a \in Ends PROVE IsDescendant(a, x \o r) <=> a = x /\ r # <<>>
  BY <1>4, <1>5, EndsApart DEF IsDescendant, IsStrictPrefix
<1>7. \A y : Translate(x, y, x \o r) = y \o r
  BY <1>2 DEF Translate
<1>8. QED
  BY <1>6, <1>7

(* A sequence of the members of a set.                                      *)
LEMMA SetAsSeq ==
  ASSUME NEW S, IsFiniteSet(S)
  PROVE  /\ SetToSeq(S) \in Seq(S) /\ Len(SetToSeq(S)) = Cardinality(S)
         /\ \A e \in S : \E k \in 1 .. Len(SetToSeq(S)) : SetToSeq(S)[k] = e
<1>1. PICK n : n = Cardinality(S)
  OBVIOUS
<1>2. n \in Nat /\ ExistsBijection(1 .. n, S)
  BY <1>1, FS_CardinalityType
<1>3. PICK f : f \in Bijection(1 .. n, S)
  BY <1>2 DEF ExistsBijection
<1>4. f \in [1 .. n -> S] /\ IsInjective(f)
  BY <1>3 DEF Bijection, Injection, IsInjective
<1>5. PICK g : g = SetToSeq(S)
  OBVIOUS
<1>6. g = CHOOSE h \in [1 .. n -> S] : IsInjective(h)
  BY <1>1, <1>5 DEF SetToSeq
<1>7. g \in [1 .. n -> S] /\ IsInjective(g)
  BY <1>4, <1>6
<1>8. g \in Injection(1 .. n, S)
  BY <1>7 DEF Injection, IsInjective
<1>9. IsFiniteSet(1 .. n) /\ Cardinality(1 .. n) = n
  <2>1. Cardinality(1 .. n) = IF 1 > n THEN 0 ELSE n - 1 + 1
    BY <1>2, FS_Interval
  <2>2. QED
    BY <1>2, <2>1, FS_Interval
<1>10. g \in Surjection(1 .. n, S)
  BY <1>1, <1>8, <1>9, FS_Injection
<1>11. \A e \in S : \E k \in 1 .. n : g[k] = e
  BY <1>10 DEF Surjection
<1>12. g \in Seq(S) /\ Len(g) = n
  BY <1>2, <1>7
<1>13. QED
  BY <1>1, <1>5, <1>11, <1>12

-----------------------------------------------------------------------------
(* The links have two different ends; what follows the array has it, unless *)
(* it was told of a splice outside.                                         *)
LinksTyped ==
    /\ DOMAIN links \subseteq Ends
    /\ \A to \in DOMAIN links : links[to] \in Ends /\ links[to] # to

ArrayInv == array \in Seq(Things) /\ strays \in Nat /\ Mirrored

(* The ends, below which the same is told, that links lead to from paths    *)
(* that are told.                                                           *)
Reached(r) == {to \in DOMAIN links : links[to] \o r \in DOMAIN temp}

LEMMA ReachedAreFew ==
  ASSUME NEW Names, PathsConstants(Names), LinksTyped, NEW r
  PROVE  /\ IsFiniteSet(Reached(r)) /\ Cardinality(Reached(r)) \in Nat
         /\ Cardinality(Reached(r)) <= Cardinality(Ends)
<1>1. Reached(r) \subseteq Ends /\ IsFiniteSet(Ends)
  BY DEF Reached, LinksTyped, PathsConstants
<1>2. QED
  BY <1>1, FS_Subset, FS_CardinalityType

(* While a value is told: it is the same for all paths, which go on alike   *)
(* from the ends; no more calls wait than were made along links to paths    *)
(* that are told, and the first; and what is linked with a path that is     *)
(* told is told, or waits.                                                  *)
Telling(r, value) ==
    /\ pathCalls \in Seq([path : {x \o r : x \in Ends}, value : {value}])
    /\ DOMAIN temp \subseteq {x \o r : x \in Ends}
    /\ \A path \in DOMAIN temp : temp[path] = value
    /\ Len(pathCalls) <= 1 + Cardinality(Reached(r))
    /\ r # <<>> =>
          \A x, y \in Ends : LinkedEnds(x, y) /\ x \o r \in DOMAIN temp =>
             \/ y \o r \in DOMAIN temp
             \/ \E k \in 1 .. Len(pathCalls) : pathCalls[k].path = y \o r

PathInv ==
    /\ LinksTyped /\ ArrayInv
    /\ AtRest \/ \E r \in Below, value \in Things : Telling(r, value)

(* A call of notifyPath.                                                    *)
LEMMA NotifyTells ==
  ASSUME NEW Names, PathsConstants(Names), LinksTyped, ArrayInv,
         NEW end \in Ends, NEW r \in Below, NEW value \in Things, NotifyPath(end \o r, value)
  PROVE  PathInv'
<1>1. /\ AtRest /\ pathCalls' = <<[path |-> end \o r, value |-> value]>>
      /\ UNCHANGED <<links, temp, array, mirror, strays>>
  BY DEF NotifyPath
<1>2. PICK call : call = [path |-> end \o r, value |-> value]
  OBVIOUS
<1>3. call \in [path : {x \o r : x \in Ends}, value : {value}]
  BY <1>2
<1>4. pathCalls' \in Seq([path : {x \o r : x \in Ends}, value : {value}]) /\ Len(pathCalls') = 1
  <2>1. \A C, c : c \in C => <<c>> \in Seq(C) /\ Len(<<c>>) = 1
    OBVIOUS
  <2>2. QED
    BY <1>1, <1>2, <1>3, <2>1
<1>5. DOMAIN temp' = {}
  BY <1>1 DEF AtRest, Nothing
<1>6. Reached(r)' = {}
  BY <1>5 DEF Reached
<1>7. Cardinality(Reached(r)') = 0
  BY <1>6, FS_EmptySet
<1>8. Telling(r, value)'
  BY <1>4, <1>5, <1>7 DEF Telling
<1>9. LinksTyped' /\ ArrayInv'
  BY <1>1 DEF LinksTyped, ArrayInv, Mirrored
<1>10. QED
  BY <1>8, <1>9 DEF PathInv

(* The next call, if its path was told.                                     *)
LEMMA ToldIsLeft ==
  ASSUME NEW Names, PathsConstants(Names), LinksTyped,
         NEW r, NEW value, Telling(r, value), SetPendingPath, Head(pathCalls).path \in DOMAIN temp
  PROVE  Telling(r, value)'
<1>1. PICK C : C = [path : {x \o r : x \in Ends}, value : {value}]
  OBVIOUS
<1>2. pathCalls \in Seq(C) /\ pathCalls # <<>>
  BY <1>1 DEF Telling, SetPendingPath
<1>3. PICK call : call = Head(pathCalls) /\ call \in C /\ call = pathCalls[1]
  BY <1>2
<1>4. temp[call.path] = call.value
  BY <1>1, <1>3 DEF Telling
<1>5. pathCalls' = Tail(pathCalls) /\ temp' = temp /\ links' = links
  BY <1>3, <1>4 DEF SetPendingPath
<1>6. PICK n : n = Len(pathCalls) /\ n \in Nat \ {0}
  BY <1>2
<1>7. /\ pathCalls' \in Seq(C) /\ Len(pathCalls') = n - 1
      /\ \A k \in 1 .. n - 1 : pathCalls'[k] = pathCalls[k + 1]
  BY <1>2, <1>5, <1>6, HeadTailProperties
<1>8. Reached(r)' = Reached(r)
  BY <1>5 DEF Reached
<1>9. Len(pathCalls') <= 1 + Cardinality(Reached(r)')
  <2>1. Len(pathCalls) <= 1 + Cardinality(Reached(r))
    BY DEF Telling
  <2>2. Cardinality(Reached(r)) \in Nat
    BY ReachedAreFew
  <2>3. QED
    BY <1>6, <1>7, <1>8, <2>1, <2>2
<1>10. ASSUME r # <<>>, NEW x \in Ends, NEW y \in Ends, LinkedEnds(x, y), x \o r \in DOMAIN temp
       PROVE  \/ y \o r \in DOMAIN temp
              \/ \E k \in 1 .. Len(pathCalls') : pathCalls'[k].path = y \o r
  <2>1. CASE y \o r \in DOMAIN temp
    BY <2>1
  <2>2. CASE y \o r \notin DOMAIN temp
    <3>1. PICK k \in 1 .. n : pathCalls[k].path = y \o r
      BY <1>6, <1>10, <2>2 DEF Telling
    <3>2. k # 1
      BY <1>3, <2>2, <3>1
    <3>3. k - 1 \in 1 .. n - 1 /\ (k - 1) + 1 = k
      BY <1>6, <3>2
    <3>4. QED
      BY <1>7, <3>1, <3>3
  <2>3. QED
    BY <2>1, <2>2
<1>11. QED
  BY <1>1, <1>5, <1>7, <1>9, <1>10 DEF Telling, LinkedEnds

(* A path is told, and the calls that follow from its links are made first. *)
LEMMA PathIsTold ==
  ASSUME NEW Names, PathsConstants(Names), LinksTyped, NEW r \in Below, NEW value, Telling(r, value),
         SetPendingPath, Head(pathCalls).path \notin DOMAIN temp
  PROVE  Telling(r, value)' /\ temp' # Nothing
<1>1. PICK C : C = [path : {x \o r : x \in Ends}, value : {value}]
  OBVIOUS
<1>2. pathCalls \in Seq(C) /\ pathCalls # <<>>
  BY <1>1 DEF Telling, SetPendingPath
<1>3. PICK call : call = Head(pathCalls) /\ call \in C /\ call = pathCalls[1]
  BY <1>2
<1>4. PICK x \in Ends : call.path = x \o r
  BY <1>1, <1>3
<1>5. call.value = value
  BY <1>1, <1>3
<1>6. /\ temp' = With(call) /\ links' = links
      /\ pathCalls' = Calls(FromLinks(call), value) \o Tail(pathCalls)
  BY <1>3, <1>5 DEF SetPendingPath
<1>7. /\ DOMAIN temp' = DOMAIN temp \cup {x \o r} /\ temp'[x \o r] = value
      /\ \A path \in DOMAIN temp : temp'[path] = temp[path]
  BY <1>3, <1>4, <1>5, <1>6 DEF With
<1>8. PICK S : S = LinksOn(x \o r)
  OBVIOUS
<1>9. /\ S \subseteq DOMAIN links
      /\ \A to \in DOMAIN links : to \in S <=> (to = x \/ links[to] = x) /\ r # <<>>
  BY <1>8, GoesOn DEF LinksOn, LinksTyped
<1>10. IsFiniteSet(S)
  BY <1>9, FS_Subset DEF LinksTyped, PathsConstants
<1>11. PICK ends : ends = SetToSeq(S)
  OBVIOUS
<1>12. /\ ends \in Seq(S) /\ Len(ends) = Cardinality(S)
       /\ \A to \in S : \E k \in 1 .. Len(ends) : ends[k] = to
  BY <1>10, <1>11, SetAsSeq
<1>13. ASSUME NEW to \in S
       PROVE  LinkedTo(x \o r, to) = (IF to = x THEN links[to] ELSE to) \o r
  <2>1. to \in Ends /\ links[to] \in Ends /\ r # <<>> /\ (to = x \/ links[to] = x)
    BY <1>9 DEF LinksTyped
  <2>2. IsDescendant(to, x \o r) <=> to = x
    BY <2>1, GoesOn
  <2>3. \A y : Translate(x, y, x \o r) = y \o r
    BY GoesOn
  <2>4. QED
    BY <2>1, <2>2, <2>3 DEF LinkedTo
<1>14. PICK more : more = Calls(FromLinks(call), value)
  OBVIOUS
<1>15. FromLinks(call) = [k \in 1 .. Len(ends) |-> LinkedTo(x \o r, ends[k])]
  BY <1>4, <1>8, <1>11 DEF FromLinks
<1>16. PICK m : m = Len(ends) /\ m \in Nat /\ m = Cardinality(S)
  BY <1>12
<1>17. /\ more \in Seq(C) /\ Len(more) = m
       /\ \A k \in 1 .. m : more[k].path = LinkedTo(x \o r, ends[k])
  <2>1. Len(FromLinks(call)) = m
    BY <1>15, <1>16
  <2>2. more = [k \in 1 .. m |-> [path |-> LinkedTo(x \o r, ends[k]), value |-> value]]
    BY <1>14, <1>15, <1>16, <2>1 DEF Calls
  <2>3. ASSUME NEW k \in 1 .. m PROVE [path |-> LinkedTo(x \o r, ends[k]), value |-> value] \in C
    <3>1. ends[k] \in S
      BY <1>12, <1>16
    <3>2. (IF ends[k] = x THEN links[ends[k]] ELSE ends[k]) \in Ends
      BY <1>9, <3>1 DEF LinksTyped
    <3>3. LinkedTo(x \o r, ends[k]) \in {y \o r : y \in Ends}
      BY <1>13, <3>1, <3>2
    <3>4. QED
      BY <1>1, <3>3
  <2>4. QED
    BY <1>16, <2>2, <2>3
<1>18. PICK n, rest : n = Len(pathCalls) /\ n \in Nat \ {0} /\ rest = Tail(pathCalls)
  <2>1. Len(pathCalls) \in Nat \ {0}
    BY <1>2, EmptySeq
  <2>2. QED
    BY <2>1
<1>19. rest \in Seq(C) /\ Len(rest) = n - 1 /\ \A k \in 1 .. n - 1 : rest[k] = pathCalls[k + 1]
  BY <1>2, <1>18, HeadTailProperties
<1>20. /\ pathCalls' \in Seq(C) /\ Len(pathCalls') = m + (n - 1)
       /\ \A k \in 1 .. m + (n - 1) : pathCalls'[k] = IF k <= m THEN more[k] ELSE rest[k - m]
  BY <1>6, <1>14, <1>17, <1>18, <1>19, ConcatProperties
<1>21. Len(pathCalls') <= 1 + Cardinality(Reached(r)')
  <2>1. PICK N : N = {to \in DOMAIN links : links[to] = x}
    OBVIOUS
  <2>2. Reached(r)' = Reached(r) \cup N
    <3>1. ASSUME NEW to \in DOMAIN links, links[to] \o r = x \o r PROVE links[to] = x
      BY <3>1, OneWayOn DEF LinksTyped
    <3>2. QED
      BY <1>6, <1>7, <2>1, <3>1 DEF Reached
  <2>3. Reached(r) \cap N = {}
    BY <1>3, <1>4, <2>1 DEF Reached
  <2>4. IsFiniteSet(N) /\ Cardinality(N) \in Nat
    BY <2>1, FS_Subset, FS_CardinalityType DEF LinksTyped, PathsConstants
  <2>5. IsFiniteSet(Reached(r)) /\ Cardinality(Reached(r)) \in Nat
    BY ReachedAreFew
  <2>6. Cardinality(Reached(r)') = Cardinality(Reached(r)) + Cardinality(N)
    <3>1. Cardinality(Reached(r) \cap N) = 0
      BY <2>3, FS_EmptySet
    <3>2. Cardinality(Reached(r) \cup N) = Cardinality(Reached(r)) + Cardinality(N) - Cardinality(Reached(r) \cap N)
      BY <2>4, <2>5, FS_Union
    <3>3. QED
      BY <2>2, <2>4, <2>5, <3>1, <3>2
  <2>7. m <= Cardinality(N) + 1
    <3>1. S \subseteq N \cup {x}
      BY <1>9, <2>1
    <3>2. IsFiniteSet(N \cup {x}) /\ Cardinality(N \cup {x}) \in Nat /\ Cardinality(N \cup {x}) <= Cardinality(N) + 1
      <4>1. /\ IsFiniteSet(N \cup {x})
            /\ Cardinality(N \cup {x}) = IF x \in N THEN Cardinality(N) ELSE Cardinality(N) + 1
        BY <2>4, FS_AddElement
      <4>2. QED
        BY <2>4, <4>1
    <3>3. Cardinality(S) <= Cardinality(N \cup {x})
      BY <3>1, <3>2, FS_Subset
    <3>4. QED
      BY <1>16, <2>4, <3>2, <3>3
  <2>8. n <= 1 + Cardinality(Reached(r))
    BY <1>18 DEF Telling
  <2>9. QED
    BY <1>16, <1>18, <1>20, <2>4, <2>5, <2>6, <2>7, <2>8
<1>22. ASSUME r # <<>>, NEW a \in Ends, NEW y \in Ends, LinkedEnds(a, y), a \o r \in DOMAIN temp'
       PROVE  \/ y \o r \in DOMAIN temp'
              \/ \E k \in 1 .. Len(pathCalls') : pathCalls'[k].path = y \o r
  <2>1. CASE a \o r \in DOMAIN temp
    <3>1. CASE y \o r \in DOMAIN temp
      BY <1>7, <3>1
    <3>2. CASE y \o r \notin DOMAIN temp
      <4>1. PICK k \in 1 .. n : pathCalls[k].path = y \o r
        BY <1>18, <1>22, <2>1, <3>2 DEF Telling
      <4>2. CASE k = 1
        BY <1>3, <1>4, <1>7, <4>1, <4>2
      <4>3. CASE k # 1
        <5>1. k - 1 \in 1 .. n - 1 /\ (k - 1) + 1 = k
          BY <1>18, <4>3
        <5>2. rest[k - 1].path = y \o r
          BY <1>19, <4>1, <5>1
        <5>3. PICK j : j = m + (k - 1)
          OBVIOUS
        <5>4. j \in 1 .. m + (n - 1) /\ ~(j <= m) /\ j - m = k - 1
          BY <1>16, <1>18, <5>1, <5>3
        <5>5. QED
          BY <1>20, <5>2, <5>4
      <4>4. QED
        BY <4>2, <4>3
    <3>3. QED
      BY <3>1, <3>2
  <2>2. CASE a = x
    <3>1. PICK to \in S : (IF to = x THEN links[to] ELSE to) = y
      <4>1. CASE x \in DOMAIN links /\ links[x] = y
        BY <1>9, <1>22, <4>1
      <4>2. CASE y \in DOMAIN links /\ links[y] = x
        BY <1>9, <1>22, <4>2 DEF LinksTyped
      <4>3. QED
        BY <1>22, <2>2, <4>1, <4>2 DEF LinkedEnds
    <3>2. PICK k \in 1 .. m : ends[k] = to
      BY <1>12, <1>16
    <3>3. more[k].path = y \o r
      BY <1>13, <1>17, <3>1, <3>2
    <3>4. k \in 1 .. m + (n - 1) /\ k <= m
      BY <1>16, <1>18
    <3>5. QED
      BY <1>20, <3>3, <3>4
  <2>3. CASE a \o r = x \o r /\ a # x
    BY <2>3, OneWayOn
  <2>4. QED
    BY <1>7, <1>22, <2>1, <2>2, <2>3
<1>23. /\ DOMAIN temp' \subseteq {y \o r : y \in Ends}
       /\ \A path \in DOMAIN temp' : temp'[path] = value
  BY <1>7 DEF Telling
<1>24. temp' # Nothing
  <2>1. DOMAIN Nothing = {}
    BY DEF Nothing
  <2>2. QED
    BY <1>7, <2>1
<1>25. Telling(r, value)'
  BY <1>1, <1>6, <1>20, <1>21, <1>22, <1>23 DEF Telling, LinkedEnds
<1>26. QED
  BY <1>24, <1>25

-----------------------------------------------------------------------------
LEMMA Regroup ==
  ASSUME NEW E, NEW a \in Seq(E), NEW b \in Seq(E), NEW c \in Seq(E), NEW t, t = b \o c
  PROVE  a \o b \o c = a \o t
<1>1. (a \o b) \o c = a \o (b \o c)
  BY ConcatAssociative
<1>2. QED
  BY <1>1

(* A piece within a sequence is a subsequence.                              *)
LEMMA PieceIs ==
  ASSUME NEW seq \in Seq(Things), NEW from \in Int, NEW to \in Int, from >= 1, to <= Len(seq)
  PROVE  Piece(seq, from, to) = SubSeq(seq, from, to)
<1>1. (IF from < 1 THEN 1 ELSE from) = from /\ (IF to > Len(seq) THEN Len(seq) ELSE to) = to
  OBVIOUS
<1>2. QED
  BY <1>1 DEF Piece

LEMMA AppliedIs ==
  ASSUME NEW seq \in Seq(Things), NEW index \in 0 .. Len(seq), NEW removed \in Seq(Things), NEW added
  PROVE  Applied(seq, index, removed, added)
         = SubSeq(seq, 1, index) \o added \o SubSeq(seq, index + Len(removed) + 1, Len(seq))
<1>1. Len(seq) \in Nat /\ Len(removed) \in Nat /\ index \in Int
  OBVIOUS
<1>2. Piece(seq, 1, index) = SubSeq(seq, 1, index)
  BY <1>1, PieceIs
<1>3. PICK from \in Int : from = index + Len(removed) + 1 /\ from >= 1
  BY <1>1
<1>4. Piece(seq, from, Len(seq)) = SubSeq(seq, from, Len(seq))
  BY <1>1, <1>3, PieceIs
<1>5. QED
  BY <1>2, <1>3, <1>4 DEF Applied

(* An array has things, wherever a splice is made.                          *)
LEMMA AppliedTyped ==
  ASSUME NEW seq \in Seq(Things), NEW index \in 0 .. Len(seq), NEW removed \in Seq(Things),
         NEW added \in Seq(Things)
  PROVE  Applied(seq, index, removed, added) \in Seq(Things)
<1>1. PICK x, z : x = SubSeq(seq, 1, index) /\ z = SubSeq(seq, index + Len(removed) + 1, Len(seq))
  OBVIOUS
<1>2. Len(seq) \in Nat /\ Len(removed) \in Nat
  OBVIOUS
<1>3. x \in Seq(Things)
  <2>1. \A i \in 1 .. index : seq[i] \in Things
    OBVIOUS
  <2>2. QED
    BY <1>1, <2>1, SubSeqProperties
<1>4. z \in Seq(Things)
  <2>1. \A i \in index + Len(removed) + 1 .. Len(seq) : seq[i] \in Things
    BY <1>2
  <2>2. QED
    BY <1>1, <1>2, <2>1, SubSeqProperties
<1>5. Applied(seq, index, removed, added) = x \o added \o z
  BY <1>1, AppliedIs
<1>6. \A a, b \in Seq(Things) : a \o b \in Seq(Things)
  BY Behind
<1>7. QED
  BY <1>3, <1>4, <1>5, <1>6

(* Who is told of a splice has the array after it: a splice within the      *)
(* array, as it was made.                                                   *)
LEMMA SpliceIsFollowed ==
  ASSUME ArrayInv, NEW new, NEW index \in Nat, NEW removed \in Seq(Things), NEW items \in Seq(Things),
         index + Len(removed) <= Len(array), new = Applied(array, index, removed, items),
         NotifySplice(new, index, Len(items), removed), UNCHANGED strays
  PROVE  ArrayInv'
<1>1. PICK x, z : x = SubSeq(array, 1, index) /\ z = SubSeq(array, index + Len(removed) + 1, Len(array))
  OBVIOUS
<1>2. /\ array \in Seq(Things) /\ strays \in Nat /\ Mirrored
      /\ Len(array) \in Nat /\ Len(removed) \in Nat /\ Len(items) \in Nat
  BY DEF ArrayInv
<1>3. x \in Seq(Things) /\ Len(x) = index
  <2>1. \A i \in 1 .. index : array[i] \in Things
    BY <1>2
  <2>2. x \in Seq(Things) /\ Len(x) = IF 1 <= index THEN index - 1 + 1 ELSE 0
    BY <1>1, <2>1, SubSeqProperties
  <2>3. QED
    BY <2>2
<1>4. z \in Seq(Things)
  <2>1. \A i \in index + Len(removed) + 1 .. Len(array) : array[i] \in Things
    BY <1>2
  <2>2. QED
    BY <1>1, <1>2, <2>1, SubSeqProperties
<1>5. new = x \o items \o z
  <2>1. index \in 0 .. Len(array)
    BY <1>2
  <2>2. Applied(array, index, removed, items) = SubSeq(array, 1, index) \o items
          \o SubSeq(array, index + Len(removed) + 1, Len(array))
    BY <1>2, <2>1, AppliedIs
  <2>3. QED
    BY <1>1, <2>2
<1>6. PICK t, n : t = items \o z /\ n = Len(items) /\ n \in Nat
  BY <1>2
<1>7. t \in Seq(Things) /\ SubSeq(t, 1, n) = items /\ Len(t) = n + Len(z) /\ Len(z) \in Nat
  BY <1>4, <1>6, Behind
<1>8. new = x \o t
  <2>2. x \in Seq(Things) /\ items \in Seq(Things) /\ z \in Seq(Things)
    BY <1>3, <1>4
  <2>3. t = items \o z
    BY <1>6
  <2>4. x \o items \o z = x \o t
    BY <2>2, <2>3, Regroup
  <2>5. QED
    BY <1>5, <2>4
<1>9. new \in Seq(Things) /\ Len(new) = index + n + Len(z)
  <2>1. new \in Seq(Things) /\ Len(new) = Len(x) + Len(t)
    <3>1. \A a, b \in Seq(Things) : a \o b \in Seq(Things) /\ Len(a \o b) = Len(a) + Len(b)
      BY Behind
    <3>2. x \in Seq(Things) /\ t \in Seq(Things)
      BY <1>3, <1>7
    <3>3. QED
      BY <1>8, <3>1, <3>2
  <2>2. QED
    BY <1>3, <1>6, <1>7, <2>1
<1>10. SubSeq(new, index + 1, index + n) = items
  <2>1. CASE n = 0
    <3>1. items = <<>>
      BY <1>6, <2>1, EmptySeq
    <3>2. SubSeq(new, index + 1, index + 0) = <<>>
      BY SubSeqEmpty
    <3>3. QED
      BY <2>1, <3>1, <3>2
  <2>2. CASE n # 0
    <3>1. /\ index + 1 \in Len(x) + 1 .. Len(x) + Len(t) /\ index + n \in Len(x) + 1 .. Len(x) + Len(t)
          /\ (index + 1) - Len(x) = 1 /\ (index + n) - Len(x) = n
      BY <1>3, <1>6, <1>7, <2>2
    <3>2. SubSeq(x \o t, index + 1, index + n) = SubSeq(t, (index + 1) - Len(x), (index + n) - Len(x))
      <4>1. x \in Seq(Things) /\ t \in Seq(Things)
        BY <1>3, <1>7
      <4>2. PICK i, j : i = index + 1 /\ j = index + n
        OBVIOUS
      <4>3. i \in Len(x) + 1 .. Len(x) + Len(t) /\ j \in Len(x) + 1 .. Len(x) + Len(t)
        BY <3>1, <4>2
      <4>4. SubSeq(x \o t, i, j) = SubSeq(t, i - Len(x), j - Len(x))
        BY <4>1, <4>3, SubSeqOfConcat2
      <4>5. QED
        BY <4>2, <4>4
    <3>3. QED
      BY <1>7, <1>8, <3>1, <3>2
  <2>3. QED
    BY <2>1, <2>2
<1>11. array' = new /\ mirror' = Applied(mirror, index, removed, Piece(new, index + 1, index + n))
  BY <1>6 DEF NotifySplice
<1>12. Piece(new, index + 1, index + n) = items
  <2>1. PICK from \in Int, to \in Int : /\ from = index + 1 /\ to = index + n
                                        /\ from >= 1 /\ to <= Len(new)
    BY <1>6, <1>7, <1>9
  <2>2. Piece(new, from, to) = SubSeq(new, from, to)
    BY <1>9, <2>1, PieceIs
  <2>3. QED
    BY <1>10, <2>1, <2>2
<1>13. strays = 0 => mirror' = new
  BY <1>2, <1>11, <1>12 DEF Mirrored
<1>14. QED
  BY <1>2, <1>9, <1>11, <1>13 DEF ArrayInv, Mirrored

(* The methods that change an array tell of splices within it.              *)
LEMMA ArrayIsFollowed ==
  ASSUME ArrayInv, NEW item \in Things,
         Push(item) \/ Pop \/ Shift \/ Unshift(item)
  PROVE  ArrayInv'
<1>1. PICK n : n = Len(array) /\ n \in Nat
  BY DEF ArrayInv
<1>2. array \in Seq(Things)
  BY DEF ArrayInv
<1>3. SubSeq(array, 1, n) = array /\ SubSeq(array, n + 1, n) = <<>> /\ SubSeq(array, 1, 0) = <<>>
  BY <1>1, <1>2, SubSeqFull, SubSeqEmpty
<1>4. /\ <<>> \in Seq(Things) /\ Len(<<>>) = 0
      /\ \A e \in Things : <<e>> \in Seq(Things) /\ Len(<<e>>) = 1
      /\ \A s \in Seq(Things) : s \o <<>> = s /\ <<>> \o s = s
  BY ConcatEmptySeq
<1>5. CASE Push(item)
  <2>1. Append(array, item) = array \o <<item>>
    BY <1>2, AppendIsConcat
  <2>2. array \o <<item>> \in Seq(Things)
    BY <1>2, <1>4
  <2>3. n + Len(<<>>) + 1 = n + 1 /\ n + Len(<<>>) <= Len(array)
    BY <1>1, <1>4
  <2>4. Append(array, item) = Applied(array, n, <<>>, <<item>>)
    <3>1. Applied(array, n, <<>>, <<item>>)
          = SubSeq(array, 1, n) \o <<item>> \o SubSeq(array, n + Len(<<>>) + 1, Len(array))
      <4>1. n \in 0 .. Len(array) /\ <<>> \in Seq(Things)
        BY <1>1
      <4>2. QED
        BY <1>2, <4>1, AppliedIs
    <3>2. QED
      BY <1>1, <1>3, <1>4, <2>1, <2>2, <2>3, <3>1
  <2>5. NotifySplice(Append(array, item), n, Len(<<item>>), <<>>) /\ UNCHANGED strays
    BY <1>1, <1>4, <1>5 DEF Push
  <2>6. QED
    BY <1>1, <1>4, <2>3, <2>4, <2>5, SpliceIsFollowed
<1>6. CASE Unshift(item)
  <2>1. 0 + Len(<<>>) + 1 = 1 /\ 0 + Len(<<>>) <= Len(array)
    BY <1>1, <1>4
  <2>2. <<item>> \o array = Applied(array, 0, <<>>, <<item>>)
    <3>1. Applied(array, 0, <<>>, <<item>>)
          = SubSeq(array, 1, 0) \o <<item>> \o SubSeq(array, 0 + Len(<<>>) + 1, Len(array))
      <4>1. 0 \in 0 .. Len(array) /\ <<>> \in Seq(Things)
        BY <1>1
      <4>2. QED
        BY <1>2, <4>1, AppliedIs
    <3>2. QED
      BY <1>1, <1>3, <1>4, <2>1, <3>1
  <2>3. NotifySplice(<<item>> \o array, 0, Len(<<item>>), <<>>) /\ UNCHANGED strays
    BY <1>4, <1>6 DEF Unshift
  <2>4. QED
    BY <1>1, <1>4, <2>1, <2>2, <2>3, SpliceIsFollowed
<1>7. CASE Pop
  <2>1. n - 1 \in Nat
    <3>1. array # <<>>
      BY <1>7 DEF Pop
    <3>2. QED
      BY <1>1, <1>2, <3>1, EmptySeq
  <2>2. Last(array) \in Things
    BY <1>1, <1>2, <2>1 DEF Last
  <2>3. PICK removed : removed = <<Last(array)>> /\ removed \in Seq(Things) /\ Len(removed) = 1
    BY <1>4, <2>2
  <2>4. (n - 1) + Len(removed) + 1 = n + 1 /\ (n - 1) + Len(removed) <= Len(array)
    BY <1>1, <2>3
  <2>5. SubSeq(array, 1, n - 1) \in Seq(Things)
    <3>1. \A i \in 1 .. n - 1 : array[i] \in Things
      BY <1>1, <1>2
    <3>2. QED
      BY <2>1, <3>1, SubSeqProperties
  <2>6. Front(array) = Applied(array, n - 1, removed, <<>>)
    <3>1. Front(array) = SubSeq(array, 1, n - 1)
      BY <1>1 DEF Front
    <3>2. SubSeq(array, (n - 1) + Len(removed) + 1, Len(array)) = <<>>
      BY <1>1, <1>3, <2>4
    <3>3. (SubSeq(array, 1, n - 1) \o <<>>) \o <<>> = SubSeq(array, 1, n - 1)
      BY <1>4, <2>5
    <3>4. QED
      <4>1. Applied(array, n - 1, removed, <<>>)
            = SubSeq(array, 1, n - 1) \o <<>> \o SubSeq(array, (n - 1) + Len(removed) + 1, Len(array))
        <5>1. n - 1 \in 0 .. Len(array)
          BY <1>1, <2>1
        <5>2. QED
          BY <1>2, <2>3, <5>1, AppliedIs
      <4>2. QED
        BY <3>1, <3>2, <3>3, <4>1
  <2>7. NotifySplice(Front(array), n - 1, Len(<<>>), removed) /\ UNCHANGED strays
    BY <1>1, <1>4, <1>7, <2>3 DEF Pop
  <2>8. QED
    BY <1>4, <2>1, <2>3, <2>4, <2>6, <2>7, SpliceIsFollowed
<1>8. CASE Shift
  <2>1. array # <<>>
    BY <1>8 DEF Shift
  <2>2. Head(array) \in Things /\ Tail(array) \in Seq(Things) /\ Tail(array) = SubSeq(array, 2, n)
    BY <1>1, <1>2, <2>1, HeadTailProperties, TailIsSubSeq
  <2>3. PICK removed : removed = <<Head(array)>> /\ removed \in Seq(Things) /\ Len(removed) = 1
    BY <1>4, <2>2
  <2>4. n \in Nat \ {0}
    BY <1>1, <1>2, <2>1, EmptySeq
  <2>5. 0 + Len(removed) + 1 = 2 /\ 0 + Len(removed) <= Len(array)
    BY <1>1, <2>3, <2>4
  <2>6. Tail(array) = Applied(array, 0, removed, <<>>)
    <3>1. Applied(array, 0, removed, <<>>)
          = SubSeq(array, 1, 0) \o <<>> \o SubSeq(array, 0 + Len(removed) + 1, Len(array))
      <4>1. 0 \in 0 .. Len(array)
        BY <1>1
      <4>2. QED
        BY <1>2, <2>3, <4>1, AppliedIs
    <3>2. QED
      BY <1>1, <1>3, <1>4, <2>2, <2>5, <3>1
  <2>7. NotifySplice(Tail(array), 0, Len(<<>>), removed) /\ UNCHANGED strays
    BY <1>4, <1>8, <2>3 DEF Shift
  <2>8. QED
    BY <1>4, <2>3, <2>5, <2>6, <2>7, SpliceIsFollowed
<1>9. QED
  BY <1>5, <1>6, <1>7, <1>8

(* A splice takes out what is there, in the array, wherever it starts; one  *)
(* that starts in the array is told as it was made.                         *)
LEMMA SpliceIsMade ==
  ASSUME ArrayInv, NEW start \in Int, NEW count \in Nat, NEW items \in Seq(Things), Splice(start, count, items)
  PROVE  ArrayInv'
<1>1. PICK n : n = Len(array) /\ n \in Nat
  BY DEF ArrayInv
<1>2. array \in Seq(Things) /\ strays \in Nat
  BY DEF ArrayInv
<1>3. PICK index \in Int : index = IF start < 0 THEN n + start ELSE start
  BY <1>1
<1>4. PICK at : at = Start(index)
  OBVIOUS
<1>5. at \in 0 .. n
  BY <1>1, <1>4 DEF Start
<1>6. PICK c : c = Count(index, count)
  OBVIOUS
<1>7. c \in Nat /\ at + c <= n
  BY <1>1, <1>4, <1>5, <1>6 DEF Count
<1>8. PICK removed : removed = SubSeq(array, at + 1, at + c)
  OBVIOUS
<1>9. removed \in Seq(Things) /\ Len(removed) = c
  <2>1. \A i \in at + 1 .. at + c : array[i] \in Things
    BY <1>1, <1>2, <1>5, <1>7
  <2>2. /\ removed \in Seq(Things)
        /\ Len(removed) = IF at + 1 <= at + c THEN (at + c) - (at + 1) + 1 ELSE 0
    BY <1>5, <1>7, <1>8, <2>1, SubSeqProperties
  <2>3. QED
    BY <1>5, <1>7, <2>2
<1>10. /\ NotifySplice(Applied(array, at, removed, items), index, Len(items), removed)
       /\ \/ InArray(start) /\ UNCHANGED strays
          \/ strays' = strays + 1
  BY <1>1, <1>3, <1>4, <1>6, <1>8 DEF Splice
<1>11. CASE InArray(start) /\ UNCHANGED strays
  <2>1. index \in 0 .. n
    BY <1>1, <1>3, <1>11 DEF InArray
  <2>2. at = index /\ index \in Nat
    BY <1>1, <1>4, <2>1 DEF Start
  <2>3. QED
    BY <1>1, <1>7, <1>9, <1>10, <1>11, <2>2, SpliceIsFollowed
<1>12. CASE strays' = strays + 1
  <2>1. Applied(array, at, removed, items) \in Seq(Things)
    BY <1>1, <1>2, <1>5, <1>9, AppliedTyped
  <2>2. array' \in Seq(Things)
    BY <1>10, <2>1 DEF NotifySplice
  <2>3. strays' \in Nat /\ strays' # 0
    BY <1>2, <1>12
  <2>4. QED
    BY <2>2, <2>3 DEF ArrayInv, Mirrored
<1>13. QED
  BY <1>10, <1>11, <1>12

-----------------------------------------------------------------------------
(* Paths are linked and unlinked at rest.                                   *)
LEMMA LinksStay ==
  ASSUME PathInv, NEW to \in Ends, NEW from \in Ends, LinkPaths(to, from) \/ UnlinkPaths(to)
  PROVE  PathInv'
<1>1. LinksTyped /\ ArrayInv
  BY DEF PathInv
<1>2. AtRest /\ UNCHANGED <<pathCalls, temp, array, mirror, strays>>
  BY DEF LinkPaths, UnlinkPaths
<1>3. CASE LinkPaths(to, from)
  <2>1. links' = [path \in DOMAIN links \cup {to} |-> IF path = to THEN from ELSE links[path]] /\ to # from
    BY <1>3 DEF LinkPaths
  <2>2. LinksTyped'
    BY <1>1, <2>1 DEF LinksTyped
  <2>3. QED
    BY <1>1, <1>2, <2>2 DEF PathInv, ArrayInv, Mirrored, AtRest
<1>4. CASE UnlinkPaths(to)
  <2>1. links' = [path \in DOMAIN links \ {to} |-> links[path]]
    BY <1>4 DEF UnlinkPaths, Restrict
  <2>2. LinksTyped'
    BY <1>1, <2>1 DEF LinksTyped
  <2>3. QED
    BY <1>1, <1>2, <2>2 DEF PathInv, ArrayInv, Mirrored, AtRest
<1>5. QED
  BY <1>3, <1>4

LEMMA PathsStart ==
  ASSUME NEW Names, PathsConstants(Names), PathInit
  PROVE  PathInv
<1>1. PICK n \in 0 .. MaxItems : array \in [1 .. n -> Things]
  BY DEF PathInit
<1>2. array \in Seq(Things)
  <2>1. n \in Nat
    BY DEF PathsConstants
  <2>2. QED
    BY <1>1, <2>1
<1>3. mirror = array /\ strays = 0 /\ links = Nothing /\ pathCalls = <<>> /\ temp = Nothing
  BY DEF PathInit
<1>4. QED
  BY <1>2, <1>3 DEF PathInv, LinksTyped, ArrayInv, Mirrored, AtRest, Nothing

LEMMA PathSteps ==
  ASSUME NEW Names, PathsConstants(Names), PathInv, [PathNext]_pathVars
  PROVE  PathInv'
<1>1. LinksTyped /\ ArrayInv
  BY DEF PathInv
<1>2. ASSUME NEW to \in Ends, NEW from \in Ends, LinkPaths(to, from) \/ UnlinkPaths(to) PROVE PathInv'
  BY <1>2, LinksStay
<1>3. ASSUME NEW end \in Ends, NEW below \in Below, NEW value \in Things, NotifyPath(end \o below, value)
      PROVE  PathInv'
  BY <1>1, <1>3, NotifyTells
<1>4. CASE SetPendingPath
  <2>1. ~AtRest
    BY <1>4 DEF SetPendingPath, AtRest
  <2>2. PICK r \in Below, value \in Things : Telling(r, value)
    BY <2>1 DEF PathInv
  <2>3. Telling(r, value)'
    BY <1>1, <1>4, <2>2, ToldIsLeft, PathIsTold
  <2>4. LinksTyped' /\ ArrayInv'
    BY <1>1, <1>4 DEF SetPendingPath, LinksTyped, ArrayInv, Mirrored
  <2>5. QED
    BY <2>3, <2>4 DEF PathInv
<1>5. CASE FlushPaths
  <2>1. AtRest' /\ UNCHANGED <<links, array, mirror, strays>>
    BY <1>5 DEF FlushPaths, AtRest, Nothing
  <2>2. QED
    BY <1>1, <2>1 DEF PathInv, LinksTyped, ArrayInv, Mirrored
<1>6. ASSUME AtRest, NEW new, NEW index, NEW added, NEW removed,
             NotifySplice(new, index, added, removed), ArrayInv'
      PROVE  PathInv'
  BY <1>1, <1>6 DEF NotifySplice, PathInv, LinksTyped, AtRest, Nothing
<1>7. ASSUME AtRest, NEW item \in Things, Push(item) \/ Unshift(item) PROVE PathInv'
  <2>1. ArrayInv'
    BY <1>1, <1>7, ArrayIsFollowed
  <2>2. QED
    BY <1>6, <1>7, <2>1 DEF Push, Unshift
<1>8. CASE AtRest /\ (Pop \/ Shift)
  <2>1. array # <<>> /\ Head(array) \in Things
    BY <1>1, <1>8 DEF ArrayInv, Pop, Shift
  <2>2. ArrayInv'
    BY <1>1, <1>8, <2>1, ArrayIsFollowed
  <2>3. QED
    BY <1>6, <1>8, <2>2 DEF Pop, Shift
<1>9. ASSUME AtRest, NEW start \in -(MaxItems + 1) .. MaxItems + 1, NEW count \in 0 .. MaxItems, NEW items \in Items,
             Splice(start, count, items)
      PROVE  PathInv'
  <2>1. start \in Int /\ count \in Nat
    BY DEF PathsConstants
  <2>2. items \in Seq(Things)
    <3>1. PICK n \in 0 .. 2 : items \in [1 .. n -> Things]
      BY DEF Items
    <3>2. n \in Nat
      OBVIOUS
    <3>3. QED
      BY <3>1, <3>2
  <2>3. ArrayInv'
    BY <1>1, <1>9, <2>1, <2>2, SpliceIsMade
  <2>4. QED
    BY <1>6, <1>9, <2>3 DEF Splice
<1>10. CASE UNCHANGED pathVars
  <2>1. UNCHANGED <<links, pathCalls, temp, array, mirror, strays>>
    BY <1>10 DEF pathVars
  <2>2. LinksTyped' /\ ArrayInv' /\ (AtRest' <=> AtRest)
    BY <1>1, <2>1 DEF LinksTyped, ArrayInv, Mirrored, AtRest, Nothing
  <2>3. \A r, value : Telling(r, value) => Telling(r, value)'
    BY <2>1 DEF Telling, Reached, LinkedEnds
  <2>4. QED
    BY <2>2, <2>3 DEF PathInv
<1>11. QED
  BY <1>2, <1>3, <1>4, <1>5, <1>7, <1>8, <1>9, <1>10 DEF PathNext, ArrayChanges

(* No more calls wait than there is room for, and the array is followed.    *)
LEMMA TellingStays ==
  ASSUME NEW Names, PathsConstants(Names), PathInv
  PROVE  TellingEnds /\ Mirrored
<1>1. Mirrored
  BY DEF PathInv, ArrayInv
<1>2. Cardinality(Ends) \in Nat /\ MaxTelling \in Nat /\ Cardinality(Ends) < MaxTelling
  BY FS_CardinalityType DEF PathsConstants
<1>3. CASE AtRest
  <2>1. Len(pathCalls) = 0 /\ DOMAIN temp = {}
    BY <1>3 DEF AtRest, Nothing
  <2>2. QED
    BY <1>1, <1>2, <2>1 DEF TellingEnds
<1>4. CASE ~AtRest
  <2>1. PICK r \in Below, value \in Things : Telling(r, value)
    BY <1>4 DEF PathInv
  <2>2. Len(pathCalls) <= 1 + Cardinality(Reached(r)) /\ Len(pathCalls) \in Nat
    BY <2>1 DEF Telling
  <2>3. Cardinality(Reached(r)) \in Nat /\ Cardinality(Reached(r)) <= Cardinality(Ends)
    BY ReachedAreFew DEF PathInv
  <2>4. Len(pathCalls) <= MaxTelling
    BY <1>2, <2>2, <2>3
  <2>5. DOMAIN temp \subseteq {a \o b : a \in Ends, b \in Below}
    BY <2>1 DEF Telling
  <2>6. QED
    BY <1>1, <2>4, <2>5 DEF TellingEnds
<1>5. QED
  BY <1>3, <1>4

(* When nothing waits, the ends below which a value was told are with every *)
(* end that is linked with one of them.                                     *)
LEMMA ToldOfAll ==
  ASSUME NEW Names, PathsConstants(Names), NEW r \in Below, NEW value, Telling(r, value), pathCalls = <<>>,
         NEW a \in Ends, NEW b \in Ends, NEW q \in Below,
         Same(a, b), q # <<>>, a \o q \in DOMAIN temp
  PROVE  b \o q \in DOMAIN temp /\ temp[b \o q] = temp[a \o q]
<1>1. PICK x \in Ends : x \o r = a \o q
  BY DEF Telling
<1>2. q = r
  BY <1>1, OneWayOn
<1>3. PICK T : T = {end \in Ends : end \o r \in DOMAIN temp}
  OBVIOUS
<1>4. ASSUME NEW y \in T, NEW z \in Ends, LinkedEnds(y, z) PROVE z \in T
  <2>1. Len(pathCalls) = 0
    OBVIOUS
  <2>2. \/ z \o r \in DOMAIN temp
        \/ \E k \in 1 .. Len(pathCalls) : pathCalls[k].path = z \o r
    BY <1>2, <1>3, <1>4 DEF Telling
  <2>3. QED
    BY <1>3, <2>1, <2>2
<1>5. a \in T /\ T \in SUBSET Ends
  BY <1>2, <1>3
<1>6. b \in T
  BY <1>4, <1>5 DEF Same
<1>7. QED
  BY <1>2, <1>3, <1>6 DEF Telling

(* What was told is forgotten when nothing waits.                           *)
LEMMA LinkedAreTold ==
  ASSUME NEW Names, PathsConstants(Names), PathInv, [PathNext]_pathVars
  PROVE  LinkedTold
<1>1. CASE FlushPaths
  <2>1. pathCalls = <<>> /\ ~AtRest
    BY <1>1 DEF FlushPaths, AtRest
  <2>2. PICK r \in Below, value \in Things : Telling(r, value)
    BY <2>1 DEF PathInv
  <2>3. QED
    BY <2>1, <2>2, ToldOfAll DEF LinkedTold
<1>2. CASE SetPendingPath /\ temp # Nothing
  <2>1. ~AtRest
    BY <1>2 DEF AtRest
  <2>2. PICK r \in Below, value \in Things : Telling(r, value)
    BY <2>1 DEF PathInv
  <2>3. CASE Head(pathCalls).path \in DOMAIN temp
    <3>1. Head(pathCalls) \in [path : {x \o r : x \in Ends}, value : {value}]
      <4>1. PICK C : C = [path : {x \o r : x \in Ends}, value : {value}]
        OBVIOUS
      <4>2. pathCalls \in Seq(C) /\ pathCalls # <<>>
        BY <1>2, <2>2, <4>1 DEF Telling, SetPendingPath
      <4>3. Head(pathCalls) \in C
        BY <4>2
      <4>4. QED
        BY <4>1, <4>3
    <3>2. temp[Head(pathCalls).path] = Head(pathCalls).value
      BY <2>2, <2>3, <3>1 DEF Telling
    <3>3. temp' = temp
      BY <1>2, <2>3, <3>2 DEF SetPendingPath
    <3>4. QED
      BY <1>2, <3>3 DEF LinkedTold
  <2>4. CASE Head(pathCalls).path \notin DOMAIN temp
    <3>1. temp' # Nothing
      BY <1>2, <2>2, <2>4, PathIsTold DEF PathInv
    <3>2. Nothing' = Nothing
      BY DEF Nothing
    <3>3. QED
      BY <3>1, <3>2 DEF LinkedTold
  <2>5. QED
    BY <2>3, <2>4
<1>3. CASE temp = Nothing \/ temp' = temp
  BY <1>3 DEF LinkedTold
<1>4. FlushPaths \/ SetPendingPath \/ temp' = temp
  BY DEF PathNext, pathVars, LinkPaths, UnlinkPaths, NotifyPath, ArrayChanges, Push, Unshift,
     Pop, Shift, Splice, NotifySplice
<1>5. QED
  BY <1>1, <1>2, <1>3, <1>4

(* cloud-dashboard.js:9337-9352,10232-10255,10712-10829: for any ends of    *)
(* links none of which lies below another, what is told of a path comes to  *)
(* an end, and is told of every path that links lead to, through any number *)
(* of them and in rings; and who follows the splices of an array has it, as *)
(* long as none was asked for with a start outside of the array.            *)
THEOREM PathsAreFollowed ==
  ASSUME NEW Names, PathsConstants(Names)
  PROVE  PathSpec => [](TellingEnds /\ Mirrored) /\ [][LinkedTold]_pathVars
<1>1. PathInit => PathInv
  BY PathsStart
<1>2. PathInv /\ [PathNext]_pathVars => PathInv'
  BY PathSteps
<1>3. PathInv => TellingEnds /\ Mirrored
  BY TellingStays
<1>4. PathInv /\ [PathNext]_pathVars => [LinkedTold]_pathVars
  BY LinkedAreTold
<1>5. QED
  BY <1>1, <1>2, <1>3, <1>4, PTL DEF PathSpec
=============================================================================
