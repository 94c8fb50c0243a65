------------------------------ MODULE Templates ------------------------------
(***************************************************************************)
(* How a template is parsed, once, and how its copies are bound: the nodes *)
(* with bindings are noted by their place among their siblings, while the  *)
(* parser joins texts, removes blank ones and wraps templates; the nodes   *)
(* of a copy are then found by these places.  An effect remembers the      *)
(* index which its node will have in the list of the noted ones.           *)
(***************************************************************************)
EXTENDS Naturals, Sequences, SequencesExt

CONSTANTS
    Outer,  \* the places of nodes in the template
    Inner   \* the places of nodes in each of its elements

(* A text without and with a binding, a blank one, an element without and   *)
(* with bound attributes, a template that is to be a dom-if.                *)
Texts == {"text", "boundText", "blank"}
Kinds == Texts \cup {"element", "boundElement", "template"}

VARIABLES
    strip,    \* strip-whitespace
    dom,      \* the nodes of the template; those of elements have nodes
    cursor,   \* where the parser is: the index of a node, and in it, or 0
    place,    \* parentIndex, of both loops
    infos,    \* nodeInfoList: places, and which node it was
    effects   \* the effects of bindings: the index, and the node

parseVars == <<strip, dom, cursor, place, infos, effects>>

IsElement(kind) == kind \in {"element", "boundElement"}

(* Nodes have identities: where they were.                                  *)
ParseInit ==
    /\ strip \in BOOLEAN
    /\ \E kinds \in [Outer -> Kinds], inner \in [Inner -> Texts \cup {"boundElement"}] :
          dom = [i \in Outer |->
                   [id |-> <<i>>, kind |-> kinds[i],
                    nodes |-> IF IsElement(kinds[i])
                              THEN [j \in Inner |-> [id |-> <<i, j>>, kind |-> inner[j], nodes |-> <<>>]]
                              ELSE <<>>]]
    /\ cursor = <<1, 0>> /\ place = <<0, 0>>
    /\ infos = <<>> /\ effects = {}

-----------------------------------------------------------------------------
(* The loop over the nodes of the template, or of the element it is in.     *)
Inside == cursor[2] > 0
Level == IF Inside THEN 2 ELSE 1
Nodes == IF Inside THEN dom[cursor[1]].nodes ELSE dom
Here == cursor[Level]
More == Here <= Len(Nodes)
Node == Nodes[Here]

WithNodes(nodes) == IF Inside THEN [dom EXCEPT ![cursor[1]].nodes = nodes] ELSE nodes

(* Neighbouring texts become one, which is blank only if all are.           *)
Joined(node, next) ==
    [node EXCEPT !.kind = IF "boundText" \in {node.kind, next.kind} THEN "boundText"
                          ELSE IF {node.kind, next.kind} = {"blank"} THEN "blank" ELSE "text"]

JoinTexts ==
    /\ More /\ Here < Len(Nodes)
    /\ Node.kind \in Texts /\ Nodes[Here + 1].kind \in Texts
    /\ dom' = WithNodes(RemoveAt(ReplaceAt(Nodes, Here, Joined(Node, Nodes[Here + 1])), Here + 1))
    /\ UNCHANGED <<strip, cursor, place, infos, effects>>

IsJoined == Here < Len(Nodes) => ~{Node.kind, Nodes[Here + 1].kind} \subseteq Texts

(* A mutant: the place of a node that is removed is counted.                *)
RemoveBlank_Counted ==
    /\ More /\ IsJoined /\ strip /\ Node.kind = "blank"
    /\ dom' = WithNodes(RemoveAt(Nodes, Here))
    /\ place' = [place EXCEPT ![Level] = @ + 1]
    /\ UNCHANGED <<strip, cursor, infos, effects>>

RemoveBlank ==
    /\ More /\ IsJoined /\ strip /\ Node.kind = "blank"
    /\ dom' = WithNodes(RemoveAt(Nodes, Here))
    /\ UNCHANGED <<strip, cursor, place, infos, effects>>

Kept == More /\ IsJoined /\ ~(strip /\ Node.kind = "blank")

(* The places of the node that is parsed, from the outermost on.            *)
Path == IF Inside THEN <<place[1], place[2]>> ELSE <<place[1]>>

Moved == /\ cursor' = [cursor EXCEPT ![Level] = @ + 1]
         /\ place' = [place EXCEPT ![Level] = @ + 1]

(* addBinding: the index which the node's info is going to have.            *)
AddBinding(id) == effects \cup {[index |-> Len(infos) + 1, node |-> id]}

Noted(id, path) == Append(infos, [path |-> path, node |-> id])

(* A node that has no nodes of its own, or is not noted.                    *)
ParseNode ==
    /\ Kept /\ ~(~Inside /\ Node.kind \in {"element", "boundElement", "template"})
    /\ IF Node.kind \in {"boundText", "boundElement"}
       THEN effects' = AddBinding(Node.id) /\ infos' = Noted(Node.id, Path)
       ELSE UNCHANGED <<effects, infos>>
    /\ Moved
    /\ UNCHANGED <<strip, dom>>

(* wrapTemplateExtension: the template is put into a new element, in its    *)
(* place; the loop goes on with that element and its only node, which is    *)
(* noted for what it contains.                                              *)
WrapTemplate ==
    /\ Kept /\ ~Inside /\ Node.kind = "template"
    /\ dom' = [dom EXCEPT ![Here] =
                 [id |-> <<"wrapper", Here>>, kind |-> "element", nodes |-> <<Node>>]]
    /\ cursor' = [cursor EXCEPT ![2] = 1] /\ place' = [place EXCEPT ![2] = 0]
    /\ UNCHANGED <<strip, infos, effects>>

NestedTemplate ==
    /\ Kept /\ Inside /\ Node.kind = "template"
    /\ effects' = AddBinding(Node.id) /\ infos' = Noted(Node.id, Path)
    /\ Moved
    /\ UNCHANGED <<strip, dom>>

(* _parseTemplateNode: first the nodes of an element ...                    *)
EnterElement ==
    /\ Kept /\ ~Inside /\ IsElement(Node.kind)
    /\ cursor' = [cursor EXCEPT ![2] = 1] /\ place' = [place EXCEPT ![2] = 0]
    /\ UNCHANGED <<strip, dom, infos, effects>>

(* ... then its attributes, then it is noted itself.                        *)
LeaveElement ==
    LET element == dom[cursor[1]] IN
    /\ Inside /\ ~More
    /\ IF element.kind = "boundElement"
       THEN effects' = AddBinding(element.id) /\ infos' = Noted(element.id, <<place[1]>>)
       ELSE UNCHANGED <<effects, infos>>
    /\ cursor' = <<cursor[1] + 1, 0>>
    /\ place' = <<place[1] + 1, 0>>
    /\ UNCHANGED <<strip, dom>>

ParseNext ==
    \/ JoinTexts \/ RemoveBlank \/ ParseNode \/ WrapTemplate
    \/ NestedTemplate \/ EnterElement \/ LeaveElement

ParseSpec == ParseInit /\ [][ParseNext]_parseVars

-----------------------------------------------------------------------------
Parsed == ~Inside /\ ~More

(* findTemplateNode: the places lead from node to node of a copy.           *)
FindTemplateNode(path) ==
    LET node == dom[path[1] + 1]
    IN  IF Len(path) = 1 THEN node ELSE node.nodes[path[2] + 1]

(* cloud-dashboard.js:8475-8490,8687-8724: in a copy of the parsed template *)
(* every noted place leads to the node that was noted, though nodes were    *)
(* joined, removed and wrapped while places were counted.                   *)
NotedIsFound ==
    \A n \in 1 .. Len(infos) :
        LET path == infos[n].path IN
        /\ path[1] + 1 \in DOMAIN dom
        /\ Len(path) = 2 => path[2] + 1 \in DOMAIN dom[path[1] + 1].nodes
        /\ FindTemplateNode(path).id = infos[n].node

(* cloud-dashboard.js:9384,8657-8673,8715-8717: an effect updates the node  *)
(* it was made for, though its index was taken before the node was noted.   *)
EffectsHitTheirNode ==
    \A e \in effects :
        /\ e.index <= Len(infos) => infos[e.index].node = e.node
        /\ Parsed => e.index <= Len(infos)
=============================================================================
