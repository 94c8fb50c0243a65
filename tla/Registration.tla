---------------------------- MODULE Registration ----------------------------
(***************************************************************************)
(* How an element's class gets its accessors and its property effects.     *)
(* Behaviors are flattened into a chain of classes, one element extends    *)
(* the other, and a class is finalized, after its super classes, when the  *)
(* first instance of it or of a class below it is made.  A class copies    *)
(* the effects of its super class when it adds the first of its own.       *)
(***************************************************************************)
EXTENDS Integers, Sequences, SequencesExt

CONSTANTS
    Declarations,  \* properties blocks: sequences of [name, flags, from]
    Lists,         \* behaviors: sequences of [of |-> <<behavior, ...>>, nested]
    Behaviors, Base, Sub,
    Names          \* of properties

Flags == {"readOnly", "computed", "reflect", "observer"}

Types == {"compute", "readOnly", "reflect", "observe"}

VARIABLES
    properties,  \* of each info: a block of Declarations
    behaviors,   \* of Base and of Sub: one of Lists
    finalized,   \* __finalized
    todo,        \* the declarations of the classes being finalized
    effects,     \* of each class, by type: its own map (name -> infos), or {}
    accessors    \* of each class: [name -> "none", "setter", "getter"], or {}

registrationVars == <<properties, behaviors, finalized, todo, effects, accessors>>

-----------------------------------------------------------------------------
(* From the last to the first, each where it is not there yet; those of a   *)
(* nested list are not compared with the behaviors of the super class.      *)
KeepBehavior(item, exclude, list) ==
    IF item.b \in Range(list) \/ (item.b \in exclude /\ ~ item.nested) THEN list
    ELSE <<item.b>> \o list

Spread(list) ==
    FlattenSeq([i \in DOMAIN list |->
        [j \in DOMAIN list[i].of |-> [b |-> list[i].of[j], nested |-> list[i].nested]]])

FlattenBehaviors(list, exclude) ==
    FoldRight(LAMBDA item, flat : KeepBehavior(item, exclude, flat), Spread(list), <<>>)

(* A class is named by its element and the info it is generated from.       *)
ClassesOf(element, infos) == [i \in DOMAIN infos |-> <<element, infos[i]>>]

BaseChain == ClassesOf(Base, FlattenBehaviors(behaviors[Base], {}) \o <<Base>>)

SubChain ==
    BaseChain \o ClassesOf(Sub,
        FlattenBehaviors(behaviors[Sub], Range(FlattenBehaviors(behaviors[Base], {}))) \o <<Sub>>)

Classes == {Base, Sub} \X (Behaviors \cup {Base, Sub})

Place(class) == CHOOSE i \in DOMAIN SubChain : SubChain[i] = class

Chain(class) == SubSeq(SubChain, 1, Place(class))

RegistrationInit ==
    /\ properties \in [Behaviors \cup {Base, Sub} -> Declarations]
    /\ behaviors \in [{Base, Sub} -> Lists]
    /\ finalized = {}
    /\ todo = <<>>
    /\ effects = [c \in Classes |-> [t \in Types |-> {}]]
    /\ accessors = [c \in Classes |-> {}]

-----------------------------------------------------------------------------
(* What a class sees: its own, or what the nearest class above it has.      *)
Seen(class, own, none) ==
    LET with == {i \in 1..Place(class) : own[SubChain[i]] # {}}
    IN IF with = {} THEN none
       ELSE CHOOSE m \in own[SubChain[CHOOSE i \in with : \A j \in with : j <= i]] : TRUE

SeenEffects(class, type) ==
    Seen(class, [c \in Classes |-> effects[c][type]], [n \in Names |-> <<>>])

HasEffect(class, type, name) == SeenEffects(class, type)[name] # <<>>

SeenAccessors(class) == Seen(class, accessors, [n \in Names |-> "none"])

Added(type, name, info) == [type |-> type, name |-> name, by |-> info]

(* The effects that a declaration asks for, in order.  A property that is   *)
(* computed is read-only and has its effect at the property it is computed  *)
(* from; what the class has is not added again, but for observers.          *)
CreatePropertyFromConfig(class, d) ==
    LET computed == "computed" \in d.flags
        readOnly == computed \/ "readOnly" \in d.flags
        ask(yes, type, name) == IF yes THEN <<Added(type, name, class[2])>> ELSE <<>>
    IN ask(computed /\ ~ HasEffect(class, "readOnly", d.name), "compute", d.from)
       \o ask(readOnly /\ ~ HasEffect(class, "readOnly", d.name), "readOnly", d.name)
       \o ask("reflect" \in d.flags /\ ~ HasEffect(class, "reflect", d.name), "reflect", d.name)
       \o ask("observer" \in d.flags, "observe", d.name)

AddedEffects(class, added, type) ==
    LET mine == SelectSeq(added, LAMBDA a : a.type = type)
        of(name) == SelectSeq(mine, LAMBDA a : a.name = name)
    IN [n \in Names |-> [i \in DOMAIN of(n) |-> of(n)[i].by]]

(* A mutant: the class that has no effects of the type yet shares the map   *)
(* of its super class and adds to that one.                                 *)
OwnerOf_Shared(class, type) ==
    LET with == {i \in 1..Place(class) : effects[SubChain[i]][type] # {}}
    IN IF with = {} THEN class
       ELSE SubChain[CHOOSE i \in with : \A j \in with : j <= i]

(* The class whose map an effect is added to: ensureOwnEffectMap copies.    *)
OwnerOf(class, type) == class

AddPropertyEffects(class, added) ==
    effects' = [c \in Classes |-> [t \in Types |->
        IF c = OwnerOf(class, t) /\ (\E i \in DOMAIN added : added[i].type = t)
        THEN {[n \in Names |-> SeenEffects(class, t)[n] \o AddedEffects(class, added, t)[n]]}
        ELSE effects[c][t]]]

(* The first effect makes the accessor, and it stays: no setter only when   *)
(* that effect is that the property is read-only.                           *)
CreatePropertyAccessor(class, added) ==
    LET first(n) == CHOOSE i \in DOMAIN added :
                        added[i].name = n /\ \A j \in 1..(i - 1) : added[j].name # n
        made(n) == IF SeenAccessors(class)[n] # "none" \/ \A i \in DOMAIN added : added[i].name # n
                   THEN SeenAccessors(class)[n]
                   ELSE IF added[first(n)].type = "readOnly" THEN "getter" ELSE "setter"
    IN accessors' = IF added = <<>> THEN accessors
                    ELSE [accessors EXCEPT ![class] = {[n \in Names |-> made(n)]}]

FinalizeProperty ==
    /\ todo # <<>>
    /\ LET added == CreatePropertyFromConfig(todo[1].class, todo[1].declaration)
       IN /\ AddPropertyEffects(todo[1].class, added)
          /\ CreatePropertyAccessor(todo[1].class, added)
    /\ todo' = Tail(todo)
    /\ UNCHANGED <<properties, behaviors, finalized>>

(* The classes above that are not finalized yet, from the top.              *)
Unfinalized(class) == SelectSeq(Chain(class), LAMBDA c : c \notin finalized)

OwnProperties(class) ==
    [i \in DOMAIN properties[class[2]] |->
        [class |-> class, declaration |-> properties[class[2]][i]]]

(* An instance is made: its class is finalized.                             *)
Finalize(element) ==
    /\ todo = <<>>
    /\ <<element, element>> \notin finalized
    /\ LET classes == Unfinalized(<<element, element>>)
       IN /\ finalized' = finalized \cup Range(classes)
          /\ todo' = FlattenSeq([i \in DOMAIN classes |-> OwnProperties(classes[i])])
    /\ UNCHANGED <<properties, behaviors, effects, accessors>>

RegistrationNext ==
    \/ FinalizeProperty
    \/ \E element \in {Base, Sub} : Finalize(element)

RegistrationSpec == RegistrationInit /\ [][RegistrationNext]_registrationVars

-----------------------------------------------------------------------------
Declares(class, flag, name) ==
    \E i \in DOMAIN properties[class[2]] :
        properties[class[2]][i].name = name /\ flag \in properties[class[2]][i].flags

(* Whichever element is made first, a finalized class has the observers     *)
(* that it and the classes above it declare, the oldest first, reflects     *)
(* a property once if one of them says so, and has nothing of the classes   *)
(* below it (ensureOwnEffectMap, line 8983, copies at the right time).      *)
EffectsAreDeclared ==
    todo = <<>> =>
        \A class \in finalized, n \in Names :
            LET observing == SelectSeq(Chain(class), LAMBDA c : Declares(c, "observer", n))
                reflecting == SelectSeq(Chain(class), LAMBDA c : Declares(c, "reflect", n))
            IN /\ SeenEffects(class, "observe")[n] = [i \in DOMAIN observing |-> observing[i][2]]
               /\ SeenEffects(class, "reflect")[n]
                    = [i \in 1..(IF reflecting = <<>> THEN 0 ELSE 1) |-> reflecting[i][2]]

(* A behavior is in the chain where the list names it last, after those     *)
(* that the super class has (the comment on the prototype chain, line       *)
(* 15690: of [A, B, C, A, B] remain C, A, B).                               *)
LastBehaviorCounts ==
    \A element \in {Base, Sub} :
        LET list == Spread(behaviors[element])
            flat == FlattenBehaviors(behaviors[element], {})
            last(b) == CHOOSE i \in DOMAIN list :
                           list[i].b = b /\ \A j \in (i + 1)..Len(list) : list[j].b # b
        IN /\ Range(flat) = {list[i].b : i \in DOMAIN list}
           /\ \A i, j \in DOMAIN flat : i < j => last(flat[i]) < last(flat[j])
=============================================================================
