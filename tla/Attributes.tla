----------------------------- MODULE Attributes -----------------------------
(***************************************************************************)
(* A property of an element that is reflected to an attribute: the         *)
(* attribute is read into the property, and the property is written to the *)
(* attribute, which tells the element of it again, in the middle of the    *)
(* writing.  Elements bound to it and observers may set it meanwhile.      *)
(***************************************************************************)
EXTENDS Integers, Sequences

CONSTANTS
    Types,       \* of the property: subset of {"Number", "Boolean", "Object", "Array", "String"}
    Written,     \* what the page writes into the attribute
    Absent,      \* no such attribute
    MaxWrites    \* bound: how often property or attribute are set

VARIABLES
    type,
    hosted,      \* the attribute that its class gives it, hostAttributes
    phase,       \* "plain" (its class is not defined yet), "built", "ready"
    own,         \* {v}: set on the plain element, {} when it was not
    attribute, value,
    serializing, \* __serializing
    stack,       \* the flushes that run, innermost first
    writes

attributeVars == <<type, hosted, phase, own, attribute, value, serializing, stack, writes>>

(* A parsed object differs from every other: made tells them apart.         *)
Value(t, text, n) == [type |-> t, of |-> text, made |-> n]

Undef == Value("undefined", "", 0)

Null == Value("null", "", 0)

Number(text) == Value("number", IF text \in {Absent, "", "0"} THEN "0" ELSE IF text = "1" THEN "1" ELSE "NaN", 0)

Parsed(text, failed) ==
    CASE text = "{}" -> Value("object", "{}", writes)
      [] text \in {"0", "1"} -> Number(text)
      [] text = Absent -> Null
      [] OTHER -> failed

DeserializeValue(text, t) ==
    CASE t = "Number" -> Number(text)
      [] t = "Boolean" -> Value("boolean", IF text = Absent THEN "false" ELSE "true", 0)
      [] t = "Object" -> Parsed(text, Undef)
      [] t = "Array" -> Parsed(text, Null)
      [] t = "String" -> IF text = Absent THEN Null ELSE Value("string", text, 0)

SerializeValue(v) ==
    CASE v.type = "boolean" -> IF v.of = "true" THEN "" ELSE Absent
      [] v.type \in {"null", "undefined"} -> Absent
      [] OTHER -> v.of

(* The values the program gives a property of its type.                     *)
Settable == {DeserializeValue(text, type) : text \in Written \cup {Absent}} \cup {Null, Undef}

AttributesInit ==
    /\ type \in Types
    /\ hosted \in Written \cup {Absent}
    /\ phase = "plain"
    /\ own = {} /\ value = Undef
    /\ attribute \in Written \cup {Absent}
    /\ serializing = FALSE
    /\ stack = <<>>
    /\ writes = 1

FlushOf(v) == [at |-> "clients", with |-> v]

(* Setting it flushes at once when the element is ready.                    *)
SetValue(v) ==
    /\ value' = v
    /\ stack' = IF v = value \/ phase # "ready" THEN stack ELSE <<FlushOf(v)>> \o stack

AttributeToProperty(text) ==
    IF serializing THEN UNCHANGED <<value, stack>> ELSE SetValue(DeserializeValue(text, type))

(* The browser tells of each attribute that is set, changed or not; the     *)
(* element ignores what is no change.                                       *)
AttributeChangedCallback(text) ==
    /\ attribute' = text
    /\ IF text = attribute THEN UNCHANGED <<value, stack>> ELSE AttributeToProperty(text)

Turn == IF stack = <<>> THEN "page" ELSE stack[1].at

Write == writes < MaxWrites /\ writes' = writes + 1

(* Who may set it: the page in a turn of its own; an element bound to it,   *)
(* before it is reflected; its observer afterwards; attributeChanged, which *)
(* the element's class may define, in the middle of the reflection.         *)
MaySet == Turn \in {"page", "clients", "told", "observe"}

SetProperty(v) ==
    /\ MaySet /\ Write
    /\ IF phase = "plain"
       THEN own' = {v} /\ UNCHANGED <<value, stack>>
       ELSE SetValue(v) /\ UNCHANGED own
    /\ UNCHANGED <<type, hosted, phase, attribute, serializing>>

SetAttribute(text) ==
    /\ Turn \in {"page", "observe"}
    /\ Write
    /\ IF phase = "plain"
       THEN attribute' = text /\ UNCHANGED <<value, stack>>
       ELSE AttributeChangedCallback(text)
    /\ UNCHANGED <<type, hosted, phase, own, serializing>>

(* The class is there: its default is set, then the attribute is read.      *)
Build(default) ==
    /\ phase = "plain"
    /\ phase' = "built"
    /\ value' = IF attribute = Absent THEN default ELSE DeserializeValue(attribute, type)
    /\ UNCHANGED <<type, hosted, own, attribute, serializing, stack, writes>>

EnsureAttribute == IF attribute = Absent THEN hosted ELSE attribute

(* It is connected: what was set on the plain element, then the attribute   *)
(* that its class gives it when it has none, then all that is pending.      *)
Ready ==
    /\ phase = "built"
    /\ phase' = "ready"
    /\ LET before == IF own = {} THEN value ELSE CHOOSE v \in own : TRUE
           after == IF EnsureAttribute = attribute THEN before ELSE DeserializeValue(hosted, type)
       IN /\ value' = after
          /\ stack' = IF after = Undef THEN <<>> ELSE <<FlushOf(after)>>
    /\ attribute' = EnsureAttribute
    /\ UNCHANGED <<type, hosted, own, serializing, writes>>

To(step) == [stack EXCEPT ![1].at = step]

ClientsDone ==
    /\ Turn = "clients"
    /\ stack' = To("reflect")
    /\ UNCHANGED <<type, hosted, phase, own, attribute, value, serializing, writes>>

ReflectedValue == value

(* The element is told of the attribute while it is serializing.            *)
PropertyToAttribute ==
    /\ Turn = "reflect"
    /\ serializing' = TRUE
    /\ attribute' = SerializeValue(ReflectedValue)
    /\ stack' = To(IF attribute' = attribute THEN "serialized" ELSE "heard")
    /\ UNCHANGED <<type, hosted, phase, own, value, writes>>

Heard ==
    /\ Turn = "heard"
    /\ stack' = To("told")
    /\ value' = IF serializing THEN value ELSE DeserializeValue(attribute, type)
    /\ UNCHANGED <<type, hosted, phase, own, attribute, serializing, writes>>

Serialized ==
    /\ Turn \in {"told", "serialized"}
    /\ serializing' = FALSE
    /\ stack' = To("observe")
    /\ UNCHANGED <<type, hosted, phase, own, attribute, value, writes>>

Return ==
    /\ Turn = "observe"
    /\ stack' = Tail(stack)
    /\ UNCHANGED <<type, hosted, phase, own, attribute, value, serializing, writes>>

AttributesNext ==
    \/ \E v \in Settable : SetProperty(v) \/ Build(v)
    \/ \E text \in Written \cup {Absent} : SetAttribute(text)
    \/ Ready
    \/ ClientsDone
    \/ PropertyToAttribute
    \/ Heard
    \/ Serialized
    \/ Return

AttributesSpec == AttributesInit /\ [][AttributesNext]_attributeVars

-----------------------------------------------------------------------------
Alike(v, w) == v.type = w.type /\ v.of = w.of

(* Whoever set it, and however the calls nest, in the end the attribute     *)
(* reads as the property, and a property that is nothing has no attribute   *)
(* (runReflectEffect, line 9269, writes what the property is by then).      *)
AttributeReads ==
    phase = "ready" /\ stack = <<>> /\ value # Undef =>
        \/ Alike(DeserializeValue(attribute, type), value)
        \/ value = Null /\ attribute = Absent

(* Writing the attribute never changes the property, although the element   *)
(* hears of it: null in a number is no 0 (__serializing, line 8080).        *)
ReflectionIsSilent ==
    serializing' /\ writes' = writes => value' = value
=============================================================================
