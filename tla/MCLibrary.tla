------------------------------ MODULE MCLibrary ------------------------------
(* The parts of the libraries the dashboard is built with, each explored by *)
(* itself: they share nothing, so that one state of eleven variables serves *)
(* each of them.  The microtasks keep variables of their own.               *)
EXTENDS MicroTasks, SequencesExt, FiniteSetsExt

VARIABLES
    part,  \* the part this behaviour is about
    s1, s2, s3, s4, s5, s6, s7, s8, s9, s10, s11

pool == <<s1, s2, s3, s4, s5, s6, s7, s8, s9, s10, s11>>
vars == <<part, pool, microVars>>

(* Days around the turns of years of 52 and 53 weeks, and the ends of       *)
(* february, in 1999, 2000, 2004 and 2100.                                  *)
DaysOfEdges == (730116..730124) \cup (730175..730181) \cup (731939..731955) \cup (766700..766706)

Length(m, d, h) == [months |-> m, days |-> d, hours |-> h]
DurationStarts ==
    {Length(m, d, h) : m \in {0, 1, 7, 10, 11, 12, 13, 23}, h \in {0, 21, 23},
                       d \in {0, 1, 25, 29, 30, 31, 44, 45, 60, 61, 319, 365, 548}}
DurationSteps == {Length(0, 0, 1), Length(0, 1, 0), Length(1, 0, 0), Length(0, 31, 0)}

(* The properties of an info: none, one that is reflected and observed, and *)
(* two of which one is computed from the other.                             *)
Blocks ==
    {<<>>, <<[name |-> "a", flags |-> {"reflect", "observer"}, from |-> "b"]>>,
     <<[name |-> "a", flags |-> {"readOnly", "reflect"}, from |-> "b"],
       [name |-> "b", flags |-> {"computed", "observer"}, from |-> "a"]>>}

One(b) == [of |-> <<b>>, nested |-> FALSE]
BehaviorLists ==
    {<<>>, <<One("A"), One("B"), One("A")>>, <<One("B"), [of |-> <<"A", "B">>, nested |-> TRUE]>>}

(* Arrays as they were and as they are, for the splices between them.       *)
Arrays4 == UNION {[1..n -> {"x", "y", "z"}] : n \in 0..4}
Old4 == UNION {[1..n -> {"x", "y", "z"}] : n \in 0..3}

Render == INSTANCE RenderStatus WITH
    Callbacks <- {"a", "b", "c"}, MaxFlushes <- 2, MaxNested <- 3,
    queues <- s1, scheduled <- s2, frames <- s3, timeouts <- s4, loops <- s5, ran <- s6,
    flushes <- s7

Flow == INSTANCE PropertyFlow WITH
    Host <- "host", Children <- <<"c1", "c2", "c3">>, TwoWay <- {"c1", "c3"}, Late <- {"c3"},
    Values <- {1, 2}, Undefined <- 0, MaxSets <- 3,
    life <- s1, data <- s2, computed <- s3, pending <- s4, notify <- s5, clients <- s6,
    told <- s7, calls <- s8, sets <- s9

If == INSTANCE DomIf WITH
    Texts <- {"x", "y"}, NoInst <- None, Empty <- "",
    if <- s1, restamp <- s2, host <- s3, instance <- s4, invalid <- s5, debounced <- s6,
    outer <- s7, place <- s8

Repeat == INSTANCE DomRepeat WITH
    Items <- {1, 2}, Passing <- {2}, MaxLength <- 3, MaxFrames <- 2, MaxNotifying <- 2,
    InitialCount <- 1, NoRender <- "no",
    items <- s1, filter <- s2, sort <- s3, instances <- s4, instOf <- s5, limit <- s6,
    render <- s7, chunks <- s8, rendered <- s9, notifying <- s10, replaced <- s11

Observer == INSTANCE FlattenedNodes WITH
    Nodes <- {"n", "m"}, Slot <- "slot", MaxNodes <- 3,
    children <- s1, assigned <- s2, records <- s3, event <- s4, listened <- s5, effective <- s6,
    scheduled <- s7, task <- s8, connected <- s9, known <- s10, missed <- s11

Selector == INSTANCE ArraySelector WITH
    Pool <- {"x", "y", "z"}, NoItem <- None, MaxItems <- 3,
    multi <- s1, toggle <- s2, array <- s3, selection <- s4, selected <- s5, links <- s6

Gesture == INSTANCE Gestures WITH
    tracks <- s1, pointer <- s2, held <- s3, offset <- s4, due <- s5, follows <- s6, track <- s7,
    tap <- s8, ignore <- s9, fingers <- s10, fired <- s11

Template == INSTANCE Templates WITH
    Outer <- 1..3, Inner <- 1..2,
    strip <- s1, dom <- s2, cursor <- s3, place <- s4, infos <- s5, effects <- s6

BoundTo == INSTANCE BoundTemplates WITH
    Doms <- {"d1", "d2", "d3", "d4"}, None <- "none",
    first <- s1, last <- s2, next <- s3, previous <- s4, own <- s5, bound <- s6

Path == INSTANCE Paths WITH
    Ends <- {<<"items", "0">>, <<"selected">>, <<"copy">>}, Below <- {<<>>, <<"name">>},
    Things <- {1, 2}, MaxTelling <- 4, MaxItems <- 3, MaxStrays <- 1,
    links <- s1, pathCalls <- s2, temp <- s3, array <- s4, mirror <- s5, strays <- s6

Attribute == INSTANCE Attributes WITH
    Types <- {"Number", "Boolean", "Object", "Array", "String"}, Written <- {"", "1", "{}", "x"},
    Absent <- "absent", MaxWrites <- 3,
    type <- s1, hosted <- s2, phase <- s3, own <- s4, attribute <- s5, value <- s6,
    serializing <- s7, stack <- s8, writes <- s9

Register == INSTANCE Registration WITH
    Declarations <- Blocks, Lists <- BehaviorLists, Behaviors <- {"A", "B"},
    Base <- "base", Sub <- "sub", Names <- {"a", "b"},
    properties <- s1, behaviors <- s2, finalized <- s3, todo <- s4, effects <- s5,
    accessors <- s6

Cal == INSTANCE Calendar WITH
    Days <- DaysOfEdges, Offsets <- {-41, 7, 122, 803}, Locales <- {<<0, 6>>, <<1, 4>>, <<6, 12>>}, Ticks <- 2,
    today <- s1, other <- s2, locale <- s3

Dur == INSTANCE Durations WITH
    Starts <- DurationStarts, Steps <- DurationSteps, MaxSteps <- 2,
    dur <- s1, steps <- s2

Format == INSTANCE DurationFormat WITH
    Begin <- {7, 4 * 60 + 8, 4 * 3600 + 8, 4 * 7200 + 6, 4 * (3600 + 60) + 4, 4 * 86400 + 6,
              4 * (86400 + 3600) + 4, 4 * 604800 + 6},
    Templates <- {<<"hours", "minutes", "seconds">>, <<"days", "hours", "minutes">>, <<"minutes">>,
                  <<"weeks", "days", "minutes", "seconds">>},
    Span <- 14, PerSecond <- 4,
    left <- s1, counted <- s2, template <- s3, trim <- s4, trunc <- s5, largest <- s6,
    units <- s7, bubbling <- s8, shown <- s9, before <- s10

(* What stands for no instance is none.                                     *)
ASSUME NoneIsNoInstance ==
    None \notin [data : {"x", "y", ""}, text : {"x", "y", ""}, kept : {"x", "y", ""}, hide : BOOLEAN]

-----------------------------------------------------------------------------
Init ==
    /\ MicroInit
    /\ \/ part = "micro" /\ s1 = 0 /\ s2 = 0 /\ s3 = 0 /\ s4 = 0 /\ s5 = 0 /\ s6 = 0 /\ s7 = 0 /\ s8 = 0 /\ s9 = 0 /\ s10 = 0 /\ s11 = 0
       \/ part = "splices" /\ s1 \in Arrays4 /\ s2 \in Old4 /\ s3 = 0 /\ s4 = 0 /\ s5 = 0 /\ s6 = 0 /\ s7 = 0 /\ s8 = 0 /\ s9 = 0 /\ s10 = 0 /\ s11 = 0
       \/ part = "render" /\ Render!RenderInit /\ s8 = 0 /\ s9 = 0 /\ s10 = 0 /\ s11 = 0
       \/ part = "flow" /\ Flow!FlowInit /\ s10 = 0 /\ s11 = 0
       \/ part = "dom-if" /\ If!DomIfInit /\ s9 = 0 /\ s10 = 0 /\ s11 = 0
       \/ part = "dom-repeat" /\ Repeat!RepeatInit
       \/ part = "nodes" /\ Observer!FlatInit
       \/ part = "selector" /\ Selector!SelectorInit /\ s7 = 0 /\ s8 = 0 /\ s9 = 0 /\ s10 = 0 /\ s11 = 0
       \/ part = "gestures" /\ Gesture!GestureInit
       \/ part = "templates" /\ Template!ParseInit /\ s7 = 0 /\ s8 = 0 /\ s9 = 0 /\ s10 = 0 /\ s11 = 0
       \/ part = "bound" /\ BoundTo!BoundInit /\ s7 = 0 /\ s8 = 0 /\ s9 = 0 /\ s10 = 0 /\ s11 = 0
       \/ part = "paths" /\ Path!PathInit /\ s7 = 0 /\ s8 = 0 /\ s9 = 0 /\ s10 = 0 /\ s11 = 0
       \/ part = "attributes" /\ Attribute!AttributesInit /\ s10 = 0 /\ s11 = 0
       \/ part = "registration" /\ Register!RegistrationInit /\ s7 = 0 /\ s8 = 0 /\ s9 = 0 /\ s10 = 0 /\ s11 = 0
       \/ part = "calendar" /\ Cal!CalendarInit /\ s4 = 0 /\ s5 = 0 /\ s6 = 0 /\ s7 = 0 /\ s8 = 0 /\ s9 = 0 /\ s10 = 0 /\ s11 = 0
       \/ part = "durations" /\ Dur!DurationsInit /\ s3 = 0 /\ s4 = 0 /\ s5 = 0 /\ s6 = 0 /\ s7 = 0 /\ s8 = 0 /\ s9 = 0 /\ s10 = 0 /\ s11 = 0
       \/ part = "format" /\ Format!FormatInit /\ s11 = 0

In(p, A) == part = p /\ A /\ UNCHANGED <<part, microVars>>

Next ==
    \/ part = "micro" /\ MicroNext /\ UNCHANGED <<part, pool>>
    \/ In("render", Render!RenderNext /\ UNCHANGED <<s8, s9, s10, s11>>)
    \/ In("flow", Flow!FlowNext /\ UNCHANGED <<s10, s11>>)
    \/ In("dom-if", If!DomIfNext /\ UNCHANGED <<s9, s10, s11>>)
    \/ In("dom-repeat", Repeat!RepeatNext)
    \/ In("nodes", Observer!FlatNext)
    \/ In("selector", Selector!SelectorNext /\ UNCHANGED <<s7, s8, s9, s10, s11>>)
    \/ In("gestures", Gesture!GestureNext)
    \/ In("templates", Template!ParseNext /\ UNCHANGED <<s7, s8, s9, s10, s11>>)
    \/ In("bound", BoundTo!BoundNext /\ UNCHANGED <<s7, s8, s9, s10, s11>>)
    \/ In("paths", Path!PathNext /\ UNCHANGED <<s7, s8, s9, s10, s11>>)
    \/ In("attributes", Attribute!AttributesNext /\ UNCHANGED <<s10, s11>>)
    \/ In("registration", Register!RegistrationNext /\ UNCHANGED <<s7, s8, s9, s10, s11>>)
    \/ In("calendar", Cal!CalendarNext /\ UNCHANGED <<s4, s5, s6, s7, s8, s9, s10, s11>>)
    \/ In("durations", Dur!DurationsNext /\ UNCHANGED <<s3, s4, s5, s6, s7, s8, s9, s10, s11>>)
    \/ In("format", Format!FormatNext /\ UNCHANGED <<s11>>)

Spec == Init /\ [][Next]_vars

-----------------------------------------------------------------------------
(* cloud-dashboard.js:13797-14025: the splices between two arrays, made one *)
(* after another, lead from the old one to the current one, each takes out  *)
(* what it says, and they take out and put in no more than they must.       *)
(* 14168-14284: what the observer of nodes was told by such splices adds up *)
(* to the nodes that are there.                                             *)
SplicesAreExact ==
    /\ part = "splices" =>
          LET splices == Observer!CalculateSplices(s1, s2)
          IN /\ Observer!AllSplices(splices, s1, s2) = s1
             /\ Observer!Matches(splices, s1, s2)
             /\ Observer!Edits(splices) = Len(s1) + Len(s2) - 2 * Observer!LongestCommon(s1, s2)
    /\ part = "nodes" => Observer!ToldAddsUp /\ Observer!ChangesReported

(* cloud-dashboard.js:9104-9152,9238-9303,10530-10542: when all calls have  *)
(* returned, the host and the elements bound to it in both directions have  *)
(* one value, an observer was told last what its element has, and saw       *)
(* computed what was computed from the value it is told.                    *)
FlowSettles ==
    part = "flow" => Flow!Agreement /\ Flow!ToldLast /\ Flow!ComputedFirst

(* cloud-dashboard.js:13640-13684: a callback that waits for a render has a *)
(* frame, a timeout or a loop that will come to it.  17302-17310,           *)
(* 17356-17378, 17416, 17450-17479, 17571-17579: when nothing is to come    *)
(* all items that pass are shown, in order, each instance with its item;    *)
(* a render asked for by a listener of a render, that the next chunk took   *)
(* the place of, is made up for by that chunk.  17772-17866: a conditional  *)
(* part is seen exactly when it should be and shows the host's value, also  *)
(* if that changed while it was hidden.                                     *)
RenderedIsCurrent ==
    /\ part = "render" => Render!NoneIsLeft
    /\ part = "dom-repeat" => Repeat!InstancesAgree /\ Repeat!ReplacedComes /\ Repeat!AllShown
    /\ part = "dom-if" => If!ShowsHost /\ If!RestampRemoves

(* cloud-dashboard.js:18036-18208: a selected item is found at its index    *)
(* and linked there, whatever happens to the array, and the page is given   *)
(* these items.  10232-10255, 10712-10829: what is told of a path ends,     *)
(* though links form a ring, and who follows the splices has the array, as  *)
(* long as none started outside of it.                                      *)
ObserversAgree ==
    /\ part = "selector" => Selector!SelectedAgrees /\ Selector!IndicesAgree
    /\ part = "paths" => Path!TellingEnds /\ Path!Mirrored

(* cloud-dashboard.js:12874-12881,13165-13198,13248-13311,13454-13469: a    *)
(* pointer that tracked does not tap, unless another button went down       *)
(* meanwhile; none taps or goes up twice, and after the end, or another     *)
(* button, nothing of it is followed.                                       *)
GesturesEnd ==
    part = "gestures" => Gesture!OneTap /\ Gesture!OneUp /\ Gesture!NothingFollowed

(* cloud-dashboard.js:8475-8490,8657-8724,9384: every place noted in a      *)
(* template leads to its node in the copies, and an effect updates the node *)
(* it was made for.  11160-11172, 11253-11264: exactly the copies in the    *)
(* document are updated.                                                    *)
TemplatesAreBound ==
    /\ part = "templates" => Template!NotedIsFound /\ Template!EffectsHitTheirNode
    /\ part = "bound" => BoundTo!AllReached

(* cloud-dashboard.js:8983-8998,15722-15740: a class has the effects that   *)
(* are declared by it and above it, whichever is made first, and a behavior *)
(* the place where it is listed last.  9269-9275: in the end the attribute  *)
(* reads as the property.                                                   *)
ClassesAreMade ==
    /\ part = "registration" => Register!EffectsAreDeclared /\ Register!LastBehaviorCounts
    /\ part = "attributes" => Attribute!AttributeReads

(* cloud-dashboard.js:3238-3261,3384-3427,5292-5442,5626-5682: the week and *)
(* weekday of a date lead back to it, periods follow each other without a   *)
(* gap, two dates are whole months and less than one more apart, and the    *)
(* month after so many is that month.  4188-4366: a date is read back from  *)
(* each way to write it, and a day that is not is refused.                  *)
DatesAreRight ==
    part = "calendar" =>
        /\ Cal!WeeksLeadBack /\ Cal!PeriodsFollow
        /\ Cal!DifferenceIsWhole /\ Cal!MonthsAreAdded
        /\ Cal!WrittenIsRead /\ Cal!OthersAreRefused

(* cloud-dashboard.js:6319-6364: the parts of a duration have one sign and  *)
(* none is too large.  1545-1837: nothing of what is left is missing from   *)
(* the countdown but what its smallest unit cannot show, what is trimmed    *)
(* was 0, and it never goes up.                                             *)
DurationsAreRight ==
    /\ part = "durations" => Dur!PartsAreProper
    /\ part = "format" => Format!NothingIsMissing /\ Format!OnlyZerosGo /\ Format!CountsDown

(* cloud-dashboard.js:14326-14356: a flush ends with nothing to render.     *)
(* 13285-13358: a track is told as a start, moves and an end.  9337-9352:   *)
(* what is told below a linked path is told of all paths that name it, in   *)
(* the same flush.  8078-8099: writing an attribute never changes the       *)
(* property.  3407-3433, 5486-5505: weeks are counted without a gap from    *)
(* day to day, and the months between two dates never shrink.  6319-6364:   *)
(* a longer duration is told as no less.                                    *)
StepsInOrder ==
    [][/\ part = "micro" => NothingToRender
       /\ part = "gestures" => Gesture!TrackInOrder
       /\ part = "paths" => Path!LinkedTold
       /\ part = "attributes" => Attribute!ReflectionIsSilent
       /\ part = "calendar" => Cal!TimeGoesOn
       /\ part = "durations" => Dur!LongerIsMore]_vars

(* cloud-dashboard.js:7659-7664, 10006-10069, 13636-13651, 14144-14161,     *)
(* 17219-17234, 17711-17718: the parts keep their types; a callback is run  *)
(* once, no call is made to an element that is not enabled, what is nowhere *)
(* has no instance.                                                         *)
LibraryTypeOK ==
    /\ MicroTypeOK
    /\ part = "render" => Render!RenderTypeOK
    /\ part = "flow" => Flow!FlowTypeOK
    /\ part = "dom-if" => If!DomIfTypeOK
    /\ part = "dom-repeat" => Repeat!RepeatTypeOK
    /\ part = "nodes" => Observer!FlatTypeOK
    /\ part = "calendar" => Cal!CalendarTypeOK
    /\ part = "durations" => Dur!DurationsTypeOK
    /\ part = "format" => Format!FormatTypeOK
=============================================================================
