------------------------------ MODULE Tracking ------------------------------
(***************************************************************************)
(* How events are reported.  The promise ready is the end of a chain: the  *)
(* start (the stored stats and the app's version), then one link per call  *)
(* of track, each of which reads the stats, posts the event and stores the *)
(* ID the answer gives.  A call with an email starts a new chain.          *)
(***************************************************************************)
EXTENDS Naturals, FiniteSets

CONSTANTS
    Events,   \* calls of track
    Install,  \* the one made by the start itself
    NoEvent,  \* the chain ends with the start, or with the storing of an email
    NoID      \* an empty or undefined tracking ID

ASSUME TrackingAssumption ==
    /\ Install \in Events /\ NoEvent \notin Events /\ NoID \notin Events
    /\ "email" \notin Events \cup {NoEvent}

VARIABLES
    started,  \* the start: "init" awaited, "loading", "storing", "done"
    event,    \* a call: its state, what it waits for, the ID it was given
    ready,    \* the last link of the chain
    tracking  \* trackingID: the event whose answer gave it, or NoID

trackVars == <<started, event, ready, tracking>>

(* What a link waits for: the start, another event, or nothing (an email).  *)
Links == Events \cup {NoEvent, "email"}

TrackInit ==
    /\ started = "init"
    /\ event = [e \in Events |-> [state |-> "none", after |-> NoEvent, id |-> NoID]]
    /\ ready = NoEvent
    /\ tracking = NoID

-----------------------------------------------------------------------------
(* track: the ID is the one known at the call, not the one known when the   *)
(* event is sent.                                                           *)
Called(e, id) ==
    /\ event' = [event EXCEPT ![e] = [state |-> "called", after |-> ready, id |-> id]]
    /\ ready' = e

Track(e) ==
    /\ e # Install /\ event[e].state = "none"
    /\ Called(e, tracking)
    /\ UNCHANGED <<started, tracking>>

(* A call with an email waits only for the email to be stored; before init  *)
(* there is no statsApi, and it throws.                                     *)
TrackEmail(e) ==
    /\ started # "init"
    /\ e # Install /\ event[e].state = "none"
    /\ event' = [event EXCEPT ![e] = [state |-> "called", after |-> "email", id |-> tracking]]
    /\ ready' = e
    /\ UNCHANGED <<started, tracking>>

(* init tells who sends requests and who stores stats.                      *)
InitTracking ==
    /\ started = "init"
    /\ started' = "loading"
    /\ UNCHANGED <<event, ready, tracking>>

(* The stats and the version are there.  This client keeps no stats, so     *)
(* there is no ID yet and each launch is the first: an event is tracked for *)
(* it, and the stats are stored without waiting for that.                   *)
StatsLoaded ==
    /\ started = "loading"
    /\ started' = "storing"
    /\ tracking' = NoID
    /\ Called(Install, NoID)

(* A mutant: the start ends when the event it tracks is reported.           *)
StatsStored_WaitsForInstall ==
    /\ started = "storing"
    /\ event[Install].state = "done"
    /\ started' = "done"
    /\ UNCHANGED <<event, ready, tracking>>

StatsStored ==
    /\ started = "storing"
    /\ started' = "done"
    /\ UNCHANGED <<event, ready, tracking>>

-----------------------------------------------------------------------------
Over(link) ==
    CASE link = NoEvent -> started = "done"
      [] link = "email" -> TRUE
      [] OTHER          -> event[link].state = "done"

(* The link before is over: the stats are read and the event posted.        *)
PostEvent(e) ==
    /\ event[e].state = "called" /\ Over(event[e].after)
    /\ event' = [event EXCEPT ![e].state = "sent"]
    /\ UNCHANGED <<started, ready, tracking>>

(* The server keeps the ID of an event, or gives one to an event without.   *)
Given(e) == IF event[e].id = NoID THEN e ELSE event[e].id

Reported(e) ==
    /\ event[e].state = "sent"
    /\ event' = [event EXCEPT ![e].state = "done"]
    /\ tracking' = Given(e)
    /\ UNCHANGED <<started, ready>>

(* A failure is forgotten: the next event is not kept from being sent.      *)
NotReported(e) ==
    /\ event[e].state = "sent"
    /\ event' = [event EXCEPT ![e].state = "done"]
    /\ UNCHANGED <<started, ready, tracking>>

Report(e) == PostEvent(e) \/ Reported(e) \/ NotReported(e)

TrackNext ==
    \/ \E e \in Events : Track(e) \/ TrackEmail(e) \/ Report(e)
    \/ InitTracking \/ StatsLoaded \/ StatsStored

TrackSpec == TrackInit /\ [][TrackNext]_trackVars

-----------------------------------------------------------------------------
(* cloud-dashboard.js:419,447: events are sent one after another, each when *)
(* the one before it was answered, as long as none brings an email.         *)
OneAtATime ==
    (\A e \in Events : event[e].after # "email") =>
        Cardinality({e \in Events : event[e].state = "sent"}) <= 1

(* cloud-dashboard.js:397-408,446: every event is answered or given up in   *)
(* the end, those of the start included, for which it must not wait.        *)
EveryEventEnds == \A e \in Events : event[e].state = "called" ~> event[e].state = "done"
=============================================================================
