CONSTANTS
    Calls = {c1, c2}
    NoCall = NoCall
    MaxClears = 1
    MaxShows = 1
    MaxPosts = 2
    MaxRefreshes = 1
    Events = {e1, e2, e3}
    Install = e3
    NoEvent = NoEvent
    NoID = NoID
    MaxNow = 2
SPECIFICATION Spec
PROPERTIES CallsAnswered SubmissionEnds EveryEventEnds ExpiredGoes
CHECK_DEADLOCK FALSE
