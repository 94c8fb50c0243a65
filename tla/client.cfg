CONSTANTS
    Calls = {c1, c2, c3}
    NoCall = NoCall
    MaxClears = 1
    MaxShows = 2
    MaxPosts = 2
    MaxRefreshes = 2
    Events = {e1, e2}
    Install = e2
    NoEvent = NoEvent
    NoID = NoID
    MaxNow = 2
SPECIFICATION SafeSpec
INVARIANTS InTurn AnswerReachesCaller OneAtOnce ToldIsShown
PROPERTIES AnsweredIsClosed
CHECK_DEADLOCK FALSE
