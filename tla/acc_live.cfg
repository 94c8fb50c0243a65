CONSTANTS
    Ids = {i1}
    NoId = NoId
    UUIDs = {u1}
    NoDevice = NoDevice
    NoUUID = NoUUID
    WebAge = 1
    KeepAge = 2
    MaxIdle = 3
    Requests = {r1, r2}
    Emails = {e1}
    NoOne = NoOne
    Codes = {}
    NoCode = NoCode
    Contents = {c1}
    NoAccount = NoAccount
    NoStore = NoStore
    NoAuth = NoAuth
    Skeleton = Skeleton
    Ops <- LiveOps
    Clients = {u1}
    RequestAge = 1
    MaxClock = 2
    MaxTokens = 3
SPECIFICATION FairSpec
PROPERTIES EveryRequestEnds
