CONSTANTS
    Ids = {i1}
    NoId = NoId
    UUIDs = {u1}
    NoDevice = NoDevice
    NoUUID = NoUUID
    WebAge = 1
    KeepAge = 2
    MaxIdle = 3
    Requests = {r1}
    Emails = {e1}
    NoOne = NoOne
    Codes = {k1}
    NoCode = NoCode
    Contents = {c1}
    NoAccount = NoAccount
    NoStore = NoStore
    NoAuth = NoAuth
    Skeleton = Skeleton
    Ops <- TokenOps
    Clients = {NoDevice, u1}
    RequestAge = 1
    MaxClock = 3
    MaxTokens = 3
SYMMETRY SymmetryIds
SPECIFICATION Spec
PROPERTIES LastUsedSaved
