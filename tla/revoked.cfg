CONSTANTS
    Ids = {i1, i2}
    NoId = NoId
    UUIDs = {}
    NoDevice = NoDevice
    NoUUID = NoUUID
    WebAge = 1
    KeepAge = 2
    MaxIdle = 3
    Requests = {r1, r2}
    Emails = {e1}
    NoOne = NoOne
    Codes = {}
    NoCode = NoCode
    Contents = {c1}
    NoAccount = NoAccount
    NoStore = NoStore
    NoAuth = NoAuth
    Skeleton = Skeleton
    Ops <- TokenOps
    Clients = {NoDevice}
    RequestAge = 1
    MaxClock = 2
    MaxTokens = 2
SYMMETRY SymmetryIds
SPECIFICATION Spec
INVARIANTS RevokedIsRefused
