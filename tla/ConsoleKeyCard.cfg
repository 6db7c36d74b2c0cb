CONSTANTS
    kRoom = kRoom
    kOrder = kOrder
    enc = enc
    order = order
    Keys = {kRoom, kOrder}
    Payloads <- MCPayloads
    MaxRetryCount = 2
    NoKey = NoKey
    NoPayload = NoPayload
    Passes = {p1}
    p1 = p1
    FlushCeiling = 5
    UnknownTypes = {}
    Burst = 1
    MaxCrashes = 0
    PromptRestart = TRUE
    Devices = {enc}
    Registered = {enc}
    Calls = {c1}
    c1 = c1
    Drains = {d1}
    d1 = d1
    NoSession = NoSession
    NoRequest = NoRequest
    Requests <- MCRequests
    LockKey <- MCLockKey
    Threshold = 1
SPECIFICATION Spec
INVARIANTS KeyCardGuaranteed
