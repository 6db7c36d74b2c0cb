CONSTANTS
    kRoom = kRoom
    kOther = kOther
    enc = enc
    gone = gone
    job = job
    Keys = {kRoom, kOther}
    Payloads <- DrainPayloads
    MaxRetryCount = 2
    NoKey = NoKey
    NoPayload = NoPayload
    Devices = {enc, gone}
    Registered = {enc}
    Calls = {c1}
    c1 = c1
    Drains = {d1, d2}
    d1 = d1
    d2 = d2
    NoSession = NoSession
    NoRequest = NoRequest
    Requests <- DrainRequests
    LockKey <- MCLockKey
    Threshold = 2
SPECIFICATION FairBridgeSpec
INVARIANTS BridgeTypeOK DrainsHoldTheirRows OpenBreakerHasRetryLoop CompletedWasWritten
PROPERTIES ThreadIsReleased QueuedEncodeSettles
