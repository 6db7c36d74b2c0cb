CONSTANTS
    k1 = k1
    k2 = k2
    Keys = {k1, k2}
    Payloads = {job, etims}
    job = job
    etims = etims
    MaxRetryCount = 2
    NoKey = NoKey
    NoPayload = NoPayload
    Passes = {p1}
    p1 = p1
    FlushCeiling = 8
    UnknownTypes = {etims}
    Burst = 1
    MaxCrashes = 2
    PromptRestart = FALSE
SPECIFICATION FairSpec
INVARIANTS NoStrandedClaim
PROPERTIES EveryActionSettles
