CONSTANTS
    k1 = k1
    k2 = k2
    Keys = {k1, k2}
    Payloads = {job, etims}
    job = job
    etims = etims
    MaxRetryCount = 2
    NoKey = NoKey
    NoPayload = NoPayload
    Passes = {p1, p2, p3}
    p3 = p3
    p1 = p1
    p2 = p2
    FlushCeiling = 2
    UnknownTypes = {etims}
    Burst = 2
    MaxCrashes = 1
    PromptRestart = TRUE
SPECIFICATION Spec
INVARIANTS TypeOK ExclusiveClaim CompletedWasPublished BadgeTrueAtRest FirstAttemptsInOrder
PROPERTIES TerminalIsFinal ImplementsOutbox
SYMMETRY SafetySymmetry
