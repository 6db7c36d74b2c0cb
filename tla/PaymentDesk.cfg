CONSTANTS
    b1 = b1
    b2 = b2
    b3 = b3
    r1 = r1
    r2 = r2
    uuid = uuid
    Bills = {b1, b2, b3}
    Receipts = {r1, r2}
    PriceOf <- MCPriceOf
    ListLimit = 3
    Operator = uuid
    Uuids = {uuid}
    MaxCalls = 5
    MaxMounts = 2
    MaxPending = 2
SPECIFICATION FairSpec
INVARIANTS TypeOK MatchesArePairs ReceiptPostedOnce PageTrueAtRest
PROPERTIES MatchIsFinal BusyEnds
