CONSTANTS
    b1 = b1
    b2 = b2
    r1 = r1
    other = other
    s1 = s1
    None = None
    o1 = o1
    c1 = c1
    Buyers = {b1, b2}
    Rooms = {r1}
    Slots = {s1}
    Allotted <- MCAllotted
    RoomStatuses = {"VACANT_CLEAN", "OCCUPIED_DIRTY"}
    Orders = {o1}
    NameOf <- MCNameOf
    Numbers = {r1}
    CheckIns = {c1}
    Fallback = {other, r1}
    Initial = other
    FirstRoom = r1
    Watched = {b1}
    MaxReads = 2
    MaxClicks = 1
    MaxCalls = 2
    MaxReloads = 1
SPECIFICATION Spec
CHECK_DEADLOCK FALSE
INVARIANTS ChargeLandsOnNamed KeyFollowsCheckIn NobodyShownTwice AcknowledgedIsKept
PROPERTIES ImplementsSales
