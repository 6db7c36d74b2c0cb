CONSTANTS
    o1 = o1
    Orders = {o1}
    s1 = s1
    s2 = s2
    Sockets = {s1, s2}
    Registered <- MCRegistered
    SUBSCRIBED <- AgreedNames
    MaxEvents = 3
    MaxFaults = 2
    None = None
SPECIFICATION Spec
INVARIANTS CompleteBoardIsTrue
PROPERTIES FramesMoveForward StreamIsRestored GoneClientsLeaveTheBus
