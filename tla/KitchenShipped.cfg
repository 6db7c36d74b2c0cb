CONSTANTS
    o1 = o1
    Orders = {o1}
    s1 = s1
    s2 = s2
    Sockets = {s1, s2}
    Registered <- FullRegistry
    SUBSCRIBED <- MCSubscribed
    MaxEvents = 1
    MaxFaults = 0
    None = None
SPECIFICATION Spec
PROPERTIES StreamIsRestored
