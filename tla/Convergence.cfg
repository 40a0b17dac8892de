CONSTANTS
    root = root
    o1 = o1
    o2 = o2
    g1 = g1
    None = None
    Messages = {"m1", "m2", "m3"}
    Handled = {"m1", "m2"}
    Workers = {"w1", "w2"}
    MaxAttempts = 2
    Batch = 2
    Lease = 2
    BaseBackoff = 1
    MaxBackoff = 2
    MaxHold = 1
    MaxFaults = 1
SPECIFICATION AllSpec
INVARIANTS
    
    DoneIsDelivered
    
    
PROPERTIES
    EventuallySettled
    RosterConverges
    
CHECK_DEADLOCK FALSE
