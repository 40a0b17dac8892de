\* Two pods and two checks around one mutation, with one fault.
CONSTANTS
    None = None
    Pods = {p1, p2}
    Users = {u1}
    Readers = {rd1, rd2}
    Writers = {w1}
    Modes = {"one", "all"}
    L1TTL = 1
    L2TTL = 1
    MaxFlight = 1
    MaxTime = 5
    MaxVersion = 1
    MaxFaults = 1
SPECIFICATION Spec
INVARIANTS
    BoundedStaleness
    InvalidationHolds
SYMMETRY Symmetry
CHECK_DEADLOCK FALSE
