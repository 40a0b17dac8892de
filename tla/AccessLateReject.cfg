\* A rejection or cancellation that lands after the approval.
SPECIFICATION Spec
CONSTANTS
    requester = requester
    approver = approver
    console = console
    app = app
    None = None
    Deleted = Deleted
    System = System
    w1 = w1
    w2 = w2
    s1 = s1
    s2 = s2
    r1 = r1
    r2 = r2
    e1 = e1
    Requests = {r1}
    Users = {requester, approver}
    Targets = {console}
    AppTargets = {}
    Eligibilities = {e1}
    Rules <- ManualRules
    SuperAdmins = {}
    Workers = {w1, w2}
    Sweepers = {s1}
    Unendable = {}
    MaxTTL = 2
    MaxTime = 2
    MaxBindings = 2
    MaxFaults = 0
INVARIANTS
    DeclinedHasNoBinding
CHECK_DEADLOCK FALSE
