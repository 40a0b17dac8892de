\* Two requests for one app role and the sweeper, which cannot end the first.
SPECIFICATION FairSpec
CONSTANTS
    requester = requester
    approver = approver
    console = console
    app = app
    None = None
    Deleted = Deleted
    System = System
    w1 = w1
    w2 = w2
    s1 = s1
    s2 = s2
    r1 = r1
    r2 = r2
    e1 = e1
    Requests = {r1, r2}
    Users = {requester, approver}
    Targets = {app}
    AppTargets = {app}
    Eligibilities = {e1}
    Rules <- AppRules
    SuperAdmins = {}
    Workers = {w1}
    Sweepers = {s1}
    Unendable = {r1}
    MaxTTL = 1
    MaxTime = 2
    MaxBindings = 2
    MaxFaults = 1
INVARIANTS
    GrantsHold
PROPERTIES
    EndGrantKeepsOthers
    DueGrantEnds
CHECK_DEADLOCK FALSE
