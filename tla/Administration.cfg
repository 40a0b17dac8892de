\* Two handlers and the sweeper over one request, with one fault; and the other parts.
SPECIFICATION AllSpec
CONSTANTS
    requester = requester
    approver = approver
    console = console
    app = app
    None = None
    Deleted = Deleted
    System = System
    w1 = w1
    w2 = w2
    s1 = s1
    s2 = s2
    r1 = r1
    r2 = r2
    e1 = e1
    Requests = {r1}
    Users = {requester, approver}
    Targets = {console}
    AppTargets = {}
    Eligibilities = {e1}
    Rules <- ManualRules
    SuperAdmins = {}
    Workers = {w1, w2}
    Sweepers = {s1}
    Unendable = {}
    MaxTTL = 2
    MaxTime = 2
    MaxBindings = 2
    MaxFaults = 1
    RoleIds = {"r1", "r2"}
    SystemRoles = {"r1"}
    Perms = {"p", "q"}
    Holders = {"u", "v"}
    Scopes = {"o"}
    Pods = {"p1"}
    Editors = {"w1"}
    MaxRequests = 3
    MaxLoadFaults = 0
INVARIANTS
    EndedGrantHasNoBinding
    NoSilentStaleness
    PoliciesHold
    
    DelegationClosed
    
PROPERTIES
    GrantedOnce
SYMMETRY Symmetry
CHECK_DEADLOCK FALSE
