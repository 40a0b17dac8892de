\* One authorization request, three refresh tokens, three CAS tickets;
\* two requests at a time.
CONSTANTS
    None = None
    t1 = t1
    t2 = t2
    t3 = t3
    p1 = p1
    p2 = p2
    Tokens = {t1, t2, t3}
    Families = {"f1"}
    Procs = {p1, p2}
    MaxRevokes = 1
    Nil = Nil
    Apps = {"a", "b"}
    Services = {"s1", "s2"}
    serviceURLs <- ServiceURLs
    ProxyEnabled = {"a"}
    Callers = {"w1"}
    MaxTickets = 3
    MaxPGTs = 2
SPECIFICATION AllSpec
INVARIANTS
    FlowAnswers
    FamiliesRevoked
    
PROPERTIES
    TicketsAreOneTime
SYMMETRY Symmetry
CHECK_DEADLOCK FALSE
