\* One session across its timeouts, two under a revocation; two requests at a time;
\* two accounts, one external account.
CONSTANTS
    s1 = s1
    s2 = s2
    q1 = q1
    q2 = q2
    None = None
    Sessions = {s1}
    Procs = {q1, q2}
    Idle = 1
    Absolutes = {1, 4}
    MaxFlight = 1
    MaxTime = 3
    MaxKills = 1
SPECIFICATION AllSpec
INVARIANTS
    Lapses
    Revoked
    
SYMMETRY Symmetry
CHECK_DEADLOCK FALSE
