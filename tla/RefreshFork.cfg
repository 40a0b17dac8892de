\* Three tokens of one family under two concurrent requests.
CONSTANTS
    None = None
    Tokens = {t1, t2, t3}
    Families = {f1}
    Procs = {p1, p2}
    MaxRevokes = 0
SPECIFICATION Spec
INVARIANT OneLive
CHECK_DEADLOCK FALSE
