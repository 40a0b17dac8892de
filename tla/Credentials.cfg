\* Two replicas and three keys; two access tokens, two replicas that start.
CONSTANTS
    k1 = k1
    k2 = k2
    k3 = k3
    r1 = r1
    r2 = r2
    g1 = g1
    Keys = {k1, k2, k3}
    Replicas = {r1, r2}
    Signers = {g1}
    None = None
    Every = 2
    SigningTTL = 5
    TokenTTL = 1
    MaxLag = 1
    MaxFlight = 1
    MaxTime = 8
SPECIFICATION AllSpec
INVARIANTS
    TokensVerify
    
SYMMETRY Symmetry
CHECK_DEADLOCK FALSE
