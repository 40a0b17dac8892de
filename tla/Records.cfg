\* The ledger's three jobs and a verification, one failing statement, no
\* overlap: without breaks and crashes leadership does not move, so one
\* replica stands for all.  Two pods, two requests and a few events for the
\* rest.
CONSTANTS
    p1 = p1
    p2 = p2
    r1 = r1
    v1 = v1
    None = None
    Replicas = {r1}
    Jobs = {"chainer", "anchorer", "pruner"}
    MaxBreaks = 0
    MaxCrashes = 0
    MaxFaults = 1
    SinkOn = TRUE
    Verifiers = {v1}
    Events <- ThreeEvents
    BatchLimit = 2
    VerifyBatchSize = 1
SPECIFICATION AllSpec
INVARIANTS
    LedgerVerifies
    
    
SYMMETRY Symmetry
CHECK_DEADLOCK FALSE
