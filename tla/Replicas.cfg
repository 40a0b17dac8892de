\* The chainer on two replicas through crashes and failover overlaps; two
\* changes of a role and the two enforcers that follow.
CONSTANTS
    p1 = p1
    p2 = p2
    None = None
    Replicas = {p1, p2}
    Jobs = {"chainer"}
    MaxBreaks = 2
    MaxCrashes = 1
    MaxFaults = 1
    SinkOn = FALSE
    Verifiers = {}
    Events <- FirstEvents
    BatchLimit = 2
    VerifyBatchSize = 1
SPECIFICATION AllSpec
INVARIANTS
    RunsOnOneReplica
PROPERTIES
    ChainHolds
    FailoverRecovers
    EnforcerConverges
CHECK_DEADLOCK FALSE
