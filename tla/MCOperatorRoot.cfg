CONSTANTS
    o1 = o1
    o2 = o2
    r1 = r1
    r2 = r2
    Roots = {r1, r2}
    Operators = {o1}
    MaxBlock = 2
    BlockRange = 8
    StakeHistories <- EqualStake
    MaxProofSize = 2
    LibProofSize = 1
    MaxConstraintSystemSize = 2
    MaxVerifierKeySize = 2
    MaxParamsSize = 2
    MaxPublicInputSize = 1
    UintRange = 32
    Objects <- Misplaced
    MaxBatchSize = 1
    MaxRetries = 6
    MaxBreaks = 0
    MaxFails = 0
    Faults = {}
SPECIFICATION Spec
INVARIANT SignedRootIsRootOfBatch
CHECK_DEADLOCK FALSE
