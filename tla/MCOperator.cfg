CONSTANTS
    o1 = o1
    r1 = r1
    r2 = r2
    o2 = o2
    Roots = {r1, r2}
    Operators = {o1}
    MaxBlock = 2
    BlockRange = 8
    StakeHistories <- EqualStake
    MaxProofSize = 2
    LibProofSize = 1
    MaxConstraintSystemSize = 2
    MaxVerifierKeySize = 2
    MaxParamsSize = 2
    MaxPublicInputSize = 1
    UintRange = 32
    Objects <- AllObjects
    MaxBatchSize = 1
    MaxRetries = 3
    MaxBreaks = 1
    MaxFails = 1
    Faults = {"crash", "subscription", "resubscription", "service", "unfiled", "drop", "aggregator"}
SPECIFICATION Spec
INVARIANTS
    OperatorTypeOK
    SignedMeansAccepted
    NoSendOnClosed
    RoomForEveryVerdict
    VerifiedMeansAccepted
CHECK_DEADLOCK FALSE
