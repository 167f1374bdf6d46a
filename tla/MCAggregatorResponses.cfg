CONSTANTS
    a = a
    b = b
    Free = Free
    ZeroRoot = ZeroRoot
    Roots = {r1, r2}
    Operators = {a, b}
    MaxBlock = 3
    BlockRange = 10
    StakeHistories <- MCHistories
    Calls = {c1, c2}
    MaxIndex = 2
    waitForEventRetries = 1
    MaxSentTxRetries = 2
    MaxRetries = 2
    MaxCrashes = 0
    Faults = {"badSignature", "expiry", "sendError", "receiptTimeout"}
SPECIFICATION Spec
INVARIANTS
    AggregatorTypeOK
    AggregatedQuorumHolds
    SuccessMeansVerified
SYMMETRY MCSymmetry
CHECK_DEADLOCK FALSE
