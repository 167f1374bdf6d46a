CONSTANTS
    a = a
    b = b
    Free = Free
    ZeroRoot = ZeroRoot
    Roots = {r1, r2}
    Operators = {a, b}
    MaxBlock = 2
    BlockRange = 10
    StakeHistories <- MCSkewed
    Calls = {c1, c2}
    MaxIndex = 2
    waitForEventRetries = 1
    MaxSentTxRetries = 2
    MaxRetries = 2
    MaxCrashes = 0
    Faults = {"receiptTimeout", "badSignature"}
SPECIFICATION FairSpec
PROPERTIES
    CallsReturn
    RespondersEnd
    QuorumReachesChain
CHECK_DEADLOCK FALSE
