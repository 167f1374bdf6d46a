CONSTANTS
    a = a
    b = b
    Free = Free
    ZeroRoot = ZeroRoot
    Roots = {r1}
    Operators = {a, b}
    MaxBlock = 3
    BlockRange = 10
    StakeHistories <- MCHistories
    Calls = {c1, c2}
    MaxIndex = 1
    waitForEventRetries = 1
    MaxSentTxRetries = 2
    MaxRetries = 2
    MaxCrashes = 1
    Faults = {"crash"}
SPECIFICATION FairSpec
PROPERTY RebootForgetsNothing
CHECK_DEADLOCK FALSE
