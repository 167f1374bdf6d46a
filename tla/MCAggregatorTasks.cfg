CONSTANTS
    a = a
    b = b
    Free = Free
    ZeroRoot = ZeroRoot
    Roots = {r1, r2}
    Operators = {a, b}
    MaxBlock = 3
    BlockRange = 10
    StakeHistories <- MCHistories
    Calls = {c1, c2}
    MaxIndex = 2
    waitForEventRetries = 1
    MaxSentTxRetries = 2
    MaxRetries = 2
    MaxCrashes = 1
    Faults = {"crash", "subscription", "duplicate", "badSignature"}
SPECIFICATION Spec
INVARIANTS
    TablesAgree
    SignaturesFiled
SYMMETRY MCSymmetry
CHECK_DEADLOCK FALSE
