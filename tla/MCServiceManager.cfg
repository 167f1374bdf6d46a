CONSTANTS
    a = a
    b = b
    c = c
    Roots = {r1, r2}
    Operators = {a, b, c}
    MaxBlock = 3
    BlockRange = 4
    StakeHistories <- MCHistories
SPECIFICATION ChainSpec
INVARIANTS
    ChainTypeOK
    QuorumBehindVerified
    LogMatchesState
PROPERTIES
    LedgerOnlyGrows
    ImplementsPromise
