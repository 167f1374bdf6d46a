CONSTANTS
    s1 = s1
    s2 = s2
    Senders = {s1, s2}
    Roots <- MCRoots
    Operators = {}
    MaxBlock = 1
    BlockRange = 8
    StakeHistories <- NoStake
    MaxProofSize = 2
    LibProofSize = 1
    MaxConstraintSystemSize = 2
    MaxVerifierKeySize = 2
    MaxParamsSize = 2
    MaxPublicInputSize = 1
    UintRange = 32
    Starts <- MCStarts
    MaxX = 2
    MaxSetups = 3
    Faults = {"service"}
SPECIFICATION FairSpec
INVARIANTS
    TaskSenderTypeOK
    SuccessMeansExists
    NoRootTwice
    DataBeforeTask
    SentProofsAreAccepted
PROPERTY InfiniteKeepsSending
CHECK_DEADLOCK FALSE
