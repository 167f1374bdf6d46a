CONSTANTS
    Processes <- MCProcesses
    Proc <- MCProc
    Files <- MCFiles
    Keys = {"k0", "k1", "k2"}
    KeyPairs = {"b0", "b1", "b2", "b3"}
    Admitted = {"k1", "k2"}
    MinStake = 1
    MaxEnds = 1
SPECIFICATION Spec
INVARIANTS
    StartupTypeOK
    RunningIsRegistered
    ServingMeansListening
PROPERTY OperatorComesUp
CHECK_DEADLOCK FALSE
