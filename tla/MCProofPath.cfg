CONSTANTS
    MaxProofSize = 2
    LibProofSize = 1
    MaxConstraintSystemSize = 2
    MaxVerifierKeySize = 2
    MaxParamsSize = 2
    MaxPublicInputSize = 1
    UintRange = 32
    Data <- MCData
SPECIFICATION Spec
INVARIANTS
    VerifiersAgree
CHECK_DEADLOCK FALSE
