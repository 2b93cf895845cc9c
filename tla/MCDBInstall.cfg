CONSTANTS
    H = 3
    K = 2

SPECIFICATION Spec

INVARIANTS
    ApplyExitTruthful
    SuccessIsComplete
