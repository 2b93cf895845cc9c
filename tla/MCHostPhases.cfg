CONSTANTS
    H = 3
    N = 3
    Listed = {TRUE, FALSE}
    NoSlot = NoSlot

SPECIFICATION Spec

INVARIANTS
    PrecheckVisitsAll
    ExitTruthful
