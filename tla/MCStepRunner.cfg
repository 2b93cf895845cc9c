CONSTANTS
    N = 3
    Kinds <- MCKinds
    Surroundings <- MCSurroundings

SPECIFICATION FairSpec

INVARIANTS
    TypeOK
    SlotsInOrder
    ProgressComplete
    EffectsMatchReport
    WithinContract

PROPERTY
    ImplementsPlanRun
