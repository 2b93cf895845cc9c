CONSTANTS
    Filters <- MCFilters
    Runs = 3

SPECIFICATION Spec

INVARIANTS
    RerunCompletes

PROPERTIES
    PromotionLosesNothing
    StepsKeepOnePrimary
    MetadataSurvives
