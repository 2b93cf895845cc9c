CONSTANTS
    Versions = {1, 2}
    Runs = 3

SPECIFICATION StageSpec

INVARIANTS
    NamedPackageIsWhole
    NewestIsChosen
    ExtractedIsComplete
    ForcedRunRecovers
