SPECIFICATION Spec
CONSTANTS
    h1 = h1
    h2 = h2
    HostList <- MCHostList
    Layouts <- MCLayouts
    Options <- MCOptions
    Runs = 3
INVARIANTS WipeNeedsConsent SuccessIsClean RetryCompletes
