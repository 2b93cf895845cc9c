SPECIFICATION Spec
CONSTANTS
    h0 = h0
    h1 = h1
    h2 = h2
    Primary = h0
    Others <- MCOthers
    Options <- MCOptions
    Runs = 2
INVARIANTS PrimarySurvives SuccessIsExpanded RetryCompletes
PROPERTY LiveFilesSurvive
