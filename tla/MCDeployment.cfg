SPECIFICATION Spec
CONSTANTS
    h1 = h1
    h2 = h2
    Top = 14
    Block = 5
    Attempts = 10
    Layouts <- MCLayouts
    Options <- MCOptions
    Runs = 3
INVARIANTS RunningDatabaseSurvives ForcedRunRecovers SuccessIsAsked AddressesFree
