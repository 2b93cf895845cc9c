SPECIFICATION Spec
CONSTANTS
    Layouts <- MCLayouts
    Commands <- MCCommands
    Runs = 3
INVARIANTS TypeOK SuccessIsInstalled CleanRecovers ForcedInstallRecovers
PROPERTY OthersKept
