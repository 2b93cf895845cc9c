CONSTANTS
    L = 2
    Cap = 1

SPECIFICATION FairCommandSpec

\* A command that hangs without a deadline stops the caller for good.
CHECK_DEADLOCK FALSE

INVARIANTS
    RemoteOutputComplete
    ExitCodeTruthful

PROPERTIES
    CommandReturns
    DeadlineReturns
