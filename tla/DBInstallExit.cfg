CONSTANTS
    H = 2
    K = 1

SPECIFICATION Spec

INVARIANT
    ConnectivityFailureIsReported
