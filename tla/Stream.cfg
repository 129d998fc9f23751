SPECIFICATION Spec
CONSTANTS
    Loads <- MCLoads
    KP_PLENGTH = 2
    MaxConns = 2
INVARIANT StreamExact
PROPERTY ReceiveEnds
CHECK_DEADLOCK FALSE
