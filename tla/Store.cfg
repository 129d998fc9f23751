SPECIFICATION Spec
CONSTANTS
    Client = {c1, c2}
    Key <- MCKey
    Stored <- MCStored
    KEYLEN = 6
    VALLEN = 2
    BKV_N_MAXKEYS = 2
    KLens = {2, 3}
    VLens = {3, 4, 5}
    MaxCalls = 3
    ki_maxkeyreq = 2
    Ranges <- MCRanges
INVARIANTS ValuesExact IterSound
CONSTRAINT CallsBound
SYMMETRY Symmetry
CHECK_DEADLOCK FALSE
