SPECIFICATION Spec
CONSTANTS
    Thread = {t1, t2}
    Batch = {b1, b2, b3}
    Modulus = 65536
    Retries = 1
    DevBats = 1
    BatOps = 2
    BatDels = 1
    BatLen = 3
    MaxCalls = 4
SYMMETRY Symmetry
CHECK_DEADLOCK FALSE
INVARIANTS TypeOK BidsUnique SlotAccounting LimitKept BatchFits
