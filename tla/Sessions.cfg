SPECIFICATION FairSpec
CONSTANTS
    Thread = {t1, t2}
    KTS_MAX_SESSIONS = 2
    MaxAlloc = 3
INVARIANTS TypeOK OwnSession SlotsAccounted
PROPERTIES Returns
CHECK_DEADLOCK FALSE
