SPECIFICATION FairSpec
CONSTANTS
    Thread = {t1, t2}
    MaxCalls = 2
    TStat = TRUE
    Limits <- MCLimits
    Workloads <- MCWorkloads
INVARIANTS TypeOK Reclaimed FreedWhenHandedBack CrashFree ResultUsable Screened StatsExact
PROPERTIES ApiSpec Returns
CHECK_DEADLOCK FALSE
