SPECIFICATION Spec
CONSTANTS
    Nodes = {n1, n2}
    hourly = hourly
    weekly = weekly
    Schedules = {hourly, weekly}
    Lists <- BothLists
    FirstList <- OneTrigger
    Spread = 1
    Day = 1
    MaxTime = 3
    MaxJobs = 3
    MaxSyncs = 1
    MaxFaults = 1
SYMMETRY NodeSymmetry
CHECK_DEADLOCK FALSE
INVARIANTS
    OncePerFiring
    FiringsUsed
