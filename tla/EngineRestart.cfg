SPECIFICATION FairSpec
CONSTANTS
    p1 = p1
    p2 = p2
    s1 = s1
    Procs = {p1, p2}
    Starters = {s1}
    Cancellers = {}
    Retriers = {}
    Resumers = {}
    MaxRunAttempts = 1
    QueueAttempts = 1
    MaxDetached = 0
    MaxCrashes = 1
    MaxCallFailures = 0
    MaxFaults = 1
    MaxWorkerStarts = 1
PROPERTIES
    RecoveryResumes
CHECK_DEADLOCK FALSE
