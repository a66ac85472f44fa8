SPECIFICATION Spec
CONSTANTS
    p1 = p1
    s1 = s1
    u1 = u1
    Procs = {p1}
    Starters = {s1}
    Cancellers = {}
    Retriers = {}
    Resumers = {u1}
    MaxRunAttempts = 1
    QueueAttempts = 1
    MaxDetached = 0
    MaxCrashes = 0
    MaxCallFailures = 0
    MaxFaults = 0
    MaxWorkerStarts = 0
PROPERTIES
    RetryRequeues
CHECK_DEADLOCK FALSE
