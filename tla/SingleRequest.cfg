SPECIFICATION SRSpec
CONSTANTS
    p1 = p1
    p2 = p2
    s1 = s1
    f1 = f1
    f2 = f2
    Procs = {p1, p2}
    Starters = {s1}
    Cancellers = {}
    Retriers = {}
    Resumers = {}
    MaxRunAttempts = 1
    QueueAttempts = 2
    MaxDetached = 1
    MaxCrashes = 1
    MaxCallFailures = 0
    MaxFaults = 2
    MaxWorkerStarts = 0
    Findings = {f1, f2}
SYMMETRY SafetySymmetry
INVARIANTS
    SRTypeOK
    AtMostOneDispatch
    ReadyIsComplete
    VersionIsTheResponse
    ChargeIsBacked
PROPERTIES
    ChargeIsFinal
    LeaseIsKept
CHECK_DEADLOCK FALSE
