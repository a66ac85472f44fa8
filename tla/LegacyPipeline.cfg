SPECIFICATION LPSpec
CONSTANTS
    p1 = p1
    p2 = p2
    c1 = c1
    r1 = r1
    Procs = {p1, p2}
    Customers = {c1}
    Retriers = {r1}
    Starts = {"RESEARCH_QUEUED", "V1_GENERATING", "V4_GENERATING"}
    MaxRunAttempts = 2
    Tries = {1, 2}
    MaxDetached = 1
    MaxCrashes = 1
    MaxFailures = 1
    MaxExpiries = 1
    MaxFaults = 1
SYMMETRY LegacySymmetry
INVARIANTS
    LPTypeOK
    ReadyPassedQa
    RepairFollowsFailure
    VersionsArePaid
PROPERTIES
    ParkedIsNotPaidAgain
CHECK_DEADLOCK FALSE
