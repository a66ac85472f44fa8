SPECIFICATION FairSpec
CONSTANTS
    p1 = p1
    p2 = p2
    s1 = s1
    s2 = s2
    c1 = c1
    r1 = r1
    u1 = u1
    Procs = {p1, p2}
    Starters = {s1,s2}
    Cancellers = {c1}
    Retriers = {r1}
    Resumers = {u1}
    MaxRunAttempts = 2
    QueueAttempts = 2
    MaxDetached = 1
    MaxCrashes = 1
    MaxCallFailures = 1
    MaxFaults = 1
    MaxWorkerStarts = 1
CONSTRAINT
    CallsApart
INVARIANTS
    TypeOK
PROPERTIES
    RunSettles
    UnqueuedRunRecovers
    CancelBlocksNewMoves
CHECK_DEADLOCK FALSE
