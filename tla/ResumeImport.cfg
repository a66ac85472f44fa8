SPECIFICATION RISpec
CONSTANTS
    p1 = p1
    p2 = p2
    c1 = c1
    c2 = c2
    f1 = f1
    f2 = f2
    t1 = t1
    Procs = {p1, p2}
    Callers = {c1, c2}
    Files = {f1, f2}
    Infected = {f2}
    Typed = {t1}
    Tries = 2
    MaxUploads = 2
    MaxSaves = 1
    MaxFaults = 1
SYMMETRY ImportSymmetry
INVARIANTS
    RITypeOK
PROPERTIES
    ConfirmedIsKept
    WorkersKeepReviews
    ParsedIsCurrent
CHECK_DEADLOCK FALSE
