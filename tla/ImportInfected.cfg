SPECIFICATION RISpec
CONSTANTS
    p1 = p1
    c1 = c1
    f1 = f1
    t1 = t1
    Procs = {p1}
    Callers = {c1}
    Files = {f1}
    Infected = {f1}
    Typed = {t1}
    Tries = 2
    MaxUploads = 1
    MaxSaves = 2
    MaxFaults = 0
PROPERTIES
    CareerIsKept
CHECK_DEADLOCK FALSE
