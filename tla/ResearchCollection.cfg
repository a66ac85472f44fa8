SPECIFICATION Spec
CONSTANTS
    d1 = d1
    d2 = d2
    r1 = r1
    r2 = r2
    p1 = p1
    p2 = p2
    w1 = w1
    w2 = w2
    q1 = q1
    f1 = f1
    f2 = f2
    s1 = s1
    Deliveries = {d1, d2}
    Runs = {r1, r2}
    Procs = {p1, p2}
    Windows = {w1, w2}
    Queries = {q1}
    Full = {f1, f2}
    Partial = {s1}
    MaxLapses = 1
    MaxFaults = 1
SYMMETRY ResearchSymmetry
INVARIANTS
    RCTypeOK
    OneSearch
    FoundIsStored
PROPERTIES
    CollectionIsFinal
    NamedIsSettled
CHECK_DEADLOCK FALSE
