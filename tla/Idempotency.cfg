SPECIFICATION IdemSpec
CONSTANTS
    r1 = r1
    r2 = r2
    r3 = r3
    b1 = b1
    b2 = b2
    None = None
    Requests = {r1, r2, r3}
    Bodies = {b1, b2}
    MaxLapses = 1
    MaxForgets = 1
SYMMETRY SafetySymmetry
INVARIANTS
    IdemTypeOK
    OneExecution
    OneResponse
    RightBody
PROPERTIES
    ImplementsCell
CHECK_DEADLOCK FALSE
