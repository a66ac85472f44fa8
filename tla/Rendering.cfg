SPECIFICATION RSpec
CONSTANTS
    w1 = w1
    w2 = w2
    c1 = c1
    b1 = b1
    b2 = b2
    Workers = {w1, w2}
    Customers = {c1}
    Bytes = {b1, b2}
    Tries = 2
    MaxDetached = 1
    MaxLapses = 1
    MaxCrashes = 1
    MaxFailures = 1
    MaxFaults = 1
SYMMETRY RenderingSymmetry
INVARIANTS
    RTypeOK
    OnePublisher
    ArtifactsAgree
    OfferedIsStored
    UndisturbedCompletionIsAnswered
CHECK_DEADLOCK FALSE
